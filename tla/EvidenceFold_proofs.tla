------------------------- MODULE EvidenceFold_proofs -------------------------
(***************************************************************************)
(* Theorems about the loops of evidence.py, for any groups, peers and      *)
(* outcomes and for any number of observations.  An iteration appends one  *)
(* observation; the invariant says that each loop has then built what      *)
(* Evidence reads off the longer sequence.                                 *)
(***************************************************************************)
EXTENDS EvidenceFold, TLAPS, FiniteSetTheorems

-----------------------------------------------------------------------------
(* One observation more                                                    *)

\* longer is obs with o behind it.
OneMore(obs, o, longer) ==
  \E n \in Nat :
    /\ DOMAIN obs \subseteq Nat /\ \A i \in DOMAIN obs : i < n
    /\ n \notin DOMAIN obs /\ DOMAIN longer = DOMAIN obs \cup {n}
    /\ longer[n] = o /\ \A i \in DOMAIN obs : longer[i] = obs[i]

LEMMA Appended ==
  ASSUME NEW R, NEW obs \in Seq(R), NEW o \in R
  PROVE  Append(obs, o) \in Seq(R) /\ OneMore(obs, o, Append(obs, o))
<1>1. /\ Append(obs, o) \in Seq(R) /\ Len(obs) + 1 \in Nat
      /\ DOMAIN obs \subseteq Nat /\ \A i \in DOMAIN obs : i < Len(obs) + 1
      /\ Len(obs) + 1 \notin DOMAIN obs
      /\ DOMAIN Append(obs, o) = DOMAIN obs \cup {Len(obs) + 1}
      /\ \A i \in DOMAIN obs : Append(obs, o)[i] = obs[i]
      /\ Append(obs, o)[Len(obs) + 1] = o
  OBVIOUS
<1> QED
  BY <1>1 DEF OneMore

\* A dict after an assignment.
LEMMA PutGives ==
  ASSUME NEW dict, NEW k, NEW v
  PROVE  /\ DOMAIN Put(dict, k, v) = DOMAIN dict \cup {k}
         /\ Put(dict, k, v)[k] = v
         /\ \A x \in DOMAIN dict : x # k => Put(dict, k, v)[x] = dict[x]
         /\ Put(dict, k, v) = [x \in DOMAIN dict \cup {k} |-> Put(dict, k, v)[x]]
BY DEF Put

-----------------------------------------------------------------------------
(* The support matrix                                                      *)

SupportStates == {"not_observed", "observed_rejected", "observed_supported"}

LEMMA SupportIsAState == \A o : Support(o) \in SupportStates
BY DEF Support, SupportStates

\* The best of a set of states is one of them, and with one state more it
\* changes if and only if that outranks it.
LEMMA BestOfMore ==
  ASSUME NEW S \in SUBSET SupportStates, NEW s \in SupportStates
  PROVE  /\ Best({s}) = s
         /\ S # {} => /\ Best(S) \in S
                      /\ Best(S \cup {s}) = IF Rank[s] <= Rank[Best(S)] THEN Best(S) ELSE s
<1>1. /\ \A t \in SupportStates : Rank[t] \in Nat
      /\ \A t, u \in SupportStates : Rank[t] = Rank[u] => t = u
  BY DEF Rank, SupportStates
<1>2. ASSUME NEW T \in SUBSET SupportStates, NEW t \in T, \A u \in T : Rank[u] <= Rank[t]
      PROVE  Best(T) = t
  BY <1>1, <1>2 DEF Best
<1>3. Best({s}) = s
  BY <1>1, <1>2
<1>4. ASSUME S # {}
      PROVE  \E b \in S : \A u \in S : Rank[u] <= Rank[b]
  <2>0. /\ Rank["observed_supported"] = 2 /\ Rank["observed_rejected"] = 1
        /\ Rank["not_observed"] = 0
    BY DEF Rank
  <2>1. CASE "observed_supported" \in S
    <3>1. \A u \in S : Rank[u] <= 2
      BY <2>0 DEF SupportStates
    <3> QED
      BY <2>0, <2>1, <3>1
  <2>2. CASE "observed_supported" \notin S /\ "observed_rejected" \in S
    BY <2>2 DEF Rank, SupportStates
  <2>3. CASE "observed_supported" \notin S /\ "observed_rejected" \notin S
    <3>1. S = {"not_observed"}
      BY <1>4, <2>3 DEF SupportStates
    <3> QED
      BY <2>0, <3>1
  <2> QED
    BY <2>1, <2>2, <2>3
<1>5. ASSUME S # {}
      PROVE  /\ Best(S) \in S
             /\ Best(S \cup {s}) = IF Rank[s] <= Rank[Best(S)] THEN Best(S) ELSE s
  <2>1. PICK b \in S : \A u \in S : Rank[u] <= Rank[b]
    BY <1>4, <1>5
  <2>2. Best(S) = b
    BY <1>2, <2>1
  <2>3. CASE Rank[s] <= Rank[b]
    <3>1. Best(S \cup {s}) = b
      BY <1>2, <2>1, <2>3
    <3> QED
      BY <2>2, <2>3, <3>1
  <2>4. CASE ~(Rank[s] <= Rank[b])
    <3>1. \A u \in S : Rank[u] <= Rank[s]
      BY <1>1, <2>1, <2>4
    <3>2. Best(S \cup {s}) = s
      BY <1>1, <1>2, <3>1
    <3> QED
      BY <2>2, <2>4, <3>2
  <2> QED
    BY <2>3, <2>4
<1> QED
  BY <1>3, <1>5

StatesOf(obs, p, g) == { Support(obs[i]) : i \in Attempts(obs, p, g) }

\* What one observation more does to the rows, the groups and the states.
LEMMA MatrixAppended ==
  ASSUME NEW obs, NEW o, NEW longer, OneMore(obs, o, longer)
  PROVE  /\ RowPeers(longer) = RowPeers(obs) \cup (IF GroupProbe(o) THEN {peer_key(o)} ELSE {})
         /\ \A p : RowGroups(longer, p) =
              RowGroups(obs, p)
                \cup (IF GroupProbe(o) /\ peer_key(o) = p THEN {o.group_offered} ELSE {})
         /\ \A p, g : StatesOf(longer, p, g) =
              StatesOf(obs, p, g)
                \cup (IF GroupProbe(o) /\ peer_key(o) = p /\ o.group_offered = g
                      THEN {Support(o)} ELSE {})
<1>1. PICK n : /\ n \notin DOMAIN obs /\ DOMAIN longer = DOMAIN obs \cup {n}
               /\ longer[n] = o /\ \A i \in DOMAIN obs : longer[i] = obs[i]
  BY DEF OneMore
<1>2. RowPeers(longer) = RowPeers(obs) \cup (IF GroupProbe(o) THEN {peer_key(o)} ELSE {})
  BY <1>1 DEF RowPeers
<1>3. ASSUME NEW p
      PROVE  RowGroups(longer, p) =
               RowGroups(obs, p)
                 \cup (IF GroupProbe(o) /\ peer_key(o) = p THEN {o.group_offered} ELSE {})
  BY <1>1 DEF RowGroups
<1>4. ASSUME NEW p, NEW g
      PROVE  StatesOf(longer, p, g) =
               StatesOf(obs, p, g)
                 \cup (IF GroupProbe(o) /\ peer_key(o) = p /\ o.group_offered = g
                       THEN {Support(o)} ELSE {})
  BY <1>1 DEF StatesOf, Attempts
<1> QED
  BY <1>2, <1>3, <1>4

\* There is an attempt for every cell of the matrix.
LEMMA CellHasStates ==
  ASSUME NEW obs, NEW p, NEW g
  PROVE  /\ StatesOf(obs, p, g) \subseteq SupportStates
         /\ Cell(obs, p, g) = Best(StatesOf(obs, p, g))
         /\ g \in RowGroups(obs, p) <=> StatesOf(obs, p, g) # {}
         /\ g \in RowGroups(obs, p) => p \in RowPeers(obs)
<1>1. StatesOf(obs, p, g) \subseteq SupportStates
  BY SupportIsAState DEF StatesOf
<1>2. Cell(obs, p, g) = Best(StatesOf(obs, p, g))
  BY DEF Cell, StatesOf
<1>3. g \in RowGroups(obs, p) <=> StatesOf(obs, p, g) # {}
  BY DEF StatesOf, Attempts, RowGroups
<1>4. g \in RowGroups(obs, p) => p \in RowPeers(obs)
  BY DEF RowGroups, RowPeers
<1> QED
  BY <1>1, <1>2, <1>3, <1>4
-----------------------------------------------------------------------------
(* The loop of support_matrix()                                            *)

\* The row the loop finds is that of the peer, also when there is none yet.
LEMMA RowFound ==
  ASSUME NEW obs, NEW p
  PROVE  At(support_matrix(obs), p, Empty) = [g \in RowGroups(obs, p) |-> Cell(obs, p, g)]
<1>1. CASE p \in RowPeers(obs)
  BY <1>1 DEF At, support_matrix
<1>2. CASE p \notin RowPeers(obs)
  <2>1. RowGroups(obs, p) = {}
    BY <1>2, CellHasStates
  <2>2. At(support_matrix(obs), p, Empty) = Empty
    BY <1>2 DEF At, support_matrix
  <2> QED
    BY <2>1, <2>2 DEF Empty
<1> QED
  BY <1>1, <1>2

\* Only the cell the observation is about changes, and to the best state.
LEMMA RowUpdated ==
  ASSUME NEW obs, NEW o, NEW longer, OneMore(obs, o, longer),
         GroupProbe(o), NEW p, p = peer_key(o)
  PROVE  UpdateRow([g \in RowGroups(obs, p) |-> Cell(obs, p, g)], o.group_offered, Support(o))
           = [g \in RowGroups(longer, p) |-> Cell(longer, p, g)]
<1> DEFINE row == [g \in RowGroups(obs, p) |-> Cell(obs, p, g)]
           h == o.group_offered
           s == Support(o)
<1>1. RowGroups(longer, p) = RowGroups(obs, p) \cup {h}
  BY MatrixAppended
<1>2. /\ StatesOf(longer, p, h) = StatesOf(obs, p, h) \cup {s}
      /\ \A g : g # h => StatesOf(longer, p, g) = StatesOf(obs, p, g)
  BY MatrixAppended
<1>3. \A g : g # h => Cell(longer, p, g) = Cell(obs, p, g)
  BY <1>2, CellHasStates
<1>4. CASE h \in RowGroups(obs, p)
  <2>1. Cell(longer, p, h) = IF Rank[s] <= Rank[Cell(obs, p, h)] THEN Cell(obs, p, h) ELSE s
    <3>1. StatesOf(obs, p, h) \in SUBSET SupportStates /\ StatesOf(obs, p, h) # {}
      BY <1>4, CellHasStates
    <3>2. s \in SupportStates
      BY SupportIsAState
    <3>3. Best(StatesOf(obs, p, h) \cup {s})
            = IF Rank[s] <= Rank[Best(StatesOf(obs, p, h))] THEN Best(StatesOf(obs, p, h)) ELSE s
      BY <3>1, <3>2, BestOfMore
    <3>4. /\ Cell(longer, p, h) = Best(StatesOf(longer, p, h))
          /\ Cell(obs, p, h) = Best(StatesOf(obs, p, h))
      BY CellHasStates
    <3> QED
      BY <1>2, <3>3, <3>4
  <2>2. UpdateRow(row, h, s) = IF Rank[s] <= Rank[Cell(obs, p, h)] THEN row ELSE Put(row, h, s)
    BY <1>4 DEF UpdateRow
  <2> QED
    BY <1>1, <1>3, <1>4, <2>1, <2>2 DEF Put
<1>5. CASE h \notin RowGroups(obs, p)
  <2>1. Cell(longer, p, h) = s
    BY <1>2, <1>5, CellHasStates, BestOfMore, SupportIsAState
  <2>2. UpdateRow(row, h, s) = Put(row, h, s)
    BY <1>5 DEF UpdateRow
  <2> QED
    BY <1>1, <1>3, <1>5, <2>1, <2>2 DEF Put
<1> QED
  BY <1>4, <1>5

LEMMA MatrixStep ==
  ASSUME NEW o, OneMore(observations, o, observations'), support_matrix_step(o), MatrixIsBestOf
  PROVE  MatrixIsBestOf'
<1> DEFINE obs == observations
           longer == observations'
           p == peer_key(o)
<1>0. /\ \A q : q # p \/ ~GroupProbe(o) => RowGroups(longer, q) = RowGroups(obs, q)
      /\ \A q, g : q # p \/ ~GroupProbe(o) => Cell(longer, q, g) = Cell(obs, q, g)
  <2>1. ASSUME NEW q, q # p \/ ~GroupProbe(o)
        PROVE  RowGroups(longer, q) = RowGroups(obs, q)
    BY <2>1, MatrixAppended
  <2>2. ASSUME NEW q, NEW g, q # p \/ ~GroupProbe(o)
        PROVE  Cell(longer, q, g) = Cell(obs, q, g)
    <3>1. StatesOf(longer, q, g) =
            StatesOf(obs, q, g)
              \cup (IF GroupProbe(o) /\ p = q /\ o.group_offered = g THEN {Support(o)} ELSE {})
      BY MatrixAppended
    <3> QED
      BY <2>2, <3>1, CellHasStates
  <2> QED
    BY <2>1, <2>2
<1>1. CASE GroupProbe(o)
  <2>1. matrix' = Put(support_matrix(obs), p, [g \in RowGroups(longer, p) |-> Cell(longer, p, g)])
    BY <1>1, RowFound, RowUpdated DEF support_matrix_step, MatrixIsBestOf
  <2>2. RowPeers(longer) = RowPeers(obs) \cup {p}
    BY <1>1, MatrixAppended
  <2>3. ASSUME NEW q, q # p
        PROVE  [g \in RowGroups(longer, q) |-> Cell(longer, q, g)]
                 = [g \in RowGroups(obs, q) |-> Cell(obs, q, g)]
    BY <1>0, <2>3
  <2>4. matrix' = support_matrix(longer)
    BY <2>1, <2>2, <2>3 DEF Put, support_matrix
  <2> QED
    BY <2>4 DEF MatrixIsBestOf
<1>2. CASE ~GroupProbe(o)
  <2>1. RowPeers(longer) = RowPeers(obs)
    BY <1>2, MatrixAppended
  <2>2. support_matrix(longer) = support_matrix(obs)
    BY <1>0, <1>2, <2>1 DEF support_matrix
  <2> QED
    BY <1>2, <2>2 DEF support_matrix_step, MatrixIsBestOf
<1> QED
  BY <1>1, <1>2

-----------------------------------------------------------------------------
(* The loop of inconsistencies()                                           *)

\* The groups that were answered, and what was answered.
Told(obs) == { obs[i].group_offered : i \in {j \in DOMAIN obs : Telling(obs[j])} }
Answers(obs, g) ==
  { succeeded(obs[i]) : i \in {j \in DOMAIN obs : Telling(obs[j]) /\ obs[j].group_offered = g} }

SeenIsTold == seen = [g \in Told(observations) |-> Answers(observations, g)]

LEMMA OneOfTwo ==
  ASSUME NEW a, NEW b, a # b, NEW S \in SUBSET {a, b}
  PROVE  Cardinality(S) > 1 <=> a \in S /\ b \in S
<1>1. \A c : Cardinality({c}) = 1 /\ IsFiniteSet({c})
  BY FS_Singleton
<1>2. CASE a \in S /\ b \in S
  <2>1. S = {a} \cup {b}
    BY <1>2
  <2>2. Cardinality({a} \cup {b}) = Cardinality({a}) + 1
    BY <1>1, FS_AddElement
  <2>3. Cardinality(S) = 2
    BY <1>1, <2>1, <2>2
  <2> QED
    BY <1>2, <2>3
<1>3. CASE S = {}
  BY <1>3, FS_EmptySet
<1>4. CASE S = {a} \/ S = {b}
  BY <1>1, <1>4
<1> QED
  BY <1>2, <1>3, <1>4

LEMMA TruthValues ==
  ASSUME NEW S \in SUBSET BOOLEAN
  PROVE  Cardinality(S) > 1 <=> TRUE \in S /\ FALSE \in S
<1>1. TRUE # FALSE /\ S \in SUBSET {TRUE, FALSE}
  BY Zenon
<1> QED
  BY <1>1, OneOfTwo, Zenon

LEMMA SeenStep ==
  ASSUME NEW o, OneMore(observations, o, observations'), inconsistencies_step(o), SeenIsTold
  PROVE  SeenIsTold'
<1> DEFINE obs == observations
           longer == observations'
           h == o.group_offered
<1>1. PICK n : /\ n \notin DOMAIN obs /\ DOMAIN longer = DOMAIN obs \cup {n}
               /\ longer[n] = o /\ \A i \in DOMAIN obs : longer[i] = obs[i]
  BY DEF OneMore
<1>2. Told(longer) = Told(obs) \cup (IF Telling(o) THEN {h} ELSE {})
  BY <1>1 DEF Told
<1>3. \A g : Answers(longer, g) =
              Answers(obs, g) \cup (IF Telling(o) /\ h = g THEN {succeeded(o)} ELSE {})
  BY <1>1 DEF Answers
<1>4. \A g : g \notin Told(obs) => Answers(obs, g) = {}
  BY DEF Told, Answers
<1>5. CASE Telling(o)
  <2>1. seen' = Put(seen, h, At(seen, h, {}) \cup {succeeded(o)})
    BY <1>5 DEF inconsistencies_step, Telling
  <2>2. At(seen, h, {}) = Answers(obs, h)
    BY <1>4 DEF At, SeenIsTold
  <2>3. At(seen, h, {}) \cup {succeeded(o)} = Answers(longer, h)
    BY <1>3, <1>5, <2>2
  <2>4. \A g : g # h => Answers(longer, g) = Answers(obs, g)
    BY <1>3
  <2>5. Told(longer) = Told(obs) \cup {h}
    BY <1>2, <1>5
  <2> QED
    BY <2>1, <2>3, <2>4, <2>5 DEF Put, SeenIsTold
<1>6. CASE ~Telling(o)
  <2>1. seen' = seen
    BY <1>6 DEF inconsistencies_step, Telling
  <2>2. Told(longer) = Told(obs) /\ \A g : Answers(longer, g) = Answers(obs, g)
    BY <1>2, <1>3, <1>6
  <2> QED
    BY <2>1, <2>2 DEF SeenIsTold
<1> QED
  BY <1>5, <1>6

\* A group has both answers exactly when Evidence calls it inconsistent.
LEMMA BothAnswers ==
  ASSUME SeenIsTold
  PROVE  InconsistenciesAgree
<1> DEFINE obs == observations
<1>1. ASSUME NEW g \in DOMAIN seen
      PROVE  Cardinality(seen[g]) > 1
               <=> TRUE \in Answers(obs, g) /\ FALSE \in Answers(obs, g)
  <2>1. seen[g] = Answers(obs, g) /\ Answers(obs, g) \in SUBSET BOOLEAN
    BY <1>1 DEF SeenIsTold, Answers, succeeded
  <2> QED
    BY <2>1, TruthValues
<1>2. \A g : TRUE \in Answers(obs, g)
          <=> \E i \in DOMAIN obs :
                obs[i].group_offered = g /\ Telling(obs[i]) /\ succeeded(obs[i])
  BY DEF Answers, succeeded
<1>3. \A g : FALSE \in Answers(obs, g)
          <=> \E i \in DOMAIN obs :
                obs[i].group_offered = g /\ Telling(obs[i]) /\ ~succeeded(obs[i])
  BY DEF Answers, succeeded
<1>4. \A g : TRUE \in Answers(obs, g) => g \in DOMAIN seen
  BY DEF Answers, Told, SeenIsTold
<1>5. \A g : g \in inconsistencies(obs)
              <=> TRUE \in Answers(obs, g) /\ FALSE \in Answers(obs, g)
  <2>1. ASSUME NEW g, NEW i \in DOMAIN obs, obs[i].group_offered = g
        PROVE  g \in { obs[k].group_offered : k \in DOMAIN obs }
    BY <2>1
  <2>2. ASSUME NEW g
        PROVE  g \in inconsistencies(obs)
                 <=> /\ \E i \in DOMAIN obs :
                          obs[i].group_offered = g /\ Telling(obs[i]) /\ succeeded(obs[i])
                     /\ \E i \in DOMAIN obs :
                          obs[i].group_offered = g /\ Telling(obs[i]) /\ ~succeeded(obs[i])
    BY <2>1 DEF inconsistencies
  <2> QED
    BY <1>2, <1>3, <2>2
<1> QED
  BY <1>1, <1>4, <1>5 DEF InconsistenciesAgree

-----------------------------------------------------------------------------
(* The loops of negotiated_by_default() and negotiated_realistic()         *)

DoneBy(obs, p) == { i \in DOMAIN obs : obs[i].group_offered = p /\ succeeded(obs[i]) }

FoundIsFirst ==
  /\ DOMAIN found = {"__default__", "__realistic__"}
  /\ \A p \in DOMAIN found :
       \/ found[p] = <<>> /\ DoneBy(observations, p) = {}
       \/ \E i \in DoneBy(observations, p) :
            /\ \A j \in DoneBy(observations, p) : i <= j
            /\ found[p] = <<observations[i].negotiated_group>>

LEMMA FoundStep ==
  ASSUME NEW o, OneMore(observations, o, observations'), negotiated_step(o), FoundIsFirst
  PROVE  FoundIsFirst'
<1> DEFINE obs == observations
           longer == observations'
<1>1. PICK n \in Nat :
        /\ DOMAIN obs \subseteq Nat /\ \A i \in DOMAIN obs : i < n
        /\ n \notin DOMAIN obs /\ DOMAIN longer = DOMAIN obs \cup {n}
        /\ longer[n] = o /\ \A i \in DOMAIN obs : longer[i] = obs[i]
  BY DEF OneMore
<1>2. n \in Nat /\ \A i \in DOMAIN obs : i \in Nat /\ i <= n
  BY <1>1
<1>3. DOMAIN found' = {"__default__", "__realistic__"}
  BY DEF negotiated_step, FoundIsFirst
<1>4. \A p : DoneBy(longer, p) =
             DoneBy(obs, p) \cup (IF o.group_offered = p /\ succeeded(o) THEN {n} ELSE {})
  BY <1>1 DEF DoneBy
<1>5. ASSUME NEW p \in DOMAIN found'
      PROVE  \/ found'[p] = <<>> /\ DoneBy(longer, p) = {}
             \/ \E i \in DoneBy(longer, p) :
                  /\ \A j \in DoneBy(longer, p) : i <= j
                  /\ found'[p] = <<longer[i].negotiated_group>>
  <2>1. found'[p] = IF found[p] = <<>> /\ o.group_offered = p /\ succeeded(o)
                    THEN <<o.negotiated_group>> ELSE found[p]
    BY <1>3 DEF negotiated_step, FoundIsFirst
  <2>2. CASE found[p] = <<>> /\ DoneBy(obs, p) = {}
    <3>1. CASE o.group_offered = p /\ succeeded(o)
      <4>1. DoneBy(longer, p) = {n}
        BY <1>4, <2>2, <3>1
      <4> QED
        BY <1>1, <1>2, <2>1, <2>2, <3>1, <4>1
    <3>2. CASE ~(o.group_offered = p /\ succeeded(o))
      BY <1>4, <2>1, <2>2, <3>2
    <3> QED
      BY <3>1, <3>2
  <2>3. ASSUME NEW i \in DoneBy(obs, p), \A j \in DoneBy(obs, p) : i <= j,
               found[p] = <<obs[i].negotiated_group>>
        PROVE  \E k \in DoneBy(longer, p) :
                  /\ \A j \in DoneBy(longer, p) : k <= j
                  /\ found'[p] = <<longer[k].negotiated_group>>
    <3>1. i \in DOMAIN obs
      BY DEF DoneBy
    <3>2. found'[p] = <<longer[i].negotiated_group>>
      BY <1>1, <2>1, <2>3, <3>1
    <3>3. \A j \in DoneBy(longer, p) : i <= j
      BY <1>2, <1>4, <2>3, <3>1
    <3> QED
      BY <1>4, <3>2, <3>3
  <2> QED
    BY <1>3, <2>2, <2>3 DEF FoundIsFirst
<1> QED
  BY <1>3, <1>5 DEF FoundIsFirst

LEMMA FirstIsReported ==
  ASSUME NEW R, observations \in Seq(R), FoundIsFirst
  PROVE  FirstNegotiatedAgrees
<1> DEFINE obs == observations
<1>1. ASSUME NEW p \in DOMAIN found
      PROVE  At(found[p], 1, None) = FirstNegotiated(obs, p)
  <2>1. CASE found[p] = <<>> /\ DoneBy(obs, p) = {}
    BY <2>1 DEF At, FirstNegotiated, DoneBy
  <2>2. ASSUME NEW i \in DoneBy(obs, p), \A j \in DoneBy(obs, p) : i <= j,
               found[p] = <<obs[i].negotiated_group>>
        PROVE  At(found[p], 1, None) = FirstNegotiated(obs, p)
    <3>1. DoneBy(obs, p) \subseteq Nat
      <4>1. DOMAIN obs = 1 .. Len(obs) /\ Len(obs) \in Nat
        OBVIOUS
      <4> QED
        BY <4>1 DEF DoneBy
    <3>2. \A k \in DoneBy(obs, p) : (\A j \in DoneBy(obs, p) : k <= j) => k = i
      BY <2>2, <3>1
    <3>3. (CHOOSE k \in DoneBy(obs, p) : \A j \in DoneBy(obs, p) : k <= j) = i
      BY <2>2, <3>2
    <3>4. FirstNegotiated(obs, p) = obs[i].negotiated_group
      BY <3>3 DEF FirstNegotiated, DoneBy
    <3> QED
      BY <2>2, <3>4 DEF At
  <2> QED
    BY <2>1, <2>2 DEF FoundIsFirst
<1>2. "__default__" \in DOMAIN found /\ "__realistic__" \in DOMAIN found
  BY DEF FoundIsFirst
<1> QED
  BY <1>1, <1>2 DEF FirstNegotiatedAgrees, negotiated_by_default, negotiated_realistic

-----------------------------------------------------------------------------
(* The loops together                                                      *)

FoldInv ==
  /\ observations \in Seq(Recordable)
  /\ MatrixIsBestOf
  /\ SeenIsTold
  /\ FoundIsFirst

LEMMA FoldInit ==
  ASSUME Init
  PROVE  FoldInv
<1>1. observations = <<>> /\ DOMAIN observations = {} /\ observations \in Seq(Recordable)
  BY DEF Init
<1>2. RowPeers(observations) = {} /\ Told(observations) = {}
  BY <1>1 DEF RowPeers, Told
<1>3. \A p : DoneBy(observations, p) = {}
  BY <1>1 DEF DoneBy
<1>4. MatrixIsBestOf
  BY <1>2 DEF Init, Empty, MatrixIsBestOf, support_matrix
<1>5. SeenIsTold
  BY <1>2 DEF Init, Empty, SeenIsTold
<1>6. FoundIsFirst
  BY <1>3 DEF Init, FoundIsFirst
<1> QED
  BY <1>1, <1>4, <1>5, <1>6 DEF FoldInv

LEMMA FoldStep ==
  ASSUME FoldInv, [Next]_foldVars
  PROVE  FoldInv'
<1>1. CASE Next
  <2>1. PICK o \in Recordable :
          /\ observations' = Append(observations, o)
          /\ support_matrix_step(o) /\ inconsistencies_step(o) /\ negotiated_step(o)
    BY <1>1 DEF Next, Iterate
  <2>2. observations' \in Seq(Recordable) /\ OneMore(observations, o, observations')
    BY <2>1, Appended DEF FoldInv
  <2>3. MatrixIsBestOf'
    BY <2>1, <2>2, MatrixStep DEF FoldInv
  <2>4. SeenIsTold'
    BY <2>1, <2>2, SeenStep DEF FoldInv
  <2>5. FoundIsFirst'
    BY <2>1, <2>2, FoundStep DEF FoldInv
  <2> QED
    BY <2>2, <2>3, <2>4, <2>5 DEF FoldInv
<1>2. CASE UNCHANGED foldVars
  BY <1>2 DEF FoldInv, foldVars, MatrixIsBestOf, SeenIsTold, FoundIsFirst
<1> QED
  BY <1>1, <1>2

\* Whatever the probes left behind and however many they were, every loop of
\* evidence.py has built what Evidence says of the observations.
THEOREM FoldInvariant == Spec => []FoldInv
BY FoldInit, FoldStep, PTL DEF Spec

\* support_matrix(): a cell shows the best answer any attempt of that peer at
\* that group had, whatever the order of the attempts.
THEOREM MatrixShowsTheBest == Spec => []MatrixIsBestOf
<1>1. FoldInv => MatrixIsBestOf
  BY DEF FoldInv
<1> QED
  BY <1>1, FoldInvariant, PTL

\* inconsistencies(): a group is listed exactly when one telling probe of it
\* succeeded and another did not, be it of another pass or another peer.
THEOREM InconsistenciesAreBothAnswers == Spec => []InconsistenciesAgree
<1>1. FoldInv => InconsistenciesAgree
  BY BothAnswers DEF FoldInv
<1> QED
  BY <1>1, FoldInvariant, PTL

\* negotiated_by_default() and negotiated_realistic(): the first handshake
\* that completed decides, never a later one.
THEOREM TheFirstHandshakeDecides == Spec => []FirstNegotiatedAgrees
<1>1. FoldInv => FirstNegotiatedAgrees
  BY FirstIsReported DEF FoldInv
<1> QED
  BY <1>1, FoldInvariant, PTL
=============================================================================
