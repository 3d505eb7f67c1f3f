------------------------ MODULE EndpointScan_proofs ------------------------
(***************************************************************************)
(* Proofs about the scan of one address, for every sweep, every pool of    *)
(* stacks, every repeat count and every way the path may disturb it.  The  *)
(* first part is about the state and the support matrix; the second traces *)
(* refusals, inconsistencies and divergences back to the connections       *)
(* behind them, shows that the scan implements the ledger of true claims   *)
(* and runs to its end, and that the text report leaves nothing unsaid.    *)
(***************************************************************************)
EXTENDS EndpointScan, Report, Probes_proofs, SequenceTheorems, FiniteSetTheorems

\* The transcripts a connection to stack s can leave behind.
Transcripts(s, hello) ==
  Answers(s, hello) \cup UNION { Disturbed(f, s, hello) : f \in Faults }

-----------------------------------------------------------------------------
(* What a connection leaves behind                                         *)

Probeable == Sentinels \cup InfoGroups

\* The ClientHellos of a sweep.
Hellos == [offered : SUBSET AllGroups, tls13_only : BOOLEAN]

LEMMA SweepType ==
  /\ Sweep \in Seq(Probeable)
  /\ Len(Sweep) = Len(Groups) + 2
  /\ DOMAIN Sweep = 1 .. Len(Groups) + 2
  /\ \A k \in DOMAIN Sweep : k > 2 => Sweep[k] \in InfoGroups
BY GroupsAssumption DEF Sweep, Probeable, Sentinels

LEMMA HelloType ==
  /\ DefaultHello(DefaultOffer) \in Hellos
  /\ RealisticHello(InfoGroups) \in Hellos
  /\ \A g \in AllGroups : GroupHello(g) \in Hellos
<1>1. DefaultHello(DefaultOffer) \in Hellos
  BY GroupsAssumption DEF DefaultHello, Hellos
<1>2. RealisticHello(InfoGroups) \in Hellos
  <2> DEFINE known == REALISTIC_GROUP_LIST \cap InfoGroups
  <2>1. known \in SUBSET AllGroups
    BY GroupsAssumption
  <2>2. {"X25519"} \in SUBSET AllGroups
    BY GroupsAssumption
  <2>3. (IF known = {} THEN {"X25519"} ELSE known) \in SUBSET AllGroups
    BY <2>1, <2>2
  <2> QED
    BY <2>3 DEF RealisticHello, Hellos
<1>3. ASSUME NEW g \in AllGroups
      PROVE  GroupHello(g) \in Hellos
  BY DEF GroupHello, Hellos
<1> QED
  BY <1>1, <1>2, <1>3

TranscriptOf(s, hello, t) ==
  /\ t.timed_out \in BOOLEAN
  /\ t.completed \in BOOLEAN
  /\ t.negotiated \in AllGroups \cup {None}
  /\ t.cert \in {s.cert, None}
  /\ t.completed => t.cert = s.cert /\ Accepts(s, hello)

\* What every transcript of a connection to a stack looks like: in particular
\* a completed one shows the certificate of a stack that accepts the hello.
LEMMA TranscriptType ==
  ASSUME NEW s \in Stack, NEW hello \in Hellos, NEW t \in Transcripts(s, hello)
  PROVE  TranscriptOf(s, hello, t)
<1>1. ASSUME NEW c \in {s.cert, None}, NEW done \in BOOLEAN,
             done => c = s.cert /\ Accepts(s, hello)
      PROVE  TranscriptOf(s, hello, Killed(c, done))
  BY <1>1 DEF TranscriptOf, Killed, Transcript, None
<1>2. ASSUME NEW rc, NEW marks
      PROVE  TranscriptOf(s, hello, Failed(rc, marks))
  BY DEF TranscriptOf, Failed, Transcript, None
<1>3. CASE t \in Answers(s, hello)
  <2>1. CASE Accepts(s, hello)
    <3>1. PICK g \in (IF s.speaks = "tls1_3" THEN hello.offered \cap s.groups ELSE {None}) :
            t = Transcript(FALSE, 0, TRUE, {}, g, s.cert)
      BY <1>3, <2>1 DEF Answers, Accepts
    <3>2. g \in AllGroups \cup {None}
      BY <3>1 DEF Hellos, None
    <3> QED
      BY <2>1, <3>1, <3>2 DEF TranscriptOf, Transcript
  <2>2. CASE ~Accepts(s, hello)
    <3>1. \/ \E rc, marks : t = Failed(rc, marks)
          \/ t = Killed(None, FALSE)
      <4>1. CASE s.speaks = "tls1_3"
        BY <1>3, <2>2, <4>1 DEF Answers
      <4>2. CASE s.speaks = "tls1_2"
        BY <1>3, <2>2, <4>2 DEF Answers
      <4>3. CASE s.speaks = "plaintext"
        BY <1>3, <2>2, <4>3 DEF Answers
      <4>4. CASE s.speaks = "nothing"
        BY <1>3, <2>2, <4>4 DEF Answers
      <4> QED
        BY <4>1, <4>2, <4>3, <4>4 DEF Stack, Speech
    <3> QED
      BY <1>1, <1>2, <3>1
  <2> QED
    BY <2>1, <2>2
<1>4. ASSUME NEW f \in Faults, t \in Disturbed(f, s, hello)
      PROVE  TranscriptOf(s, hello, t)
  <2>1. CASE f = "stall"
    <3>1. \/ t = Killed(None, FALSE)
          \/ Accepts(s, hello) /\ t = Killed(s.cert, FALSE)
          \/ Accepts(s, hello) /\ t = Killed(s.cert, TRUE)
      BY <1>4, <2>1 DEF Disturbed
    <3> QED
      BY <1>1, <3>1
  <2>2. CASE f # "stall"
    <3>1. \E rc, marks : t = Failed(rc, marks)
      BY <1>4, <2>2, WorldAssumption DEF Disturbed, FaultKinds, NoProtocols
    <3> QED
      BY <1>2, <3>1
  <2> QED
    BY <2>1, <2>2
<1> QED
  BY <1>3, <1>4 DEF Transcripts

LEMMA ResultType ==
  ASSUME NEW s \in Stack, s.cert \in Certs, NEW hello \in Hellos,
         NEW t \in Transcripts(s, hello), NEW g \in Probeable
  PROVE  _result_from_output(g, t) \in Observation
<1>1. TranscriptOf(s, hello, t)
  BY TranscriptType
<1>2. OutcomeOf(t) \in Outcome
  BY <1>1, SucceededMeansCompleted DEF TranscriptOf
<1>3. (IF OutcomeOf(t) = "supported" THEN t.negotiated ELSE None) \in AllGroups \cup {None}
  BY <1>1 DEF TranscriptOf, None
<1> QED
  BY <1>1, <1>2, <1>3 DEF TranscriptOf, _result_from_output, Observation, Probeable

-----------------------------------------------------------------------------
(* The steps of the scan                                                   *)

\* A connection of the history: the stack it met, and what disturbed it.
Connection == [stack : pool, fault : Faults \cup {None}]

\* What a connection to stack s can print, disturbed by f or by nothing.
Prints(s, hello, f) ==
  IF f = None THEN Answers(s, hello) ELSE Disturbed(f, s, hello)

LEMMA NoneIsNoFault == None \notin Faults
BY WorldAssumption DEF FaultKinds, None

\* One connection for group g answered by stack s, seen from the evidence.
Recorded(g, hello, s, t, f) ==
  /\ g \in Probeable /\ g = Sweep[step] /\ hello \in Hellos
  /\ g \notin Sentinels => hello = GroupHello(g)
  /\ s \in pool /\ t \in Transcripts(s, hello) /\ f \in Faults \cup {None}
  /\ t \in Prints(s, hello, f)
  /\ record(g, s, f, t)
  /\ faults' = IF f = None THEN faults ELSE faults + 1
  /\ faults' \in 0 .. MaxFaults

NotResolved ==
  [ group_offered |-> "__resolve__", outcome |-> "dns_failed",
    negotiated_group |-> None, peer |-> None ]

LEMMA InvokeRecords ==
  ASSUME TypeOK, NEW g \in Probeable, NEW hello \in Hellos, Invoke(g, hello),
         g = Sweep[step], g \notin Sentinels => hello = GroupHello(g)
  PROVE  \E s, t, f : Recorded(g, hello, s, t, f)
<1>1. PICK s \in pool :
        \/ /\ \E t \in Answers(s, hello) : record(g, s, None, t)
           /\ UNCHANGED faults
        \/ /\ faults < MaxFaults
           /\ \E f \in Faults : \E t \in Disturbed(f, s, hello) : record(g, s, f, t)
           /\ faults' = faults + 1
  BY DEF Invoke
<1>2. CASE \E t \in Answers(s, hello) : record(g, s, None, t) /\ UNCHANGED faults
  <2>1. PICK t \in Answers(s, hello) : record(g, s, None, t) /\ UNCHANGED faults
    BY <1>2
  <2>2. Recorded(g, hello, s, t, None)
    BY <2>1 DEF Recorded, Transcripts, Prints, TypeOK
  <2> QED
    BY <2>2
<1>3. CASE /\ faults < MaxFaults
           /\ \E f \in Faults : \E t \in Disturbed(f, s, hello) : record(g, s, f, t)
           /\ faults' = faults + 1
  <2>1. PICK f \in Faults : \E t \in Disturbed(f, s, hello) : record(g, s, f, t)
    BY <1>3
  <2>2. PICK t \in Disturbed(f, s, hello) : record(g, s, f, t)
    BY <2>1
  <2>3. faults' \in 0 .. MaxFaults
    BY <1>3, WorldAssumption DEF TypeOK
  <2>4. Recorded(g, hello, s, t, f)
    BY <1>3, <2>2, <2>3, NoneIsNoFault DEF Recorded, Transcripts, Prints
  <2> QED
    BY <2>4
<1> QED
  BY <1>1, <1>2, <1>3

\* Every step resolves the name, records one connection, or stutters.
LEMMA StepShape ==
  ASSUME TypeOK, Next
  PROVE  /\ pool' = pool /\ passes' = passes
         /\ \/ /\ phase = "resolve" /\ phase' \in Phases
               /\ UNCHANGED <<index, step, answered, faults>>
               /\ obs' = obs \/ obs' = Append(obs, NotResolved)
            \/ phase = "sweep" /\ \E g, hello, s, t, f : Recorded(g, hello, s, t, f)
<1>1. CASE ResolveOk
  BY <1>1 DEF ResolveOk, Phases
<1>2. CASE ResolveFails
  BY <1>2 DEF ResolveFails, Phases, NotResolved
<1>3. CASE ResolveRaises
  BY <1>3 DEF ResolveRaises, Phases
<1>4. CASE probe_default_detailed
  <2>1. "__default__" \in Probeable /\ "__default__" \in Sentinels
    BY DEF Probeable, Sentinels
  <2>2. Sweep[step] = "__default__"
    BY <1>4, GroupsAssumption DEF probe_default_detailed, Sweep
  <2> QED
    BY <1>4, <2>1, <2>2, HelloType, InvokeRecords DEF probe_default_detailed
<1>5. CASE probe_realistic_detailed
  <2>1. "__realistic__" \in Probeable /\ "__realistic__" \in Sentinels
    BY DEF Probeable, Sentinels
  <2>2. Sweep[step] = "__realistic__"
    BY <1>5, GroupsAssumption DEF probe_realistic_detailed, Sweep
  <2> QED
    BY <1>5, <2>1, <2>2, HelloType, InvokeRecords DEF probe_realistic_detailed
<1>6. CASE probe_group_detailed
  <2>1. Sweep[step] \in InfoGroups
    BY <1>6, SweepType DEF probe_group_detailed, TypeOK
  <2>2. Sweep[step] \in Probeable /\ Sweep[step] \in AllGroups
    BY <2>1, GroupsAssumption DEF Probeable
  <2> QED
    BY <1>6, <2>2, HelloType, InvokeRecords DEF probe_group_detailed
<1> QED
  BY <1>1, <1>2, <1>3, <1>4, <1>5, <1>6 DEF Next

-----------------------------------------------------------------------------
(* Type correctness                                                        *)

LEMMA InitType == Init => TypeOK
<1> SUFFICES ASSUME Init PROVE TypeOK
  OBVIOUS
<1>1. 1 \in DOMAIN Sweep
  BY SweepType, GroupsAssumption, LenProperties
<1> QED
  BY <1>1, WorldAssumption DEF Init, TypeOK, Phases

LEMMA StepType == TypeOK /\ [Next]_vars => TypeOK'
<1> SUFFICES ASSUME TypeOK, [Next]_vars PROVE TypeOK'
  OBVIOUS
<1>1. CASE UNCHANGED vars
  BY <1>1 DEF vars, TypeOK
<1>2. ASSUME Next, phase = "resolve", phase' \in Phases,
             UNCHANGED <<index, step, answered, faults>>,
             obs' = obs \/ obs' = Append(obs, NotResolved)
      PROVE  TypeOK'
  <2>1. NotResolved \in Observation
    BY DEF NotResolved, Observation, Sentinels, Outcome
  <2>2. obs' \in Seq(Observation)
    BY <1>2, <2>1 DEF TypeOK
  <2> QED
    BY <1>2, <2>2, StepShape DEF TypeOK
<1>3. ASSUME Next, phase = "sweep",
             NEW g, NEW hello, NEW s, NEW t, NEW f,
             Recorded(g, hello, s, t, f)
      PROVE  TypeOK'
  <2>1. pool' = pool /\ passes' = passes
    BY <1>3, StepShape
  <2>2. s \in Stack /\ s.cert \in Certs
    BY <1>3, WorldAssumption DEF Recorded, TypeOK, Stack
  <2>3. _result_from_output(g, t) \in Observation
    BY <1>3, <2>2, ResultType DEF Recorded
  <2>4. obs' \in Seq(Observation)
    BY <1>3, <2>3 DEF Recorded, record, TypeOK
  <2>5. [stack |-> s, fault |-> f] \in Connection
    BY <1>3 DEF Recorded, Connection
  <2>6. answered' \in Seq(Connection)
    BY <1>3, <2>5 DEF Recorded, record, TypeOK, Connection
  <2>7. index' \in Nat /\ step' \in DOMAIN Sweep /\ phase' \in Phases
    <3>1. IF step < Len(Sweep)
          THEN step' = step + 1 /\ UNCHANGED <<index, phase>>
          ELSE /\ step' = 1
               /\ index' = index + 1
               /\ phase' = IF index + 1 < passes THEN phase ELSE "done"
      BY <1>3 DEF Recorded, record
    <3> QED
      BY <3>1, SweepType, GroupsAssumption, LenProperties DEF TypeOK, Phases
  <2>8. faults' \in 0 .. MaxFaults
    BY <1>3 DEF Recorded
  <2> QED
    BY <2>1, <2>4, <2>6, <2>7, <2>8 DEF TypeOK, Connection
<1> QED
  BY <1>1, <1>2, <1>3, StepShape

\* The scan of an address keeps its state well typed: indices stay inside the
\* sweep, and only classified outcomes and certificates are ever recorded.
THEOREM TypeCorrect == Spec => []TypeOK
BY InitType, StepType, PTL DEF Spec

-----------------------------------------------------------------------------
(* Soundness of the support matrix                                         *)

CellStates == DOMAIN Rank

\* Best picks a member of its argument, and the highest ranked one.
LEMMA BestOf ==
  ASSUME NEW S \in SUBSET CellStates, S # {}
  PROVE  Best(S) \in S /\ \A t \in S : Rank[t] <= Rank[Best(S)]
<1>1. \A s \in CellStates : Rank[s] \in 0 .. 2
  BY DEF CellStates, Rank
<1>2. \E s \in S : \A t \in S : Rank[t] <= Rank[s]
  <2>1. CASE \E s \in S : Rank[s] = 2
    BY <1>1, <2>1
  <2>2. CASE (\A s \in S : Rank[s] # 2) /\ \E s \in S : Rank[s] = 1
    BY <1>1, <2>2
  <2>3. CASE \A s \in S : Rank[s] = 0
    BY <1>1, <2>3
  <2> QED
    BY <1>1, <2>1, <2>2, <2>3
<1> QED
  BY <1>2 DEF Best

LEMMA SupportType ==
  ASSUME NEW o
  PROVE  /\ Support(o) \in CellStates
         /\ Support(o) = "observed_supported" <=> succeeded(o)
         /\ Support(o) = "observed_rejected" =>
              o.outcome \in {"rejected", "protocol_unsupported"}
BY DEF Support, CellStates, Rank

\* A cell of the matrix is the state of one of the attempts it aggregates.
LEMMA CellWitness ==
  ASSUME NEW seq, NEW p \in RowPeers(seq), NEW g \in RowGroups(seq, p)
  PROVE  /\ support_matrix(seq)[p][g] = Cell(seq, p, g)
         /\ \E i \in Attempts(seq, p, g) : Cell(seq, p, g) = Support(seq[i])
         /\ \A i \in Attempts(seq, p, g) : Rank[Support(seq[i])] <= Rank[Cell(seq, p, g)]
<1> DEFINE S == { Support(seq[i]) : i \in Attempts(seq, p, g) }
<1>1. S \in SUBSET CellStates
  BY SupportType
<1>2. S # {}
  BY DEF RowGroups, Attempts
<1>3. Best(S) \in S /\ \A t \in S : Rank[t] <= Rank[Best(S)]
  BY <1>1, <1>2, BestOf
<1>4. Cell(seq, p, g) = Best(S)
  BY DEF Cell
<1>5. support_matrix(seq)[p][g] = Cell(seq, p, g)
  BY DEF support_matrix
<1> QED
  BY <1>3, <1>4, <1>5

\* A succeeded group probe is true of a stack of the pool.
Proven(o) ==
  GroupProbe(o) /\ succeeded(o) =>
    \E s \in pool : s.cert = o.peer /\ s.speaks = "tls1_3" /\ o.group_offered \in s.groups

SupportInv == TypeOK /\ \A i \in DOMAIN obs : Proven(obs[i])

LEMMA StepSupport == SupportInv /\ [Next]_vars => SupportInv'
<1> SUFFICES ASSUME SupportInv, [Next]_vars PROVE SupportInv'
  OBVIOUS
<1>1. TypeOK /\ TypeOK'
  BY StepType DEF SupportInv
<1>2. CASE UNCHANGED vars
  BY <1>1, <1>2 DEF vars, SupportInv, Proven
<1>3. ASSUME NEW CONSTANT o, obs' = Append(obs, o), pool' = pool, Proven(o)
      PROVE  SupportInv'
  <2>1. \A i \in DOMAIN obs' : (i \in DOMAIN obs /\ obs'[i] = obs[i]) \/ obs'[i] = o
    BY <1>1, <1>3 DEF TypeOK
  <2> QED
    BY <1>1, <1>3, <2>1 DEF SupportInv, Proven
<1>4. ASSUME Next, obs' = obs \/ obs' = Append(obs, NotResolved), pool' = pool
      PROVE  SupportInv'
  <2>1. Proven(NotResolved)
    BY DEF NotResolved, GroupProbe, Sentinels, Proven
  <2> QED
    BY <1>1, <1>4, <1>3, <2>1 DEF SupportInv, Proven
<1>5. ASSUME Next, pool' = pool,
             NEW g, NEW hello, NEW s, NEW t, NEW f,
             Recorded(g, hello, s, t, f)
      PROVE  SupportInv'
  <2> DEFINE o == _result_from_output(g, t)
  <2>1. obs' = Append(obs, o)
    BY <1>5 DEF Recorded, record
  <2>2. s \in Stack
    BY <1>1, <1>5, WorldAssumption DEF Recorded, TypeOK
  <2>3. TranscriptOf(s, hello, t)
    BY <1>5, <2>2, TranscriptType DEF Recorded
  <2>4. ASSUME GroupProbe(o), succeeded(o)
        PROVE  s.cert = o.peer /\ s.speaks = "tls1_3" /\ o.group_offered \in s.groups
    <3>1. o.group_offered = g /\ o.outcome = OutcomeOf(t) /\ o.peer = t.cert
      BY DEF _result_from_output
    <3>2. hello = GroupHello(g)
      BY <1>5, <2>4, <3>1 DEF Recorded, GroupProbe
    <3>3. t.completed
      BY <2>3, <2>4, <3>1, SucceededMeansCompleted DEF TranscriptOf, succeeded
    <3>4. Accepts(s, GroupHello(g)) /\ t.cert = s.cert
      BY <2>3, <3>2, <3>3 DEF TranscriptOf
    <3> QED
      BY <2>2, <3>1, <3>4 DEF Accepts, GroupHello, Stack, Speech
  <2>5. s \in pool
    BY <1>5 DEF Recorded
  <2>6. Proven(o)
    BY <2>4, <2>5 DEF Proven
  <2> QED
    BY <1>5, <1>3, <2>1, <2>6
<1> QED
  BY <1>1, <1>2, <1>4, <1>5, StepShape

LEMMA SupportInvImplies == SupportInv => SupportIsReal
<1> SUFFICES ASSUME SupportInv,
                    NEW p \in RowPeers(obs), NEW g \in RowGroups(obs, p),
                    CellIs(p, g, "observed_supported")
             PROVE  \E s \in pool : s.cert = p /\ s.speaks = "tls1_3" /\ g \in s.groups
  BY DEF SupportIsReal
<1>1. PICK i \in Attempts(obs, p, g) : Support(obs[i]) = "observed_supported"
  BY CellWitness DEF CellIs
<1>2. succeeded(obs[i])
  BY <1>1, SupportType
<1>3. /\ i \in DOMAIN obs /\ GroupProbe(obs[i])
      /\ peer_key(obs[i]) = p /\ obs[i].group_offered = g
  BY DEF Attempts
<1>4. PICK s \in pool : s.cert = obs[i].peer /\ s.speaks = "tls1_3" /\ g \in s.groups
  BY <1>2, <1>3 DEF SupportInv, Proven
<1>5. s.cert \in Certs
  BY WorldAssumption DEF SupportInv, TypeOK, Stack
<1>6. obs[i].peer = p
  BY <1>3, <1>4, <1>5, WorldAssumption DEF peer_key
<1> QED
  BY <1>4, <1>6

\* For every pool and every disturbance of the path: what the support matrix
\* calls observed_supported is true of a stack behind the address.
THEOREM SupportSound == Spec => []SupportIsReal
<1>1. Init => SupportInv
  BY InitType DEF Init, SupportInv
<1> QED
  BY <1>1, StepSupport, SupportInvImplies, PTL DEF Spec

-----------------------------------------------------------------------------
(* Monotonicity of the support matrix                                      *)

\* Appending an observation keeps every row, and can only raise a cell.
LEMMA CellsClimb ==
  ASSUME NEW seq \in Seq(Observation), NEW o \in Observation,
         NEW p \in RowPeers(seq), NEW g \in RowGroups(seq, p)
  PROVE  LET longer == Append(seq, o) IN
         /\ p \in RowPeers(longer) /\ g \in RowGroups(longer, p)
         /\ Rank[support_matrix(seq)[p][g]] <= Rank[support_matrix(longer)[p][g]]
<1> DEFINE longer == Append(seq, o)
<1>1. \A i \in DOMAIN seq : i \in DOMAIN longer /\ longer[i] = seq[i]
  OBVIOUS
<1> HIDE DEF longer
<1>2. p \in RowPeers(longer)
  BY <1>1 DEF RowPeers
<1>3. g \in RowGroups(longer, p)
  BY <1>1 DEF RowGroups
<1>4. PICK i \in Attempts(seq, p, g) : Cell(seq, p, g) = Support(seq[i])
  BY CellWitness
<1>5. i \in Attempts(longer, p, g) /\ longer[i] = seq[i]
  BY <1>1 DEF Attempts
<1>6. Rank[Support(longer[i])] <= Rank[Cell(longer, p, g)]
  BY <1>2, <1>3, <1>5, CellWitness
<1>7. /\ support_matrix(seq)[p][g] = Cell(seq, p, g)
      /\ support_matrix(longer)[p][g] = Cell(longer, p, g)
  BY <1>2, <1>3, CellWitness
<1> QED
  BY <1>2, <1>3, <1>4, <1>5, <1>6, <1>7 DEF longer

\* No step of the scan ever lowers a cell of the support matrix.
THEOREM NeverRetracted == Spec => SupportNeverRetracted
<1> DEFINE Climb == \A p \in RowPeers(obs) : \A g \in RowGroups(obs, p) :
                      Rank[support_matrix(obs)[p][g]] <= Rank[support_matrix(obs')[p][g]]
<1>1. ASSUME TypeOK, TypeOK', Next
      PROVE  [Climb]_vars
  <2>1. CASE obs' = obs
    <3>1. \A p \in RowPeers(obs) : \A g \in RowGroups(obs, p) :
            Rank[support_matrix(obs)[p][g]] \in 0 .. 2
      BY CellWitness, SupportType DEF Rank, CellStates
    <3> QED
      BY <2>1, <3>1
  <2>2. ASSUME NEW o, obs' = Append(obs, o)
        PROVE  Climb
    <3>1. obs \in Seq(Observation) /\ obs' \in Seq(Observation)
      BY <1>1 DEF TypeOK
    <3>2. o \in Observation
      <4>1. Len(obs') \in DOMAIN obs' /\ obs'[Len(obs')] = o
        BY <2>2, <3>1
      <4> QED
        BY <3>1, <4>1, ElementOfSeq
    <3> QED
      BY <2>2, <3>1, <3>2, CellsClimb
  <2> QED
    BY <1>1, <2>1, <2>2, StepShape DEF Recorded, record
<1>2. TypeOK /\ TypeOK' /\ [Next]_vars => [Climb]_vars
  BY <1>1
<1> QED
  BY <1>2, TypeCorrect, PTL DEF Spec, SupportNeverRetracted

-----------------------------------------------------------------------------
(* What an answer, and what a disturbance, is classified as                *)

Refusals == {"rejected", "protocol_unsupported"}

\* The outcomes inconsistencies() leaves out.
Untelling == {"client_unsupported", "dns_failed", "connect_refused"}

\* An undisturbed connection that offers only g succeeds exactly with a stack
\* that accepts g, and is recorded as refused by every other stack that
\* answers at all.
LEMMA AnswerOutcome ==
  ASSUME NEW s \in Stack, NEW hello \in Hellos, NEW t \in Answers(s, hello)
  PROVE  /\ OutcomeOf(t) = "supported" <=> Accepts(s, hello)
         /\ Accepts(s, hello) => t.cert = s.cert
         /\ ~Accepts(s, hello) /\ s.speaks # "nothing" => OutcomeOf(t) \in Refusals
         /\ s.speaks = "nothing" => OutcomeOf(t) \in {"connect_refused", "timeout"}
<1>1. CASE Accepts(s, hello)
  <2>1. PICK g : t = Transcript(FALSE, 0, TRUE, {}, g, s.cert)
    BY <1>1 DEF Answers, Accepts
  <2>2. OutcomeOf(t) = "supported" /\ t.cert = s.cert
    BY <2>1 DEF OutcomeOf, Transcript
  <2> QED
    BY <1>1, <2>2 DEF Accepts
<1>2. CASE ~Accepts(s, hello)
  <2>1. CASE s.speaks = "tls1_3"
    <3>1. t \in { Failed(1, {"alert"}), Failed(1, {"alert", "reset"}) }
      BY <1>2, <2>1 DEF Answers
    <3> QED
      BY <1>2, <2>1, <3>1, FailureOutcomes DEF Refusals
  <2>2. CASE s.speaks = "tls1_2"
    <3>1. t = Failed(1, {"alert_protocol_version"})
      BY <1>2, <2>2 DEF Answers
    <3> QED
      BY <1>2, <2>2, <3>1, FailureOutcomes DEF Refusals
  <2>3. CASE s.speaks = "plaintext"
    <3>1. t = Failed(1, {"version"})
      BY <1>2, <2>3 DEF Answers
    <3> QED
      BY <1>2, <2>3, <3>1, FailureOutcomes DEF Refusals
  <2>4. CASE s.speaks = "nothing"
    <3>1. t \in { Failed(1, {"refused"}), Killed(None, FALSE) }
      BY <1>2, <2>4 DEF Answers
    <3>2. OutcomeOf(Killed(None, FALSE)) = "timeout"
      BY DEF OutcomeOf, Killed, Transcript
    <3> QED
      BY <1>2, <2>4, <3>1, <3>2, FailureOutcomes
  <2> QED
    BY <2>1, <2>2, <2>3, <2>4 DEF Stack, Speech
<1> QED
  BY <1>1, <1>2

\* A disturbed connection never succeeds, counts as a refusal only when the
\* local client had no TLS version to offer, and is set aside by the
\* comparison of the answers unless it is one of TakenForAnswers.
LEMMA DisturbedOutcome ==
  ASSUME NEW s \in Stack, NEW hello, NEW f \in Faults, NEW t \in Disturbed(f, s, hello)
  PROVE  /\ OutcomeOf(t) # "supported"
         /\ OutcomeOf(t) \in Refusals <=> f = "no_protocols"
         /\ f \notin TakenForAnswers => OutcomeOf(t) \in Untelling
<1>1. ASSUME NEW c, NEW done
      PROVE  OutcomeOf(Killed(c, done)) = "timeout"
  BY DEF OutcomeOf, Killed, Transcript
<1>2. CASE f = "stall"
  <2>1. \E c, done : t = Killed(c, done)
    BY <1>2 DEF Disturbed
  <2> QED
    BY <1>1, <1>2, <2>1 DEF Refusals, TakenForAnswers
<1>3. CASE f = "no_protocols"
  <2>1. t = NoProtocols
    BY <1>3 DEF Disturbed
  <2> QED
    BY <1>3, <2>1, FailureOutcomes DEF Refusals, TakenForAnswers
<1>4. CASE f \in {"refused", "dns", "option"}
  <2>1. t \in { Failed(1, {"refused"}), Failed(1, {"resolver"}), Failed(1, {"option"}) }
    BY <1>4 DEF Disturbed
  <2> QED
    BY <1>4, <2>1, FailureOutcomes DEF Refusals, Untelling
<1>5. CASE f \in {"reset", "spawn", "close"}
  <2>1. t \in { Failed(1, {"reset"}), Failed(-1, {}), Failed(0, {}) }
    BY <1>5 DEF Disturbed
  <2> QED
    BY <1>5, <2>1, FailureOutcomes DEF Refusals, TakenForAnswers
<1> QED
  BY <1>2, <1>3, <1>4, <1>5, WorldAssumption DEF FaultKinds

-----------------------------------------------------------------------------
(* The observations and the connections behind them                        *)

\* Observation o was read off connection a; for a probe of a group, of the
\* ClientHello that offers it alone.
FromConnection(o, a) ==
  \E hello \in Hellos : \E t \in Prints(a.stack, hello, a.fault) :
    /\ o = _result_from_output(o.group_offered, t)
    /\ o.group_offered \notin Sentinels => hello = GroupHello(o.group_offered)

\* The name did not resolve and nothing was connected to, or there is one
\* connection behind every observation.
AnswersInv ==
  /\ TypeOK
  /\ phase = "resolve" => obs = <<>> /\ answered = <<>>
  /\ phase = "sweep" => Len(obs) = Len(answered)
  /\ \/ obs = <<NotResolved>> /\ answered = <<>>
     \/ /\ Len(obs) = Len(answered)
        /\ \A i \in DOMAIN obs : FromConnection(obs[i], answered[i])

LEMMA RecordedConnection ==
  ASSUME NEW g, NEW hello, NEW s, NEW t, NEW f, Recorded(g, hello, s, t, f)
  PROVE  FromConnection(_result_from_output(g, t), [stack |-> s, fault |-> f])
<1> DEFINE o == _result_from_output(g, t)
           a == [stack |-> s, fault |-> f]
<1>1. o.group_offered = g /\ a.stack = s /\ a.fault = f
  BY DEF _result_from_output
<1>2. /\ hello \in Hellos
      /\ g \notin Sentinels => hello = GroupHello(g)
      /\ t \in Prints(s, hello, f)
  BY DEF Recorded
<1> HIDE DEF a
<1>3. o = _result_from_output(o.group_offered, t)
  BY <1>1
<1> HIDE DEF o
<1> QED
  BY <1>1, <1>2, <1>3 DEF FromConnection, o, a

LEMMA InitAnswers == Init => AnswersInv
BY InitType DEF Init, AnswersInv

LEMMA StepAnswers == AnswersInv /\ [Next]_vars => AnswersInv'
<1> SUFFICES ASSUME AnswersInv, [Next]_vars PROVE AnswersInv'
  OBVIOUS
<1>1. TypeOK /\ TypeOK'
  BY StepType DEF AnswersInv
<1>2. CASE UNCHANGED vars
  BY <1>1, <1>2 DEF vars, AnswersInv, FromConnection
<1>3. ASSUME Next, phase = "resolve", UNCHANGED answered,
             obs' = obs \/ obs' = Append(obs, NotResolved)
      PROVE  AnswersInv'
  <2>1. answered' = <<>> /\ (obs' = <<>> \/ obs' = <<NotResolved>>)
    BY <1>3 DEF AnswersInv
  <2>2. phase' = "sweep" => obs' = obs
    BY <1>3 DEF Next, ResolveOk, ResolveFails, ResolveRaises, probe_default_detailed,
         probe_realistic_detailed, probe_group_detailed
  <2>3. phase' # "resolve"
    BY <1>3 DEF Next, ResolveOk, ResolveFails, ResolveRaises, probe_default_detailed,
         probe_realistic_detailed, probe_group_detailed
  <2> QED
    BY <1>1, <1>3, <2>1, <2>2, <2>3 DEF AnswersInv
<1>4. ASSUME Next, phase = "sweep",
             NEW g, NEW hello, NEW s, NEW t, NEW f,
             Recorded(g, hello, s, t, f)
      PROVE  AnswersInv'
  <2> DEFINE o == _result_from_output(g, t)
             a == [stack |-> s, fault |-> f]
  <2>1. obs' = Append(obs, o) /\ answered' = Append(answered, a)
    BY <1>4 DEF Recorded, record
  <2>2. FromConnection(o, a)
    BY <1>4, RecordedConnection
  <2>3. Len(obs) = Len(answered) /\ ~(obs = <<NotResolved>> /\ answered = <<>>)
    BY <1>4 DEF AnswersInv
  <2>4. \A i \in DOMAIN obs : FromConnection(obs[i], answered[i])
    BY <2>3 DEF AnswersInv
  <2>5. phase' # "resolve"
    BY <1>4 DEF Recorded, record
  <2> HIDE DEF o, a
  <2>6. /\ Len(obs') = Len(answered')
        /\ \A i \in DOMAIN obs' :
             \/ i \in DOMAIN obs /\ obs'[i] = obs[i] /\ answered'[i] = answered[i]
             \/ obs'[i] = o /\ answered'[i] = a
    BY <1>1, <2>1, <2>3 DEF TypeOK
  <2>7. \A i \in DOMAIN obs' : FromConnection(obs'[i], answered'[i])
    BY <2>2, <2>4, <2>6
  <2> QED
    BY <1>1, <2>5, <2>6, <2>7 DEF AnswersInv, FromConnection
<1> QED
  BY <1>1, <1>2, <1>3, <1>4, StepShape

LEMMA AnswersInvariant == Spec => []AnswersInv
BY InitAnswers, StepAnswers, PTL DEF Spec

\* What the observation of a group says of the stack that was reached.
LEMMA GroupAnswer ==
  ASSUME AnswersInv, NEW i \in DOMAIN obs, GroupProbe(obs[i])
  PROVE  LET o == obs[i]
             s == answered[i].stack
             f == answered[i].fault
             hello == GroupHello(o.group_offered) IN
         /\ i \in DOMAIN answered /\ s \in pool /\ s \in Stack /\ f \in Faults \cup {None}
         /\ f = None =>
              /\ succeeded(o) <=> Accepts(s, hello)
              /\ Accepts(s, hello) => o.peer = s.cert
              /\ ~Accepts(s, hello) /\ s.speaks # "nothing" => o.outcome \in Refusals
              /\ s.speaks = "nothing" => o.outcome \in {"connect_refused", "timeout"}
         /\ f # None => /\ ~succeeded(o)
                        /\ o.outcome \in Refusals <=> f = "no_protocols"
                        /\ Telling(o) => f \in TakenForAnswers
<1> DEFINE o == obs[i]
           a == answered[i]
           s == a.stack
           f == a.fault
           hello == GroupHello(o.group_offered)
<1>1. obs \in Seq(Observation) /\ answered \in Seq(Connection) /\ pool \in Pools
  BY DEF AnswersInv, TypeOK, Connection
<1>2. obs # <<NotResolved>>
  BY DEF NotResolved, GroupProbe, Sentinels
<1>3. Len(obs) = Len(answered) /\ FromConnection(o, a)
  BY <1>2 DEF AnswersInv
<1>4. i \in DOMAIN answered
  BY <1>1, <1>3
<1>5. a \in Connection
  BY <1>1, <1>4
<1>6. s \in pool /\ s \in Stack /\ f \in Faults \cup {None}
  BY <1>1, <1>5, WorldAssumption DEF Connection
<1>7. PICK t \in Prints(s, hello, f) : o = _result_from_output(o.group_offered, t) /\ hello \in Hellos
  BY <1>3 DEF FromConnection, GroupProbe
<1>8. o.outcome = OutcomeOf(t) /\ o.peer = t.cert
  BY <1>7 DEF _result_from_output
<1>9. CASE f = None
  <2>1. t \in Answers(s, hello)
    BY <1>7, <1>9 DEF Prints
  <2> HIDE DEF o, a, s, f, hello
  <2>2. /\ OutcomeOf(t) = "supported" <=> Accepts(s, hello)
        /\ Accepts(s, hello) => t.cert = s.cert
        /\ ~Accepts(s, hello) /\ s.speaks # "nothing" => OutcomeOf(t) \in Refusals
        /\ s.speaks = "nothing" => OutcomeOf(t) \in {"connect_refused", "timeout"}
    BY <1>6, <1>7, <2>1, AnswerOutcome
  <2> QED
    BY <1>4, <1>6, <1>8, <1>9, <2>2 DEF succeeded, o, a, s, f, hello
<1>10. CASE f # None
  <2>1. f \in Faults /\ t \in Disturbed(f, s, hello)
    BY <1>6, <1>7, <1>10 DEF Prints
  <2> HIDE DEF o, a, s, f, hello
  <2>2. /\ OutcomeOf(t) # "supported"
        /\ OutcomeOf(t) \in Refusals <=> f = "no_protocols"
        /\ f \notin TakenForAnswers => OutcomeOf(t) \in Untelling
    BY <1>6, <2>1, DisturbedOutcome
  <2>3. o.outcome \in Untelling => ~Telling(o)
    BY DEF Telling, Untelling
  <2> QED
    BY <1>4, <1>6, <1>8, <1>10, <2>2, <2>3 DEF succeeded, o, a, s, f, hello
<1> QED
  BY <1>6, <1>9, <1>10

-----------------------------------------------------------------------------
(* Refusals, inconsistencies and divergences                               *)

LEMMA AnswersInvRefusal == AnswersInv => RefusalHasCause
<1> SUFFICES ASSUME AnswersInv,
                    NEW p \in RowPeers(obs), NEW g \in RowGroups(obs, p),
                    CellIs(p, g, "observed_rejected")
             PROVE  \E i \in DOMAIN answered :
                      /\ obs[i].group_offered = g
                      /\ \/ /\ Undisturbed(i)
                            /\ \/ Declines(answered[i].stack, g)
                               \/ answered[i].stack.speaks = "plaintext"
                         \/ answered[i].fault = "no_protocols"
  BY DEF RefusalHasCause
<1>1. PICK i \in Attempts(obs, p, g) : Support(obs[i]) = "observed_rejected"
  BY CellWitness DEF CellIs
<1>2. obs[i].outcome \in Refusals /\ ~succeeded(obs[i])
  BY <1>1, SupportType DEF Refusals, succeeded
<1>3. i \in DOMAIN obs /\ GroupProbe(obs[i]) /\ obs[i].group_offered = g
  BY DEF Attempts
<1>4. CASE Undisturbed(i)
  <2>1. /\ i \in DOMAIN answered /\ answered[i].stack \in Stack
        /\ ~Accepts(answered[i].stack, GroupHello(g))
        /\ answered[i].stack.speaks # "nothing"
    BY <1>2, <1>3, <1>4, GroupAnswer DEF Refusals, Undisturbed
  <2>2. answered[i].stack.speaks \in {"tls1_3", "tls1_2", "plaintext"}
    BY <2>1 DEF Stack, Speech
  <2> QED
    BY <1>3, <1>4, <2>1, <2>2 DEF Declines
<1>5. CASE ~Undisturbed(i)
  <2>1. i \in DOMAIN answered /\ answered[i].fault = "no_protocols"
    BY <1>2, <1>3, <1>5, GroupAnswer DEF Undisturbed
  <2> QED
    BY <1>3, <2>1
<1> QED
  BY <1>4, <1>5

\* For every pool and path: behind every cell that says observed_rejected is
\* a connection for that group that a peer answered without taking it, or one
\* the local client had no TLS version to offer on.
THEOREM RefusalsHaveCause == Spec => []RefusalHasCause
BY AnswersInvariant, AnswersInvRefusal, PTL

LEMMA AnswersInvInconsistency == AnswersInv => InconsistencyHasCause
<1> SUFFICES ASSUME AnswersInv, NEW g \in inconsistencies(obs)
             PROVE  \/ \E s, t \in pool :
                         Accepts(s, GroupHello(g)) /\ ~Accepts(t, GroupHello(g))
                    \/ \E i \in DOMAIN answered :
                         obs[i].group_offered = g /\ answered[i].fault \in TakenForAnswers
  BY DEF InconsistencyHasCause, TakenForAnswers
<1>1. PICK i, j \in DOMAIN obs :
        /\ obs[i].group_offered = g /\ Telling(obs[i]) /\ succeeded(obs[i])
        /\ obs[j].group_offered = g /\ Telling(obs[j]) /\ ~succeeded(obs[j])
  BY DEF inconsistencies
<1>2. GroupProbe(obs[i]) /\ GroupProbe(obs[j])
  BY <1>1 DEF Telling
<1>3. answered[i].stack \in pool /\ Accepts(answered[i].stack, GroupHello(g))
  BY <1>1, <1>2, GroupAnswer
<1>4. CASE Undisturbed(j)
  <2>1. answered[j].stack \in pool /\ ~Accepts(answered[j].stack, GroupHello(g))
    BY <1>1, <1>2, <1>4, GroupAnswer DEF Undisturbed
  <2> QED
    BY <1>3, <2>1
<1>5. CASE ~Undisturbed(j)
  <2>1. j \in DOMAIN answered /\ answered[j].fault \in TakenForAnswers
    BY <1>1, <1>2, <1>5, GroupAnswer DEF Undisturbed
  <2> QED
    BY <1>1, <2>1
<1> QED
  BY <1>4, <1>5

\* For every pool and path: a group is called inconsistent only if two members
\* differ on it, or a connection of that group was itself cut off, never
\* started or left without a TLS version to offer.
THEOREM InconsistenciesHaveCause == Spec => []InconsistencyHasCause
BY AnswersInvariant, AnswersInvInconsistency, PTL

LEMMA AnswersInvDivergence == AnswersInv => DivergenceIsReported
<1> SUFFICES ASSUME AnswersInv, NEW i \in DOMAIN answered, NEW j \in DOMAIN answered,
                    GroupProbe(obs[i]), obs[j].group_offered = obs[i].group_offered,
                    Undisturbed(i),
                    Accepts(answered[i].stack, GroupHello(obs[i].group_offered)),
                    Undisturbed(j),
                    Declines(answered[j].stack, obs[i].group_offered)
             PROVE  obs[i].group_offered \in inconsistencies(obs)
  BY DEF DivergenceIsReported
<1> DEFINE g == obs[i].group_offered
<1>1. i \in DOMAIN obs /\ j \in DOMAIN obs
  <2>1. answered # <<>>
    OBVIOUS
  <2>2. Len(obs) = Len(answered)
    BY <2>1 DEF AnswersInv
  <2> QED
    BY <2>2 DEF AnswersInv, TypeOK
<1>2. GroupProbe(obs[j])
  BY DEF GroupProbe
<1>3. succeeded(obs[i]) /\ Telling(obs[i])
  BY <1>1, GroupAnswer DEF Telling, succeeded, Undisturbed
<1>4. obs[j].outcome \in Refusals
  BY <1>1, <1>2, GroupAnswer DEF Declines, Undisturbed
<1>5. ~succeeded(obs[j]) /\ Telling(obs[j])
  BY <1>2, <1>4 DEF Telling, succeeded, Refusals
<1> QED
  BY <1>1, <1>3, <1>5 DEF inconsistencies

\* For every pool and path: when one member accepted a group and another one
\* declined it, and both connections went through, the group is named.
THEOREM DivergencesAreReported == Spec => []DivergenceIsReported
BY AnswersInvariant, AnswersInvDivergence, PTL

-----------------------------------------------------------------------------
(* The scan implements the ledger of claims                                *)

\* A claim is one observation of a group that succeeded.
Claim(o) == GroupProbe(o) /\ succeeded(o)

ClaimsOf(seq) ==
  { c \in (Certs \cup {Unidentified}) \X ToSet(Groups) :
      \E i \in DOMAIN seq :
        Claim(seq[i]) /\ peer_key(seq[i]) = c[1] /\ seq[i].group_offered = c[2] }

\* A cell says supported exactly if one attempt succeeded.
LEMMA SupportedCell ==
  ASSUME NEW seq, NEW p, NEW g
  PROVE  /\ p \in RowPeers(seq) /\ g \in RowGroups(seq, p)
         /\ support_matrix(seq)[p][g] = "observed_supported"
         <=> \E i \in DOMAIN seq :
               Claim(seq[i]) /\ peer_key(seq[i]) = p /\ seq[i].group_offered = g
<1>1. ASSUME p \in RowPeers(seq), g \in RowGroups(seq, p),
             support_matrix(seq)[p][g] = "observed_supported"
      PROVE  \E i \in DOMAIN seq :
               Claim(seq[i]) /\ peer_key(seq[i]) = p /\ seq[i].group_offered = g
  <2>1. PICK i \in Attempts(seq, p, g) : Support(seq[i]) = "observed_supported"
    BY <1>1, CellWitness
  <2> QED
    BY <2>1, SupportType DEF Attempts, Claim
<1>2. ASSUME NEW i \in DOMAIN seq, Claim(seq[i]), peer_key(seq[i]) = p,
             seq[i].group_offered = g
      PROVE  /\ p \in RowPeers(seq) /\ g \in RowGroups(seq, p)
             /\ support_matrix(seq)[p][g] = "observed_supported"
  <2>1. p \in RowPeers(seq) /\ g \in RowGroups(seq, p) /\ i \in Attempts(seq, p, g)
    BY <1>2 DEF RowPeers, RowGroups, Attempts, Claim
  <2>2. Support(seq[i]) = "observed_supported"
    BY <1>2, SupportType DEF Claim
  <2>3. /\ support_matrix(seq)[p][g] = Cell(seq, p, g)
        /\ Rank["observed_supported"] <= Rank[Cell(seq, p, g)]
        /\ Cell(seq, p, g) \in CellStates
    BY <2>1, <2>2, CellWitness, SupportType
  <2>4. Cell(seq, p, g) = "observed_supported"
    BY <2>3 DEF Rank, CellStates
  <2> QED
    BY <2>1, <2>3, <2>4
<1> QED
  BY <1>1, <1>2

\* Appending an observation enters at most the claim it makes itself.
LEMMA ClaimsGrow ==
  ASSUME NEW seq \in Seq(Observation), NEW o,
         Claim(o) => peer_key(o) \in Certs /\ o.group_offered \in ToSet(Groups)
  PROVE  ClaimsOf(Append(seq, o))
           = ClaimsOf(seq) \cup (IF Claim(o) THEN {<<peer_key(o), o.group_offered>>} ELSE {})
<1> DEFINE longer == Append(seq, o)
           T == (Certs \cup {Unidentified}) \X ToSet(Groups)
           Makes(x, c) == Claim(x) /\ peer_key(x) = c[1] /\ x.group_offered = c[2]
<1>1. /\ \A i \in DOMAIN seq : i \in DOMAIN longer /\ longer[i] = seq[i]
      /\ Len(longer) \in DOMAIN longer /\ longer[Len(longer)] = o
      /\ \A i \in DOMAIN longer : (i \in DOMAIN seq /\ longer[i] = seq[i]) \/ longer[i] = o
  OBVIOUS
<1>2. Claim(o) => <<peer_key(o), o.group_offered>> \in T
  OBVIOUS
<1>3. \A c \in T : Makes(o, c) <=> Claim(o) /\ c = <<peer_key(o), o.group_offered>>
  OBVIOUS
<1> HIDE DEF longer, Makes, T
<1>4. \A c : (\E i \in DOMAIN longer : Makes(longer[i], c))
               <=> (\E i \in DOMAIN seq : Makes(seq[i], c)) \/ Makes(o, c)
  BY <1>1
<1>5. \A z : ClaimsOf(z) = { c \in T : \E i \in DOMAIN z : Makes(z[i], c) }
  BY DEF ClaimsOf, T, Makes
<1>6. ClaimsOf(longer) = { c \in T : (\E i \in DOMAIN seq : Makes(seq[i], c)) \/ Makes(o, c) }
  BY <1>4, <1>5
<1>7. ClaimsOf(longer) = ClaimsOf(seq) \cup { c \in T : Makes(o, c) }
  BY <1>5, <1>6
<1>8. { c \in T : Makes(o, c) } = IF Claim(o) THEN {<<peer_key(o), o.group_offered>>} ELSE {}
  BY <1>2, <1>3
<1> QED
  BY <1>7, <1>8 DEF longer

LEMMA LedgerInit == Init => Ledger!Init
<1> SUFFICES ASSUME Init PROVE Ledger!Init
  OBVIOUS
<1>1. RowPeers(obs) = {}
  BY DEF Init, RowPeers
<1>2. Claims = {}
  BY <1>1 DEF Claims, CellIs
<1>3. (~Over) = TRUE
  BY DEF Init, Over
<1> QED
  BY <1>2, <1>3 DEF Init, Ledger!Init

LEMMA LedgerStep == SupportInv /\ [Next]_vars => [Ledger!Next]_(Ledger!ledgerVars)
<1> SUFFICES ASSUME SupportInv, [Next]_vars
             PROVE  [Ledger!Next]_(Ledger!ledgerVars)
  OBVIOUS
<1>1. TypeOK /\ TypeOK' /\ SupportInv'
  BY StepSupport, StepType DEF SupportInv
<1>2. CASE UNCHANGED vars
  BY <1>2 DEF vars, Ledger!ledgerVars, Claims, CellIs, Over
<1>3. Claims = ClaimsOf(obs) /\ Claims' = ClaimsOf(obs')
  BY SupportedCell DEF Claims, ClaimsOf, CellIs
<1>4. ASSUME Next, phase \in {"resolve", "sweep"}, NEW o, obs' = Append(obs, o),
             Claim(o) => peer_key(o) \in Certs /\ o.group_offered \in ToSet(Groups),
             Claim(o) => \E s \in pool : /\ s.speaks = "tls1_3" /\ s.cert = peer_key(o)
                                         /\ o.group_offered \in s.groups
      PROVE  Ledger!Next
  <2>1. Claims' = Claims \cup (IF Claim(o) THEN {<<peer_key(o), o.group_offered>>} ELSE {})
    BY <1>1, <1>3, <1>4, ClaimsGrow DEF TypeOK
  <2>2. pool' = pool /\ ~Over /\ (~Over)' \in BOOLEAN
    BY <1>1, <1>4, StepShape DEF Over
  <2>3. \/ Claims' = Claims
        \/ \E s \in pool : \E g \in s.groups :
             s.speaks = "tls1_3" /\ Claims' = Claims \cup {<<s.cert, g>>}
    BY <1>4, <2>1
  <2> QED
    BY <2>2, <2>3 DEF Ledger!Next, Ledger!Enter
<1>5. ASSUME Next, phase = "resolve", obs' = obs
      PROVE  Ledger!Next
  <2>1. pool' = pool /\ ~Over /\ (~Over)' \in BOOLEAN /\ Claims' = Claims
    BY <1>1, <1>3, <1>5, StepShape DEF Over
  <2> QED
    BY <2>1 DEF Ledger!Next, Ledger!Enter
<1>6. ASSUME Next, phase = "resolve", obs' = Append(obs, NotResolved)
      PROVE  Ledger!Next
  <2>1. ~Claim(NotResolved)
    BY DEF Claim, NotResolved, GroupProbe, Sentinels
  <2> QED
    BY <1>4, <1>6, <2>1
<1>7. ASSUME Next, phase = "sweep",
             NEW g, NEW hello, NEW s, NEW t, NEW f,
             Recorded(g, hello, s, t, f)
      PROVE  Ledger!Next
  <2> DEFINE o == _result_from_output(g, t)
  <2>1. obs' = Append(obs, o)
    BY <1>7 DEF Recorded, record
  <2>2. o.group_offered = g
    BY DEF _result_from_output
  <2>3. Len(obs') \in DOMAIN obs' /\ obs'[Len(obs')] = o /\ pool' = pool
    BY <1>1, <1>7, <2>1, StepShape DEF TypeOK
  <2> HIDE DEF o
  <2>4. ASSUME Claim(o)
        PROVE  \E r \in pool : /\ r.speaks = "tls1_3" /\ r.cert = peer_key(o)
                               /\ o.group_offered \in r.groups /\ peer_key(o) \in Certs
    <3>1. PICK r \in pool : r.cert = o.peer /\ r.speaks = "tls1_3" /\ o.group_offered \in r.groups
      BY <1>1, <2>3, <2>4 DEF SupportInv, Proven, Claim
    <3>2. r.cert \in Certs
      BY <1>1, WorldAssumption DEF TypeOK, Stack
    <3> QED
      BY <3>1, <3>2, WorldAssumption DEF peer_key
  <2>5. ASSUME Claim(o)
        PROVE  o.group_offered \in ToSet(Groups)
    <3>1. step \in 1 .. Len(Groups) + 2 /\ g = Sweep[step] /\ g \notin Sentinels
      BY <1>1, <1>7, <2>2, <2>5, SweepType DEF TypeOK, Recorded, Claim, GroupProbe
    <3>2. step > 2
      BY <3>1, GroupsAssumption DEF Sweep, Sentinels
    <3>3. g = Groups[step - 2] /\ step - 2 \in DOMAIN Groups
      BY <3>1, <3>2, GroupsAssumption DEF Sweep
    <3> QED
      BY <2>2, <3>3 DEF ToSet
  <2> QED
    BY <1>4, <1>7, <2>1, <2>4, <2>5
<1> QED
  BY <1>1, <1>2, <1>5, <1>6, <1>7, StepShape

LEMMA SupportInvariant == Spec => []SupportInv
<1>1. Init => SupportInv
  BY InitType DEF Init, SupportInv
<1> QED
  BY <1>1, StepSupport, PTL DEF Spec

\* For every pool and path: whatever a scan does is, seen through the support
\* matrix, entering one true claim at a time and never taking one back.
THEOREM ScanImplementsLedger == Spec => ImplementsLedger
BY LedgerInit, LedgerStep, SupportInvariant, PTL DEF Spec, ImplementsLedger, Ledger!Spec

-----------------------------------------------------------------------------
(* The sweep is complete                                                   *)

\* The observations so far of the k-th probe of a pass.
Of(seq, k) == { i \in DOMAIN seq : seq[i].group_offered = Sweep[k] }

\* Where the loops stand says how often every probe has been run.  The name
\* failed to resolve before anything was probed, and nothing else is recorded.
ProgressInv ==
  /\ TypeOK
  /\ phase = "resolve" => obs = <<>> /\ index = 0 /\ step = 1
  /\ phase = "sweep" => Resolved /\ index < passes
  /\ phase = "done" /\ Resolved => step = 1 /\ index = IF passes > 0 THEN passes ELSE 0
  /\ ~Resolved => obs = <<NotResolved>>
  /\ Resolved => \A i \in DOMAIN obs : \E k \in DOMAIN Sweep : i \in Of(obs, k)
  /\ Resolved => \A k \in DOMAIN Sweep :
       /\ IsFiniteSet(Of(obs, k))
       /\ Cardinality(Of(obs, k)) = index + (IF k < step THEN 1 ELSE 0)

\* No two probes of a pass ask the same question, and none is the resolver's.
LEMMA SweepDistinct ==
  /\ \A j, k \in DOMAIN Sweep : Sweep[j] = Sweep[k] => j = k
  /\ \A k \in DOMAIN Sweep : Sweep[k] # "__resolve__"
<1>1. /\ Groups \in Seq(InfoGroups) /\ InfoGroups \cap Sentinels = {}
      /\ \A i, j \in DOMAIN Groups : Groups[i] = Groups[j] => i = j
  BY GroupsAssumption
<1>2. /\ DOMAIN Sweep = 1 .. Len(Groups) + 2
      /\ Sweep[1] = "__default__" /\ Sweep[2] = "__realistic__"
      /\ \A k \in DOMAIN Sweep : k > 2 => k - 2 \in DOMAIN Groups /\ Sweep[k] = Groups[k - 2]
  BY <1>1 DEF Sweep
<1>3. \A k \in DOMAIN Sweep : k > 2 => Sweep[k] \in InfoGroups
  BY SweepType
<1>4. \A k \in DOMAIN Sweep : k > 2 => Sweep[k] \notin Sentinels
  BY <1>1, <1>3
<1>5. \A k \in DOMAIN Sweep : k \in Nat /\ (k = 1 \/ k = 2 \/ k > 2)
  BY <1>1, <1>2
<1>6. ASSUME NEW j \in DOMAIN Sweep, NEW k \in DOMAIN Sweep, Sweep[j] = Sweep[k]
      PROVE  j = k
  <2>1. CASE j > 2 /\ k > 2
    <3>1. j - 2 = k - 2
      BY <1>1, <1>2, <1>6, <2>1
    <3> QED
      BY <1>5, <3>1
  <2>2. CASE ~(j > 2 /\ k > 2)
    BY <1>2, <1>4, <1>5, <1>6, <2>2 DEF Sentinels
  <2> QED
    BY <2>1, <2>2
<1> QED
  BY <1>2, <1>4, <1>5, <1>6 DEF Sentinels

LEMMA InitProgress == Init => ProgressInv
<1> SUFFICES ASSUME Init PROVE ProgressInv
  OBVIOUS
<1>1. \A k : Of(obs, k) = {}
  BY DEF Init, Of
<1>2. \A k \in DOMAIN Sweep : k \in Nat /\ ~(k < 1)
  BY SweepType, GroupsAssumption
<1>3. \A k : IsFiniteSet(Of(obs, k)) /\ Cardinality(Of(obs, k)) = 0
  BY <1>1, FS_EmptySet
<1>4. \A k \in DOMAIN Sweep :
        IsFiniteSet(Of(obs, k)) /\ Cardinality(Of(obs, k)) = index + (IF k < step THEN 1 ELSE 0)
  <2>1. index = 0 /\ step = 1
    BY DEF Init
  <2> QED
    BY <1>2, <1>3, <2>1
<1>5. Resolved
  BY DEF Init, Resolved
<1> QED
  BY <1>4, <1>5, InitType DEF Init, ProgressInv

\* One more observation is one more of its own probe and of no other.
LEMMA OneMore ==
  ASSUME NEW seq \in Seq(Observation), NEW o, NEW n \in DOMAIN Sweep,
         o.group_offered = Sweep[n],
         NEW k \in DOMAIN Sweep, IsFiniteSet(Of(seq, k))
  PROVE  LET longer == Append(seq, o) IN
         /\ IsFiniteSet(Of(longer, k))
         /\ Cardinality(Of(longer, k)) = Cardinality(Of(seq, k)) + (IF k = n THEN 1 ELSE 0)
<1> DEFINE longer == Append(seq, o)
<1>1. /\ Len(seq) \in Nat /\ DOMAIN seq = 1 .. Len(seq)
      /\ DOMAIN longer = 1 .. Len(seq) + 1
      /\ longer[Len(seq) + 1] = o
      /\ \A i \in DOMAIN seq : longer[i] = seq[i]
  OBVIOUS
<1> HIDE DEF longer
<1>2. CASE k = n
  <2>1. Of(longer, k) = Of(seq, k) \cup {Len(seq) + 1}
    BY <1>1, <1>2 DEF Of
  <2>2. Len(seq) + 1 \notin Of(seq, k)
    BY <1>1 DEF Of
  <2>3. /\ IsFiniteSet(Of(longer, k))
        /\ Cardinality(Of(longer, k)) = Cardinality(Of(seq, k)) + 1
    <3> DEFINE S == Of(seq, k)
    <3>1. /\ IsFiniteSet(S \cup {Len(seq) + 1})
          /\ Cardinality(S \cup {Len(seq) + 1}) = Cardinality(S) + 1
      BY <2>2, FS_AddElement
    <3> QED
      BY <2>1, <3>1
  <2> QED
    BY <1>2, <2>3 DEF longer
<1>3. CASE k # n
  <2>1. o.group_offered # Sweep[k]
    BY <1>3, SweepDistinct
  <2>2. Of(longer, k) = Of(seq, k)
    BY <1>1, <2>1 DEF Of
  <2>3. Cardinality(Of(seq, k)) \in Nat
    BY FS_CardinalityType
  <2> QED
    BY <1>3, <2>2, <2>3 DEF longer
<1> QED
  BY <1>2, <1>3

LEMMA StepProgress == ProgressInv /\ [Next]_vars => ProgressInv'
<1> SUFFICES ASSUME ProgressInv, [Next]_vars PROVE ProgressInv'
  OBVIOUS
<1>1. TypeOK /\ TypeOK' /\ passes \in Int
  BY StepType, WorldAssumption DEF ProgressInv, TypeOK
<1>2. CASE UNCHANGED vars
  BY <1>1, <1>2 DEF vars, ProgressInv, Resolved, Of
<1>3. CASE ResolveOk
  BY <1>1, <1>3 DEF ResolveOk, ProgressInv, Resolved, Of
<1>4. CASE ResolveFails
  <2>1. phase' = "done" /\ obs' = <<NotResolved>>
    BY <1>4 DEF ResolveFails, ProgressInv, NotResolved
  <2>2. ~Resolved'
    BY <2>1 DEF Resolved, NotResolved
  <2> QED
    BY <1>1, <2>1, <2>2 DEF ProgressInv
<1>5. CASE ResolveRaises
  BY <1>1, <1>5 DEF ResolveRaises, ProgressInv, Resolved, Of
<1>6. ASSUME phase = "sweep",
             NEW g, NEW hello, NEW s, NEW t, NEW f,
             Recorded(g, hello, s, t, f), passes' = passes
      PROVE  ProgressInv'
  <2> DEFINE o == _result_from_output(g, t)
             last == Len(Sweep)
  <2>1. obs' = Append(obs, o) /\ obs \in Seq(Observation)
    BY <1>1, <1>6 DEF Recorded, record, TypeOK
  <2>2. step \in DOMAIN Sweep /\ o.group_offered = Sweep[step]
    BY <1>1, <1>6 DEF Recorded, _result_from_output, TypeOK
  <2>3. Resolved /\ index < passes
    BY <1>6 DEF ProgressInv
  <2>4. \A k \in DOMAIN Sweep :
          /\ IsFiniteSet(Of(obs, k))
          /\ Cardinality(Of(obs, k)) = index + (IF k < step THEN 1 ELSE 0)
    BY <2>3 DEF ProgressInv
  <2> HIDE DEF o
  <2>5. \A k \in DOMAIN Sweep :
          /\ IsFiniteSet(Of(obs', k))
          /\ Cardinality(Of(obs', k))
               = index + (IF k < step THEN 1 ELSE 0) + (IF k = step THEN 1 ELSE 0)
    BY <2>1, <2>2, <2>4, OneMore
  <2>6. Resolved'
    BY <2>1, <2>2, <2>3, SweepDistinct DEF Resolved
  <2>7. last \in Nat /\ DOMAIN Sweep = 1 .. last
    BY SweepType, GroupsAssumption
  <2>8. /\ index \in Nat /\ step \in 1 .. last
        /\ IF step < last
           THEN step' = step + 1 /\ index' = index /\ phase' = phase
           ELSE /\ step' = 1 /\ index' = index + 1
                /\ phase' = IF index + 1 < passes THEN phase ELSE "done"
    BY <1>1, <1>6, <2>7 DEF Recorded, record, TypeOK
  <2> HIDE DEF last
  <2>9. \A k \in DOMAIN Sweep :
          Cardinality(Of(obs', k)) = index' + (IF k < step' THEN 1 ELSE 0)
    BY <2>5, <2>7, <2>8
  <2>10. /\ phase' # "resolve"
         /\ phase' = "sweep" => index' < passes
         /\ phase' = "done" => step' = 1 /\ index' = passes /\ passes > 0
    BY <1>1, <1>6, <2>3, <2>8
  <2>11. \A k \in DOMAIN Sweep : Of(obs, k)' = Of(obs', k)
    BY DEF Of
  <2>12. \A i \in DOMAIN obs' : \E k \in DOMAIN Sweep : i \in Of(obs', k)
    <3>1. \A i \in DOMAIN obs : \E k \in DOMAIN Sweep : obs[i].group_offered = Sweep[k]
      BY <2>3 DEF ProgressInv, Of
    <3>2. \A i \in DOMAIN obs' : (i \in DOMAIN obs /\ obs'[i] = obs[i]) \/ obs'[i] = o
      BY <2>1
    <3> QED
      BY <2>2, <3>1, <3>2 DEF Of
  <2> QED
    BY <1>1, <1>6, <2>5, <2>6, <2>9, <2>10, <2>11, <2>12 DEF ProgressInv
<1>7. CASE probe_default_detailed \/ probe_realistic_detailed \/ probe_group_detailed
  <2>1. Next /\ phase = "sweep"
    BY <1>7 DEF Next, probe_default_detailed, probe_realistic_detailed, probe_group_detailed
  <2> QED
    BY <1>1, <1>6, <2>1, StepShape
<1> QED
  BY <1>2, <1>3, <1>4, <1>5, <1>7 DEF Next

LEMMA ProgressInvariant == Spec => []ProgressInv
BY InitProgress, StepProgress, PTL DEF Spec

\* For every sweep and repeat count: a finished scan of a name that resolved
\* has run each probe exactly `passes` times, and none when it is below one.
THEOREM SweepRunsToItsEnd == Spec => []SweepIsComplete
<1>1. ProgressInv => SweepIsComplete
  <2> SUFFICES ASSUME ProgressInv, phase = "done", Resolved, NEW k \in DOMAIN Sweep
               PROVE  Cardinality(Of(obs, k)) = IF passes > 0 THEN passes ELSE 0
    BY DEF SweepIsComplete, Of
  <2>1. passes \in Int /\ step = 1 /\ index = IF passes > 0 THEN passes ELSE 0
    BY WorldAssumption DEF ProgressInv, TypeOK
  <2>2. k \in Nat /\ ~(k < 1)
    BY SweepType, GroupsAssumption
  <2> QED
    BY <2>1, <2>2 DEF ProgressInv
<1> QED
  BY <1>1, ProgressInvariant, PTL

-----------------------------------------------------------------------------
(* The report of a finished scan                                           *)

ReportInv == AnswersInv /\ ProgressInv

\* A row says not_observed of a group exactly if no attempt got an answer.
LEMMA SilentCell ==
  ASSUME NEW seq, NEW p \in RowPeers(seq), NEW g \in RowGroups(seq, p)
  PROVE  /\ support_matrix(seq)[p][g] \in States
         /\ support_matrix(seq)[p][g] = "not_observed"
            <=> \A i \in Attempts(seq, p, g) : Support(seq[i]) = "not_observed"
<1> DEFINE cell == support_matrix(seq)[p][g]
<1>1. PICK k \in Attempts(seq, p, g) : cell = Support(seq[k])
  BY CellWitness
<1>2. \A i \in Attempts(seq, p, g) : Rank[Support(seq[i])] <= Rank[cell]
  BY CellWitness
<1>3. \A o : Support(o) \in CellStates
  BY SupportType
<1>4. cell \in CellStates
  BY <1>1, <1>3
<1> HIDE DEF cell
<1>5. \A c \in CellStates : Rank[c] <= Rank["not_observed"] => c = "not_observed"
  BY DEF CellStates, Rank
<1> QED
  BY <1>1, <1>2, <1>3, <1>4, <1>5 DEF cell, CellStates, States, Rank

\* unseen, read off the observations instead of the matrix.
LEMMA UnseenAttempts ==
  ASSUME NEW seq, NEW g
  PROVE  g \in unseen(seq)
         <=> /\ \E i \in DOMAIN seq : GroupProbe(seq[i]) /\ seq[i].group_offered = g
             /\ \A i \in DOMAIN seq : GroupProbe(seq[i]) /\ seq[i].group_offered = g
                  => Support(seq[i]) = "not_observed"
<1>1. \A i \in DOMAIN seq : GroupProbe(seq[i]) /\ seq[i].group_offered = g =>
        /\ peer_key(seq[i]) \in RowPeers(seq)
        /\ g \in RowGroups(seq, peer_key(seq[i]))
        /\ i \in Attempts(seq, peer_key(seq[i]), g)
  BY DEF RowPeers, RowGroups, Attempts
<1>2. (\E i \in DOMAIN seq : GroupProbe(seq[i]) /\ seq[i].group_offered = g)
        <=> g \in UNION { RowGroups(seq, p) : p \in RowPeers(seq) }
  BY <1>1 DEF RowPeers, RowGroups
<1>3. ASSUME \A p \in RowPeers(seq) : g \in RowGroups(seq, p) =>
               support_matrix(seq)[p][g] = "not_observed",
             NEW i \in DOMAIN seq, GroupProbe(seq[i]), seq[i].group_offered = g
      PROVE  Support(seq[i]) = "not_observed"
  BY <1>1, <1>3, SilentCell
<1>4. ASSUME \A i \in DOMAIN seq : GroupProbe(seq[i]) /\ seq[i].group_offered = g
               => Support(seq[i]) = "not_observed",
             NEW p \in RowPeers(seq), g \in RowGroups(seq, p)
      PROVE  support_matrix(seq)[p][g] = "not_observed"
  <2>1. \A i \in Attempts(seq, p, g) : Support(seq[i]) = "not_observed"
    BY <1>4 DEF Attempts
  <2> QED
    BY <1>4, <2>1, SilentCell
<1> QED
  BY <1>2, <1>3, <1>4 DEF unseen

\* The support an observation counts for is an answer exactly if an
\* undisturbed connection reached a member that answers at all, or the local
\* client had no TLS version to offer.
LEMMA SupportIsAnAnswer ==
  ASSUME AnswersInv, NEW i \in DOMAIN obs, GroupProbe(obs[i])
  PROVE  /\ i \in DOMAIN answered
         /\ Support(obs[i]) # "not_observed"
            <=> \/ Undisturbed(i) /\ answered[i].stack.speaks # "nothing"
                \/ answered[i].fault = "no_protocols"
<1> DEFINE o == obs[i]
           a == answered[i]
<1>1. Support(o) # "not_observed" <=> o.outcome \in Refusals \/ succeeded(o)
  BY DEF Support, succeeded, Refusals
<1>2. i \in DOMAIN answered
  BY GroupAnswer
<1>3. CASE ~Undisturbed(i)
  BY <1>1, <1>2, <1>3, GroupAnswer DEF Undisturbed
<1>4. CASE Undisturbed(i) /\ a.stack.speaks = "nothing"
  <2>1. o.outcome \in {"connect_refused", "timeout"}
    BY <1>4, GroupAnswer DEF Undisturbed
  <2> QED
    BY <1>1, <1>2, <1>4, <2>1 DEF Refusals, succeeded, Undisturbed, None
<1>5. CASE Undisturbed(i) /\ a.stack.speaks # "nothing"
  <2>1. o.outcome \in Refusals \/ succeeded(o)
    BY <1>5, GroupAnswer DEF Undisturbed
  <2> QED
    BY <1>1, <1>2, <1>5, <2>1
<1> QED
  BY <1>2, <1>3, <1>4, <1>5

\* After a scan that completed a handshake every group has been probed.
LEMMA EveryGroupProbed ==
  ASSUME ReportInv, phase = "done", reachable(obs), NEW g \in ToSet(Groups)
  PROVE  g \notin Sentinels /\ \E i \in DOMAIN obs : obs[i].group_offered = g
<1>1. PICK n \in DOMAIN Groups : g = Groups[n]
  BY DEF ToSet
<1>2. n + 2 \in DOMAIN Sweep /\ Sweep[n + 2] = g
  BY <1>1, GroupsAssumption DEF Sweep
<1>3. g \notin Sentinels
  BY <1>1, GroupsAssumption
<1>4. PICK r \in DOMAIN obs : succeeded(obs[r])
  BY DEF reachable
<1>5. Resolved
  <2>1. obs # <<NotResolved>>
    BY <1>4 DEF NotResolved, succeeded
  <2> QED
    BY <2>1 DEF ReportInv, ProgressInv
<1>6. PICK k \in DOMAIN Sweep : r \in Of(obs, k)
  BY <1>5 DEF ReportInv, ProgressInv
<1>7. /\ index = (IF passes > 0 THEN passes ELSE 0) /\ step = 1 /\ passes \in Int
      /\ \A j \in DOMAIN Sweep :
           /\ IsFiniteSet(Of(obs, j))
           /\ Cardinality(Of(obs, j)) = index + (IF j < step THEN 1 ELSE 0)
  BY <1>5, WorldAssumption DEF ReportInv, ProgressInv, TypeOK
<1>8. \A j \in DOMAIN Sweep : j \in Nat /\ ~(j < 1)
  BY SweepType, GroupsAssumption
<1>9. \A j \in DOMAIN Sweep : IsFiniteSet(Of(obs, j)) /\ Cardinality(Of(obs, j)) = index
  <2>1. index + 0 = index
    BY <1>7
  <2> QED
    BY <1>7, <1>8, <2>1
<1>10. index # 0
  BY <1>6, <1>9, FS_EmptySet
<1>11. Of(obs, n + 2) # {}
  BY <1>2, <1>9, <1>10, FS_EmptySet
<1> QED
  BY <1>2, <1>3, <1>11 DEF Of

LEMMA ReportInvImplies == ReportInv => OmissionsHaveCause
<1> DEFINE Text == render_endpoint_evidence(obs)[1]
           Shown(text, g) == \/ g \in text.not_observed
                             \/ \E p \in DOMAIN text.rows : \E s \in States : g \in text.rows[p][s]
<1>1. SUFFICES ASSUME ReportInv, phase = "done", reachable(obs), NEW g \in ToSet(Groups)
               PROVE  /\ g \in unseen(obs) <=> ~(Answered(g) \/ Unoffered(g))
                      /\ ~Shown(Text, g) =>
                           \/ Unoffered(g)
                           \/ \E k \in DOMAIN answered :
                                /\ obs[k].group_offered = g /\ Undisturbed(k)
                                /\ ~Accepts(answered[k].stack, GroupHello(g))
  <2>1. ~reachable(obs) => DOMAIN render_endpoint_evidence(obs) = {}
    BY DEF render_endpoint_evidence
  <2>2. reachable(obs) => /\ DOMAIN render_endpoint_evidence(obs) = {1}
                          /\ Text.not_observed = unseen(obs)
    BY DEF render_endpoint_evidence
  <2> HIDE DEF Text
  <2> QED
    BY <2>1, <2>2 DEF OmissionsHaveCause, Text
<1>2. /\ Text.not_observed = unseen(obs)
      /\ Text.rows = [p \in peers(obs) |-> _support_row(obs, p)]
  BY <1>1 DEF render_endpoint_evidence
<1>3. AnswersInv /\ g \notin Sentinels /\ \E i \in DOMAIN obs : obs[i].group_offered = g
  BY <1>1, EveryGroupProbed DEF ReportInv
<1>4. \A i \in DOMAIN obs : obs[i].group_offered = g => GroupProbe(obs[i])
  BY <1>3 DEF GroupProbe
<1>5. \A i \in DOMAIN obs : obs[i].group_offered = g =>
        /\ i \in DOMAIN answered
        /\ Support(obs[i]) # "not_observed"
           <=> \/ Undisturbed(i) /\ answered[i].stack.speaks # "nothing"
               \/ answered[i].fault = "no_protocols"
  BY <1>3, <1>4, SupportIsAnAnswer
<1>6. DOMAIN answered \subseteq DOMAIN obs
  <2>1. obs \in Seq(Observation) /\ answered \in Seq(Connection)
    BY <1>3 DEF AnswersInv, TypeOK, Connection
  <2>2. answered = <<>> \/ Len(obs) = Len(answered)
    BY <1>3 DEF AnswersInv
  <2> QED
    BY <2>1, <2>2
<1>7. g \in unseen(obs) <=> ~(Answered(g) \/ Unoffered(g))
  BY <1>3, <1>4, <1>5, <1>6, UnseenAttempts DEF Answered, Unoffered
<1>8. ASSUME ~Shown(Text, g), ~Unoffered(g)
      PROVE  \E k \in DOMAIN answered :
               /\ obs[k].group_offered = g /\ Undisturbed(k)
               /\ ~Accepts(answered[k].stack, GroupHello(g))
  <2>1. Answered(g)
    BY <1>2, <1>7, <1>8
  <2>2. PICK k \in DOMAIN answered :
          /\ obs[k].group_offered = g
          /\ Undisturbed(k) /\ answered[k].stack.speaks # "nothing"
    BY <2>1 DEF Answered
  <2>3. k \in DOMAIN obs /\ GroupProbe(obs[k])
    BY <1>4, <1>6, <2>2
  <2>4. SUFFICES ASSUME Accepts(answered[k].stack, GroupHello(g)) PROVE FALSE
    BY <2>2
  <2> DEFINE p == answered[k].stack.cert
  <2>5. obs[k].peer = p /\ p \in Certs
    BY <1>3, <2>2, <2>3, <2>4, GroupAnswer DEF Stack, Undisturbed
  <2>6. p \in peers(obs) /\ peer_key(obs[k]) = p
    BY <2>3, <2>5, WorldAssumption DEF peers, peer_key
  <2> HIDE DEF p
  <2>7. p \in RowPeers(obs) /\ g \in RowGroups(obs, p)
    BY <2>2, <2>3, <2>6 DEF RowPeers, RowGroups
  <2> DEFINE cell == support_matrix(obs)[p][g]
  <2>8. cell \in States
    BY <2>7, SilentCell
  <2>9. g \in _support_row(obs, p)[cell]
    BY <2>7, <2>8 DEF _support_row
  <2> HIDE DEF Text, cell
  <2>10. p \in DOMAIN Text.rows /\ Text.rows[p] = _support_row(obs, p)
    BY <1>2, <2>6
  <2> QED
    BY <1>8, <2>8, <2>9, <2>10
<1> HIDE DEF Text, Shown
<1> QED
  BY <1>7, <1>8

\* For every sweep, pool and path: the report of a reachable address says NOT
\* OBSERVED of exactly the groups of which every probe went unanswered and
\* none was refused by the local client for want of a TLS version; and it is
\* silent only about a group that a peer declined or such a probe was about.
THEOREM ReportOmissionsHaveCause == Spec => []OmissionsHaveCause
<1>1. AnswersInv /\ ProgressInv => OmissionsHaveCause
  BY ReportInvImplies DEF ReportInv
<1> QED
  BY <1>1, AnswersInvariant, ProgressInvariant, PTL
=============================================================================
