-------------------------- MODULE Discovery_proofs --------------------------
(***************************************************************************)
(* Proofs about the search for an OpenSSL, for every machine, every order  *)
(* of candidates and every run that may time out.  They are about the      *)
(* steps of Discovery; CommandLine_proofs applies them to a run of the     *)
(* command.                                                                *)
(***************************************************************************)
EXTENDS Discovery, TLAPS

DiscoveryStep ==
  \/ \E path : Discover(path)
  \/ Skip \/ Inspect
  \/ \E require \in BOOLEAN : Settle(require)

Triple == Nat \X Nat \X Nat

-----------------------------------------------------------------------------
(* Versions                                                                *)

LEMMA BelowIsLexical ==
  ASSUME NEW v \in Triple, NEW w \in Triple
  PROVE  Below(v, w) <=> \/ v[1] < w[1]
                         \/ v[1] = w[1] /\ v[2] < w[2]
                         \/ v[1] = w[1] /\ v[2] = w[2] /\ v[3] < w[3]
<1>1. /\ 1 .. 1 - 1 = {} /\ 1 .. 2 - 1 = {1} /\ 1 .. 3 - 1 = {1, 2} /\ 1 .. 3 = {1, 2, 3}
  OBVIOUS
<1> QED
  BY <1>1 DEF Below

\* Versions are totally ordered.
LEMMA BelowOrders ==
  ASSUME NEW u \in Triple, NEW v \in Triple, NEW w \in Triple
  PROVE  /\ ~Below(u, u)
         /\ Below(u, v) /\ ~Below(w, v) => Below(u, w) \/ Below(v, w) \/ w = v
         /\ ~Below(v, u) /\ Below(v, w) => ~Below(w, u) /\ u # w
<1>1. /\ \A i \in {1, 2, 3} : u[i] \in Nat /\ v[i] \in Nat /\ w[i] \in Nat
      /\ w = <<w[1], w[2], w[3]>> /\ v = <<v[1], v[2], v[3]>>
  BY DEF Triple
<1> QED
  BY <1>1, BelowIsLexical

-----------------------------------------------------------------------------
(* The invariant                                                           *)

Wanted == { g.name : g \in BY_NAME }
KnownAt(i) == machine.files[candidates[i]].knows

\* info is what inspecting the i-th candidate gave: it is credited with every
\* group of the catalog it can offer, and with others by timeout only.
Inspected(i, info) ==
  /\ Usable(i)
  /\ info.path = candidates[i] /\ info.version = VersionAt(i)
  /\ Wanted \cap KnownAt(i) \subseteq info.groups
  /\ \A g \in info.groups \ KnownAt(i) : <<i, g>> \in cut

\* The newest of the clients seen so far, and of equally new ones the first.
NewestSoFar(i) ==
  \A j \in 1 .. tried : Usable(j) =>
    /\ ~Below(VersionAt(i), VersionAt(j))
    /\ j < i => VersionAt(j) # VersionAt(i)

DiscoveryInv ==
  /\ VersionsRead(machine)
  /\ discovery \in {"idle", "searching", "found", "unusable"}
  /\ Len(candidates) \in Nat /\ DOMAIN candidates = 1 .. Len(candidates)
  /\ tried \in 0 .. Len(candidates)
  /\ \A c \in cut : c[1] \in 1 .. tried
  /\ discovery = "idle" => candidates = <<>> /\ best = <<>>
  /\ best = <<>> /\ discovery # "found" => \A j \in 1 .. tried : ~Usable(j)
  /\ best # <<>> => \E i \in 1 .. tried :
       /\ Inspected(i, best[1])
       /\ discovery # "found" => NewestSoFar(i)
  /\ discovery # "found" => \A j \in 1 .. tried : ~Recent(j)
  /\ client # <<>> <=> discovery = "found"
  /\ discovery = "unusable" => tried = Len(candidates)
  /\ discovery = "found" => \E i \in 1 .. tried :
       /\ Inspected(i, client[1])
       /\ \/ Recent(i) /\ \A j \in 1 .. tried : j < i => ~Recent(j)
          \/ /\ tried = Len(candidates)
             /\ \A j \in 1 .. tried : ~Recent(j)
             /\ NewestSoFar(i)

LEMMA DiscoverInitInv == DiscoverInit /\ VersionsRead(machine) => DiscoveryInv
<1> SUFFICES ASSUME DiscoverInit, VersionsRead(machine) PROVE DiscoveryInv
  OBVIOUS
<1>1. /\ discovery = "idle" /\ candidates = <<>> /\ tried = 0
      /\ best = <<>> /\ client = <<>> /\ cut = {}
  BY DEF DiscoverInit
<1> QED
  BY <1>1 DEF DiscoveryInv

-----------------------------------------------------------------------------
(* The steps                                                               *)

\* What has been learned of the candidates already tried is not unlearned.
LEMMA LearnedStays ==
  ASSUME DiscoveryInv, machine' = machine, candidates' = candidates,
         cut \subseteq cut', \A c \in cut' \ cut : c[1] \notin 1 .. tried,
         NEW i \in 1 .. tried
  PROVE  /\ VersionAt(i)' = VersionAt(i) /\ KnownAt(i)' = KnownAt(i)
         /\ Usable(i)' <=> Usable(i)
         /\ Recent(i)' <=> Recent(i)
         /\ \A info : Inspected(i, info) => Inspected(i, info)'
<1>1. VersionAt(i)' = VersionAt(i) /\ KnownAt(i)' = KnownAt(i)
  BY DEF VersionAt, KnownAt
<1>2. <<i, "version">> \in cut' <=> <<i, "version">> \in cut
  OBVIOUS
<1>3. Usable(i)' <=> Usable(i)
  BY <1>2 DEF Usable, Runnable
<1>4. Recent(i)' <=> Recent(i)
  BY <1>1, <1>3 DEF Recent
<1> QED
  BY <1>1, <1>3, <1>4 DEF Inspected

LEMMA Positions ==
  ASSUME DiscoveryInv
  PROVE  /\ Len(candidates) \in Nat /\ DOMAIN candidates = 1 .. Len(candidates)
         /\ tried \in Nat /\ tried <= Len(candidates) /\ 1 .. tried \subseteq DOMAIN candidates
         /\ \E n \in Nat : n = tried + 1
<1>1. /\ Len(candidates) \in Nat /\ DOMAIN candidates = 1 .. Len(candidates)
      /\ tried \in 0 .. Len(candidates)
  BY DEF DiscoveryInv
<1> QED
  BY <1>1

LEMMA DiscoverInv == ASSUME DiscoveryInv, NEW path, Discover(path) PROVE DiscoveryInv'
<1>1. /\ UNCHANGED <<machine, tried, best, client, cut>>
      /\ discovery' = "searching" /\ candidates = <<>> /\ tried = 0 /\ cut = {}
      /\ best = <<>> /\ client = <<>>
  BY DEF Discover, DiscoveryInv
<1> DEFINE T == {path, machine.env, machine.which} \cup { PREFIXES[i] : i \in DOMAIN PREFIXES }
<1>2. candidates' \in Seq(T)
  <2>1. {path, machine.env, machine.which} \subseteq T /\ PREFIXES \in Seq(T)
    BY DEF PREFIXES
  <2> HIDE DEF T
  <2>2. \A p \in T : Given(p) \in Seq(T)
    BY DEF Given
  <2>3. Given(path) \in Seq(T) /\ Given(machine.env) \in Seq(T) /\ Given(machine.which) \in Seq(T)
    BY <2>1, <2>2
  <2> QED
    BY <2>1, <2>3 DEF Discover
<1> HIDE DEF T
<1>3. Len(candidates') \in Nat /\ DOMAIN candidates' = 1 .. Len(candidates')
  BY <1>2
<1> QED
  BY <1>1, <1>3 DEF DiscoveryInv

LEMMA SkipInv == DiscoveryInv /\ Skip => DiscoveryInv'
<1> SUFFICES ASSUME DiscoveryInv, Skip PROVE DiscoveryInv'
  OBVIOUS
<1>1. PICK n \in Nat : n = tried + 1
  BY Positions
<1>2. /\ UNCHANGED <<machine, discovery, candidates, best, client, cut>>
      /\ discovery = "searching" /\ tried' = n /\ tried' \in 0 .. Len(candidates)
      /\ ~Runnable(candidates[n]) /\ tried \in Nat
  BY <1>1 DEF Skip, DiscoveryInv
<1>3. \A i \in 1 .. tried :
        /\ VersionAt(i)' = VersionAt(i) /\ (Usable(i)' <=> Usable(i)) /\ (Recent(i)' <=> Recent(i))
        /\ \A info : Inspected(i, info) => Inspected(i, info)'
  BY <1>2, LearnedStays
<1>4. ~Usable(n)' /\ ~Recent(n)'
  BY <1>2 DEF Usable, Recent, Runnable
<1>5. \A j \in 1 .. tried' : j \in 1 .. tried \/ j = n
  BY <1>1, <1>2
<1>6. ASSUME NEW i \in 1 .. tried, NewestSoFar(i) PROVE NewestSoFar(i)'
  BY <1>3, <1>4, <1>5, <1>6 DEF NewestSoFar
<1>7. \A j \in 1 .. tried' : ~Recent(j)'
  BY <1>2, <1>3, <1>4, <1>5 DEF DiscoveryInv
<1>8. best # <<>> => \E i \in 1 .. tried' : Inspected(i, best[1])' /\ NewestSoFar(i)'
  <2> SUFFICES ASSUME best # <<>>
               PROVE  \E i \in 1 .. tried' : Inspected(i, best[1])' /\ NewestSoFar(i)'
    OBVIOUS
  <2>1. PICK i \in 1 .. tried : Inspected(i, best[1]) /\ NewestSoFar(i)
    BY <1>2 DEF DiscoveryInv
  <2>2. PICK info : info = best[1]
    OBVIOUS
  <2>3. Inspected(i, info)' /\ best' = best
    BY <1>2, <1>3, <2>1, <2>2
  <2>4. i \in 1 .. tried' /\ Inspected(i, best[1])' /\ NewestSoFar(i)'
    BY <1>1, <1>2, <1>6, <2>1, <2>2, <2>3 DEF Inspected
  <2> QED
    BY <2>4
<1>9. best = <<>> => \A j \in 1 .. tried' : ~Usable(j)'
  BY <1>2, <1>3, <1>4, <1>5 DEF DiscoveryInv
<1> QED
  BY <1>1, <1>2, <1>7, <1>8, <1>9 DEF DiscoveryInv

\* What an inspection gives, and what it does not give.
LEMMA InspectionGives ==
  ASSUME DiscoveryInv, NEW n \in Nat, n = tried + 1, NEW late,
         Runnable(candidates[n]), machine' = machine, candidates' = candidates,
         cut' = cut \cup { <<n, run>> : run \in late },
         NEW info, info = _inspect(candidates[n], late)
  PROVE  /\ Usable(n)' <=> info # <<>>
         /\ info # <<>> => Inspected(n, info[1])' /\ VersionAt(n) \in Triple
<1> DEFINE b == machine.files[candidates[n]]
<1>1. \A run : <<n, run>> \in cut' <=> run \in late
  <2>1. tried \in Nat /\ \A c \in cut : c[1] \in 1 .. tried
    BY Positions DEF DiscoveryInv
  <2>2. \A run : <<n, run>> \notin cut
    BY <2>1
  <2> QED
    BY <2>2
<1>2. Usable(n)' <=> b.version # <<>> /\ "version" \notin late
  BY <1>1 DEF Usable, Runnable
<1>3. info # <<>> <=> b.version # <<>> /\ "version" \notin late
  BY DEF _inspect
<1>4. ASSUME info # <<>>
      PROVE  Inspected(n, info[1])' /\ VersionAt(n) \in Triple
  <2>1. /\ info[1].path = candidates[n] /\ info[1].version = b.version
        /\ info[1].groups = detect_groups(b, late)
    BY <1>4 DEF _inspect
  <2>2. /\ Wanted \cap b.knows \subseteq detect_groups(b, late)
        /\ \A g \in detect_groups(b, late) \ b.knows : g \in late
    BY DEF detect_groups, _group_accepted, Wanted
  <2>3. VersionAt(n) \in Triple
    BY <1>3, <1>4 DEF VersionAt, Runnable, DiscoveryInv, VersionsRead, Triple
  <2>4. /\ info[1].path = candidates[n]' /\ info[1].version = VersionAt(n)'
        /\ Wanted \cap KnownAt(n)' \subseteq info[1].groups
        /\ \A g \in info[1].groups \ KnownAt(n)' : <<n, g>> \in cut'
    BY <1>1, <2>1, <2>2 DEF VersionAt, KnownAt
  <2>5. Usable(n)'
    BY <1>2, <1>3, <1>4
  <2> QED
    BY <2>3, <2>4, <2>5 DEF Inspected
<1> QED
  BY <1>2, <1>3, <1>4

LEMMA InspectInv == DiscoveryInv /\ Inspect => DiscoveryInv'
<1> SUFFICES ASSUME DiscoveryInv, Inspect PROVE DiscoveryInv'
  OBVIOUS
<1>1. PICK n \in Nat : n = tried + 1
  BY Positions
<1>2. PICK late \in SUBSET machine.slow :
        /\ Consider(_inspect(candidates[n], late))
        /\ cut' = cut \cup { <<n, run>> : run \in late }
  BY <1>1 DEF Inspect
<1>3. PICK info : info = _inspect(candidates[n], late)
  OBVIOUS
<1>4. /\ UNCHANGED <<machine, candidates>> /\ discovery = "searching" /\ tried' = n
      /\ tried' \in 0 .. Len(candidates) /\ Runnable(candidates[n]) /\ tried \in Nat
      /\ client = <<>> /\ n \in 1 .. Len(candidates)
  BY <1>1 DEF Inspect, DiscoveryInv
<1>5. \A i \in 1 .. tried :
        /\ VersionAt(i)' = VersionAt(i) /\ (Usable(i)' <=> Usable(i)) /\ (Recent(i)' <=> Recent(i))
        /\ \A x : Inspected(i, x) => Inspected(i, x)'
  <2>1. cut \subseteq cut' /\ \A c \in cut' \ cut : c[1] \notin 1 .. tried
    BY <1>1, <1>2, <1>4
  <2> QED
    BY <1>4, <2>1, LearnedStays
<1>6. /\ Usable(n)' <=> info # <<>>
      /\ info # <<>> => Inspected(n, info[1])' /\ VersionAt(n) \in Triple
  BY <1>1, <1>2, <1>3, <1>4, InspectionGives
<1>7. VersionAt(n)' = VersionAt(n)
  BY <1>4 DEF VersionAt
<1>8. info # <<>> => info[1].version = VersionAt(n)
  BY <1>6, <1>7 DEF Inspected
<1>9. Recent(n)' <=> info # <<>> /\ meets_minimum(info[1])
  BY <1>6, <1>7, <1>8 DEF Recent, meets_minimum
<1>10. /\ \A j \in 1 .. tried' : j \in 1 .. tried \/ j = n
       /\ \A c \in cut' : c[1] \in 1 .. tried'
  BY <1>1, <1>2, <1>4 DEF DiscoveryInv
<1>11. \A j \in 1 .. tried : ~Recent(j)'
  BY <1>4, <1>5 DEF DiscoveryInv
<1>12. CASE info # <<>> /\ meets_minimum(info[1])
  <2>1. client' = info /\ discovery' = "found" /\ best' = best
    BY <1>2, <1>3, <1>12 DEF Consider
  <2>2. best' # <<>> => \E i \in 1 .. tried' : Inspected(i, best[1])'
    <3> SUFFICES ASSUME best # <<>> PROVE \E i \in 1 .. tried' : Inspected(i, best[1])'
      BY <2>1
    <3>1. PICK i \in 1 .. tried : Inspected(i, best[1])
      BY <1>4 DEF DiscoveryInv
    <3>2. PICK x : x = best[1]
      OBVIOUS
    <3>3. Inspected(i, x)' /\ best'[1] = x
      BY <1>5, <2>1, <3>1, <3>2
    <3>4. i \in 1 .. tried' /\ Inspected(i, best[1])'
      BY <1>1, <1>4, <3>3 DEF Inspected
    <3> QED
      BY <3>4
  <2>3. Inspected(n, client[1])'
    <3>1. PICK x : x = info[1]
      OBVIOUS
    <3>2. Inspected(n, x)' /\ client'[1] = x
      BY <1>6, <1>12, <2>1, <3>1 DEF Inspected
    <3> QED
      BY <3>2 DEF Inspected
  <2>4. /\ n \in 1 .. tried' /\ Recent(n)'
        /\ \A j \in 1 .. tried' : j < n => ~Recent(j)'
    BY <1>1, <1>4, <1>9, <1>10, <1>11, <1>12
  <2>5. VersionsRead(machine)'
    BY <1>4 DEF DiscoveryInv, VersionsRead
  <2>6. client' # <<>>
    BY <1>12, <2>1
  <2> QED
    BY <1>4, <1>10, <2>1, <2>2, <2>3, <2>4, <2>5, <2>6 DEF DiscoveryInv
<1>13. CASE ~(info # <<>> /\ meets_minimum(info[1]))
  <2>1. /\ discovery' = discovery /\ client' = client
        /\ best' = IF info # <<>> /\ (best = <<>> \/ Below(best[1].version, info[1].version))
                   THEN info ELSE best
    BY <1>2, <1>3, <1>13 DEF Consider
  <2>2. \A j \in 1 .. tried' : ~Recent(j)'
    BY <1>9, <1>10, <1>11, <1>13
  <2>3. \A j \in 1 .. tried : Usable(j) => VersionAt(j) \in Triple
    BY DEF DiscoveryInv, VersionsRead, Usable, Runnable, VersionAt, Triple
  <2>4. best' = <<>> => \A j \in 1 .. tried' : ~Usable(j)'
    BY <1>4, <1>5, <1>6, <1>10, <2>1 DEF DiscoveryInv
  <2>5. ASSUME info # <<>>, best = <<>>
        PROVE  Inspected(n, best[1])' /\ NewestSoFar(n)'
    <3>1. \A j \in 1 .. tried : ~Usable(j)'
      BY <1>4, <1>5, <2>5 DEF DiscoveryInv
    <3>2. ~Below(VersionAt(n), VersionAt(n))
      BY <1>6, <2>5, BelowOrders
    <3>3. NewestSoFar(n)'
      BY <1>7, <1>10, <3>1, <3>2, <1>4 DEF NewestSoFar
    <3>4. PICK x : x = info[1]
      OBVIOUS
    <3>5. Inspected(n, x)' /\ best'[1] = x
      BY <1>6, <2>1, <2>5, <3>4 DEF Inspected
    <3> QED
      BY <3>3, <3>5 DEF Inspected
  <2>6. ASSUME best # <<>>
        PROVE  \E i \in 1 .. tried' : Inspected(i, best[1])' /\ NewestSoFar(i)'
    <3>1. PICK i \in 1 .. tried : Inspected(i, best[1]) /\ NewestSoFar(i)
      BY <1>4, <2>6 DEF DiscoveryInv
    <3>2. best[1].version = VersionAt(i) /\ VersionAt(i) \in Triple
      BY <2>3, <3>1 DEF Inspected
    <3>3. CASE info # <<>> /\ Below(best[1].version, info[1].version)
      <4>1. Below(VersionAt(i), VersionAt(n)) /\ VersionAt(n) \in Triple
        BY <1>6, <1>8, <3>2, <3>3
      <4>2. ASSUME NEW j \in 1 .. tried, Usable(j)
            PROVE  ~Below(VersionAt(n), VersionAt(j)) /\ VersionAt(j) # VersionAt(n)
        <5>1. ~Below(VersionAt(i), VersionAt(j)) /\ VersionAt(j) \in Triple
          BY <2>3, <3>1, <4>2 DEF NewestSoFar
        <5> QED
          BY <3>2, <4>1, <5>1, BelowOrders
      <4>3. NewestSoFar(n)'
        BY <1>4, <1>5, <1>7, <1>10, <4>1, <4>2, BelowOrders DEF NewestSoFar
      <4>4. PICK x : x = info[1]
        OBVIOUS
      <4>5. Inspected(n, x)' /\ best'[1] = x
        BY <1>6, <2>1, <3>3, <4>4 DEF Inspected
      <4>6. n \in 1 .. tried' /\ Inspected(n, best[1])'
        BY <1>4, <4>5 DEF Inspected
      <4> QED
        BY <4>3, <4>6
    <3>4. CASE ~(info # <<>> /\ Below(best[1].version, info[1].version))
      <4>1. best' = best
        BY <2>1, <2>6, <3>4
      <4>2. PICK x : x = best[1]
        OBVIOUS
      <4>3. Inspected(i, x)' /\ best'[1] = x /\ i \in 1 .. tried' /\ i < n
        BY <1>1, <1>4, <1>5, <3>1, <4>1, <4>2
      <4>4. Usable(n)' => ~Below(VersionAt(i), VersionAt(n))
        BY <1>6, <1>8, <3>2, <3>4
      <4>5. NewestSoFar(i)'
        <5>1. ASSUME NEW j \in 1 .. tried', Usable(j)'
              PROVE  /\ ~Below(VersionAt(i)', VersionAt(j)')
                     /\ j < i => VersionAt(j)' # VersionAt(i)'
          <6>1. CASE j \in 1 .. tried
            BY <1>5, <3>1, <5>1, <6>1 DEF NewestSoFar
          <6>2. CASE j = n
            BY <1>5, <1>7, <4>3, <4>4, <5>1, <6>2
          <6> QED
            BY <1>10, <6>1, <6>2
        <5> QED
          BY <5>1 DEF NewestSoFar
      <4> QED
        BY <4>3, <4>5 DEF Inspected
    <3> QED
      BY <3>3, <3>4
  <2>7. best' # <<>> => \E i \in 1 .. tried' : Inspected(i, best[1])' /\ NewestSoFar(i)'
    BY <1>4, <2>1, <2>5, <2>6
  <2>8. VersionsRead(machine)'
    BY <1>4 DEF DiscoveryInv, VersionsRead
  <2> QED
    BY <1>4, <1>10, <2>1, <2>2, <2>4, <2>7, <2>8 DEF DiscoveryInv
<1> QED
  BY <1>12, <1>13

LEMMA SettleInv ==
  ASSUME DiscoveryInv, NEW require \in BOOLEAN, Settle(require)
  PROVE  DiscoveryInv'
<1>1. /\ UNCHANGED <<machine, candidates, tried, best, cut>>
      /\ discovery = "searching" /\ tried = Len(candidates) /\ client = <<>>
  BY DEF Settle, DiscoveryInv
<1>2. \A i \in 1 .. tried :
        /\ VersionAt(i)' = VersionAt(i) /\ (Usable(i)' <=> Usable(i)) /\ (Recent(i)' <=> Recent(i))
        /\ \A info : Inspected(i, info) => Inspected(i, info)'
  BY <1>1, LearnedStays
<1>3. /\ VersionsRead(machine)'
      /\ \A j \in 1 .. tried : ~Recent(j)'
      /\ \A c \in cut' : c[1] \in 1 .. tried'
      /\ Len(candidates') \in Nat /\ DOMAIN candidates' = 1 .. Len(candidates')
      /\ tried' \in 0 .. Len(candidates')
  BY <1>1, <1>2 DEF DiscoveryInv, VersionsRead
<1>4. \A i \in 1 .. tried : NewestSoFar(i) => NewestSoFar(i)'
  BY <1>1, <1>2 DEF NewestSoFar
<1>5. ASSUME best # <<>>
      PROVE  \E i \in 1 .. tried' : Inspected(i, best[1])' /\ NewestSoFar(i)'
  <2>1. PICK i \in 1 .. tried : Inspected(i, best[1]) /\ NewestSoFar(i)
    BY <1>1, <1>5 DEF DiscoveryInv
  <2>2. PICK x : x = best[1]
    OBVIOUS
  <2>3. Inspected(i, x)' /\ best'[1] = x /\ NewestSoFar(i)' /\ i \in 1 .. tried'
    BY <1>1, <1>2, <1>4, <2>1, <2>2
  <2> QED
    BY <2>3 DEF Inspected
<1>6. best = <<>> => \A j \in 1 .. tried : ~Usable(j)'
  BY <1>1, <1>2 DEF DiscoveryInv
<1>7. CASE best = <<>> \/ require
  <2>1. discovery' = "unusable" /\ client' = <<>>
    BY <1>1, <1>7 DEF Settle
  <2> QED
    BY <1>1, <1>3, <1>5, <1>6, <2>1 DEF DiscoveryInv
<1>8. CASE ~(best = <<>> \/ require)
  <2>1. discovery' = "found" /\ client' = best /\ best' = best /\ best # <<>>
    BY <1>1, <1>8 DEF Settle
  <2>2. PICK i \in 1 .. tried' : Inspected(i, best[1])' /\ NewestSoFar(i)'
    BY <1>5, <2>1
  <2>3. Inspected(i, client[1])'
    BY <2>1, <2>2 DEF Inspected
  <2> QED
    BY <1>1, <1>3, <2>1, <2>2, <2>3 DEF DiscoveryInv
<1> QED
  BY <1>7, <1>8

\* Every step of the search preserves its invariant.
LEMMA DiscoveryStepInv == DiscoveryInv /\ [DiscoveryStep]_discoveryVars => DiscoveryInv'
<1> SUFFICES ASSUME DiscoveryInv, [DiscoveryStep]_discoveryVars PROVE DiscoveryInv'
  OBVIOUS
<1>1. CASE UNCHANGED discoveryVars
  <2>1. UNCHANGED <<machine, discovery, candidates, tried, best, client, cut>>
    BY <1>1 DEF discoveryVars
  <2>2. \A i \in 1 .. tried :
          /\ VersionAt(i)' = VersionAt(i) /\ (Usable(i)' <=> Usable(i)) /\ (Recent(i)' <=> Recent(i))
          /\ \A info : Inspected(i, info) => Inspected(i, info)'
    BY <2>1, LearnedStays
  <2>3. /\ VersionsRead(machine)' /\ discovery' \in {"idle", "searching", "found", "unusable"}
        /\ \A c \in cut' : c[1] \in 1 .. tried'
        /\ Len(candidates') \in Nat /\ DOMAIN candidates' = 1 .. Len(candidates')
        /\ tried' \in 0 .. Len(candidates')
        /\ client' # <<>> <=> discovery' = "found"
        /\ discovery' = "unusable" => tried' = Len(candidates')
        /\ discovery' = "idle" => candidates' = <<>> /\ best' = <<>>
    BY <2>1 DEF DiscoveryInv, VersionsRead
  <2>4. \A i \in 1 .. tried : NewestSoFar(i) => NewestSoFar(i)'
    BY <2>1, <2>2 DEF NewestSoFar
  <2>5. ASSUME best # <<>>
        PROVE  \E i \in 1 .. tried' :
                 Inspected(i, best[1])' /\ (discovery' # "found" => NewestSoFar(i)')
    <3>1. PICK i \in 1 .. tried :
            Inspected(i, best[1]) /\ (discovery # "found" => NewestSoFar(i))
      BY <2>5 DEF DiscoveryInv
    <3>2. PICK x : x = best[1]
      OBVIOUS
    <3>3. /\ Inspected(i, x)' /\ best'[1] = x /\ i \in 1 .. tried'
          /\ discovery' # "found" => NewestSoFar(i)'
      BY <2>1, <2>2, <2>4, <3>1, <3>2
    <3> QED
      BY <3>3 DEF Inspected
  <2>6. ASSUME discovery = "found"
        PROVE  \E i \in 1 .. tried' :
                 /\ Inspected(i, client[1])'
                 /\ \/ Recent(i)' /\ \A j \in 1 .. tried' : j < i => ~Recent(j)'
                    \/ /\ tried' = Len(candidates')
                       /\ \A j \in 1 .. tried' : ~Recent(j)'
                       /\ NewestSoFar(i)'
    <3>1. PICK i \in 1 .. tried :
            /\ Inspected(i, client[1])
            /\ \/ Recent(i) /\ \A j \in 1 .. tried : j < i => ~Recent(j)
               \/ /\ tried = Len(candidates)
                  /\ \A j \in 1 .. tried : ~Recent(j)
                  /\ NewestSoFar(i)
      BY <2>6 DEF DiscoveryInv
    <3>2. PICK x : x = client[1]
      OBVIOUS
    <3>3. Inspected(i, x)' /\ client'[1] = x /\ i \in 1 .. tried'
      BY <2>1, <2>2, <3>1, <3>2
    <3>4. Inspected(i, client[1])'
      BY <3>3 DEF Inspected
    <3>5. \/ Recent(i)' /\ \A j \in 1 .. tried' : j < i => ~Recent(j)'
          \/ /\ tried' = Len(candidates')
             /\ \A j \in 1 .. tried' : ~Recent(j)'
             /\ NewestSoFar(i)'
      BY <2>1, <2>2, <2>4, <3>1
    <3> QED
      BY <3>3, <3>4, <3>5
  <2>7. best' = <<>> /\ discovery' # "found" => \A j \in 1 .. tried' : ~Usable(j)'
    BY <2>1, <2>2 DEF DiscoveryInv
  <2>8. discovery' # "found" => \A j \in 1 .. tried' : ~Recent(j)'
    BY <2>1, <2>2 DEF DiscoveryInv
  <2> QED
    BY <2>1, <2>3, <2>5, <2>6, <2>7, <2>8 DEF DiscoveryInv
<1> QED
  BY <1>1, DiscoverInv, SkipInv, InspectInv, SettleInv DEF DiscoveryStep

-----------------------------------------------------------------------------
(* What the invariant says of the client                                   *)

\* An old client is used only if it may be, and none is refused that may.
Permitted(require) ==
  /\ discovery = "found" => ~require \/ \E i \in DOMAIN candidates : Recent(i)
  /\ discovery = "unusable" => require \/ \A i \in DOMAIN candidates : ~Usable(i)

\* A new client is found by an inspection that knows it to be recent.
LEMMA InspectFinds ==
  ASSUME DiscoveryInv, Inspect, discovery' = "found"
  PROVE  \E i \in DOMAIN candidates' : Recent(i)'
<1>1. DiscoveryInv'
  BY InspectInv
<1>2. PICK i \in 1 .. tried' : Inspected(i, client[1])'
  BY <1>1 DEF DiscoveryInv
<1>3. PICK late \in SUBSET machine.slow : Consider(_inspect(candidates[tried + 1], late))
  BY DEF Inspect
<1>4. meets_minimum(client'[1])
  BY <1>3 DEF Consider, Inspect
<1>5. Usable(i)' /\ client'[1].version = VersionAt(i)'
  BY <1>2 DEF Inspected
<1>6. Recent(i)'
  BY <1>4, <1>5 DEF Recent, meets_minimum
<1>7. i \in DOMAIN candidates'
  <2>1. /\ Len(candidates') \in Nat /\ DOMAIN candidates' = 1 .. Len(candidates')
        /\ tried' \in 0 .. Len(candidates')
    BY <1>1 DEF DiscoveryInv
  <2> QED
    BY <2>1
<1> QED
  BY <1>6, <1>7

LEMMA DiscoveryPermits ==
  ASSUME DiscoveryInv, NEW require \in BOOLEAN, Permitted(require),
         (\E path : Discover(path)) \/ Skip \/ Inspect \/ Settle(require)
  PROVE  Permitted(require)'
<1>1. CASE (\E path : Discover(path)) \/ Skip
  BY <1>1 DEF Discover, Skip, Permitted
<1>2. CASE Inspect
  <2>1. discovery' # "unusable"
    BY <1>2 DEF Inspect, Consider
  <2> QED
    BY <1>2, <2>1, InspectFinds DEF Permitted
<1>3. CASE Settle(require)
  <2>1. CASE best = <<>> \/ require
    <3>1. discovery' = "unusable"
      BY <1>3, <2>1 DEF Settle
    <3>2. best = <<>> => \A i \in DOMAIN candidates' : ~Usable(i)'
      BY <1>3 DEF Settle, DiscoveryInv, Usable, Runnable
    <3> QED
      BY <2>1, <3>1, <3>2 DEF Permitted
  <2>2. CASE ~(best = <<>> \/ require)
    BY <1>3, <2>2 DEF Settle, Permitted
  <2> QED
    BY <2>1, <2>2
<1> QED
  BY <1>1, <1>2, <1>3

LEMMA PermittedStays ==
  ASSUME DiscoveryInv, NEW require \in BOOLEAN, Permitted(require), UNCHANGED discoveryVars
  PROVE  Permitted(require)'
<1>1. /\ UNCHANGED <<machine, discovery, candidates, tried, cut>>
      /\ DOMAIN candidates' = DOMAIN candidates
  BY DEF discoveryVars
<1>2. \A i \in DOMAIN candidates : Usable(i)' <=> Usable(i)
  BY <1>1 DEF Usable, Runnable
<1>3. \A i \in DOMAIN candidates : Recent(i)' <=> Recent(i)
  BY <1>1, <1>2 DEF Recent, VersionAt
<1> QED
  BY <1>1, <1>2, <1>3 DEF Permitted

LEMMA DiscoveryInvBest ==
  ASSUME DiscoveryInv, NEW require \in BOOLEAN, Permitted(require)
  PROVE  BestClientIsUsed(require)
<1>1. /\ DOMAIN candidates = 1 .. Len(candidates) /\ 1 .. tried \subseteq DOMAIN candidates
      /\ tried \in Nat /\ Len(candidates) \in Nat
  BY Positions
<1>2. ASSUME discovery = "found"
      PROVE  \E i \in DOMAIN candidates :
               /\ client # <<>> /\ client[1].path = candidates[i] /\ Usable(i)
               /\ \/ Recent(i) /\ \A j \in DOMAIN candidates : j < i => ~Recent(j)
                  \/ /\ ~require
                     /\ \A j \in DOMAIN candidates : ~Recent(j)
                     /\ \A j \in DOMAIN candidates : Usable(j) =>
                          /\ ~Below(VersionAt(i), VersionAt(j))
                          /\ j < i => VersionAt(j) # VersionAt(i)
  <2>1. PICK i \in 1 .. tried :
          /\ Inspected(i, client[1])
          /\ \/ Recent(i) /\ \A j \in 1 .. tried : j < i => ~Recent(j)
             \/ /\ tried = Len(candidates)
                /\ \A j \in 1 .. tried : ~Recent(j)
                /\ NewestSoFar(i)
    BY <1>2 DEF DiscoveryInv
  <2>2. client # <<>> /\ client[1].path = candidates[i] /\ Usable(i) /\ i \in DOMAIN candidates
    BY <1>1, <1>2, <2>1 DEF DiscoveryInv, Inspected
  <2>3. \A j \in DOMAIN candidates : j < i => j \in 1 .. tried
    BY <1>1
  <2>4. tried = Len(candidates) => DOMAIN candidates = 1 .. tried
    BY <1>1
  <2> QED
    BY <1>2, <2>1, <2>2, <2>3, <2>4 DEF NewestSoFar, Permitted
<1>3. ASSUME discovery = "unusable"
      PROVE  /\ \A i \in DOMAIN candidates : ~Recent(i)
             /\ require \/ \A i \in DOMAIN candidates : ~Usable(i)
  BY <1>1, <1>3 DEF DiscoveryInv, Permitted
<1> QED
  BY <1>2, <1>3 DEF BestClientIsUsed

LEMMA DiscoveryInvGroups == DiscoveryInv => GroupsAreTheClients
<1> SUFFICES ASSUME DiscoveryInv, client # <<>>
             PROVE  LET b == machine.files[client[1].path]
                    IN  /\ Wanted \cap b.knows \subseteq client[1].groups
                        /\ \A g \in client[1].groups \ b.knows :
                             \E i \in DOMAIN candidates :
                               candidates[i] = client[1].path /\ <<i, g>> \in cut
  BY DEF GroupsAreTheClients, Wanted
<1>1. PICK i \in 1 .. tried : Inspected(i, client[1])
  BY DEF DiscoveryInv
<1>2. i \in DOMAIN candidates /\ client[1].path = candidates[i]
  BY <1>1, Positions DEF Inspected
<1>3. /\ Wanted \cap KnownAt(i) \subseteq client[1].groups
      /\ \A g \in client[1].groups \ KnownAt(i) : <<i, g>> \in cut
      /\ KnownAt(i) = machine.files[client[1].path].knows
  BY <1>1, <1>2 DEF Inspected, KnownAt
<1> QED
  BY <1>2, <1>3
=============================================================================
