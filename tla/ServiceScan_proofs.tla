------------------------- MODULE ServiceScan_proofs -------------------------
(***************************************************************************)
(* Proofs about the scan of a service and its assessment, for every        *)
(* inventory entry, every deployment, sweep and disturbance: the evidence  *)
(* of each address is true of the pool behind it, and so is what the       *)
(* assessment concludes from it.                                           *)
(***************************************************************************)
EXTENDS ServiceScan, EndpointScan_proofs

-----------------------------------------------------------------------------
(* The evidence of one address                                             *)

\* What the observations of an address owe to the pool P behind it.
TrueOf(P, seq) ==
  /\ seq \in Seq(Observation)
  /\ \A i \in DOMAIN seq :
       /\ seq[i].peer # None => \E s \in P : s.cert = seq[i].peer
       /\ succeeded(seq[i]) => seq[i].peer # None
       /\ GroupProbe(seq[i]) => seq[i].group_offered \in ToSet(Groups)

\* What they owe to it when nothing was disturbed.
Faithful(P, seq) ==
  \A i \in DOMAIN seq : GroupProbe(seq[i]) =>
    \E s \in P : succeeded(seq[i]) <=> Accepts(s, GroupHello(seq[i].group_offered))

\* A scan that completed a handshake probed every group of the sweep.
Swept(seq) ==
  reachable(seq) =>
    \A g \in ToSet(Groups) : g \notin Sentinels /\ \E i \in DOMAIN seq : seq[i].group_offered = g

\* A connection was disturbed only if it was counted.
CountedInv == faults = 0 => \A i \in DOMAIN answered : Undisturbed(i)

LEMMA StepCounted == TypeOK /\ CountedInv /\ [Next]_vars => CountedInv'
<1> SUFFICES ASSUME TypeOK, CountedInv, [Next]_vars PROVE CountedInv'
  OBVIOUS
<1>1. CASE UNCHANGED vars
  BY <1>1 DEF vars, CountedInv, Undisturbed
<1>2. ASSUME UNCHANGED <<answered, faults>>
      PROVE  CountedInv'
  BY <1>2 DEF CountedInv, Undisturbed
<1>3. ASSUME NEW g, NEW hello, NEW s, NEW t, NEW f, Recorded(g, hello, s, t, f)
      PROVE  CountedInv'
  <2> DEFINE a == [stack |-> s, fault |-> f]
  <2>1. answered' = Append(answered, a) /\ a.fault = f
    BY <1>3 DEF Recorded, record
  <2>2. faults \in Nat /\ faults' = IF f = None THEN faults ELSE faults + 1
    BY <1>3, WorldAssumption DEF Recorded, TypeOK
  <2> HIDE DEF a
  <2>3. \A i \in DOMAIN answered' : (i \in DOMAIN answered /\ answered'[i] = answered[i]) \/ answered'[i] = a
    <3>1. answered \in Seq(Connection)
      BY DEF TypeOK, Connection
    <3> QED
      BY <2>1, <3>1
  <2> QED
    BY <2>1, <2>2, <2>3 DEF CountedInv, Undisturbed
<1> QED
  BY <1>1, <1>2, <1>3, StepShape

\* The invariant of the scan of the address under the cursor.
ScanInv == SupportInv /\ AnswersInv /\ ProgressInv /\ CountedInv

LEMMA StepScan == ScanInv /\ [Next]_vars => ScanInv'
BY StepSupport, StepAnswers, StepProgress, StepCounted DEF ScanInv, SupportInv

\* What one observation says of the connection behind it.
LEMMA ConnectionPeer ==
  ASSUME NEW P \in Pools, NEW o, NEW a, a.stack \in P, a.fault \in Faults \cup {None},
         FromConnection(o, a)
  PROVE  /\ o.peer # None => o.peer = a.stack.cert
         /\ succeeded(o) => o.peer # None
<1>1. PICK hello \in Hellos : \E t \in Prints(a.stack, hello, a.fault) :
        o = _result_from_output(o.group_offered, t)
  BY DEF FromConnection
<1>2. PICK t \in Prints(a.stack, hello, a.fault) : o = _result_from_output(o.group_offered, t)
  BY <1>1
<1>3. t \in Transcripts(a.stack, hello)
  BY <1>2 DEF Prints, Transcripts
<1>4. a.stack \in Stack /\ a.stack.cert \in Certs
  BY WorldAssumption DEF Stack
<1>5. TranscriptOf(a.stack, hello, t)
  BY <1>3, <1>4, TranscriptType
<1>6. o.outcome = OutcomeOf(t) /\ o.peer = t.cert
  BY <1>2 DEF _result_from_output
<1>7. succeeded(o) => t.completed
  <2>1. OutcomeOf(t) = "supported" => t.completed
    BY <1>5, SucceededMeansCompleted DEF TranscriptOf
  <2> QED
    BY <1>6, <2>1 DEF succeeded
<1> QED
  BY <1>4, <1>5, <1>6, <1>7, WorldAssumption DEF TranscriptOf

LEMMA ScanIsTrue ==
  ASSUME ScanInv
  PROVE  TrueOf(pool, obs)
<1>1. obs \in Seq(Observation) /\ pool \in Pools /\ answered \in Seq(Connection)
  BY DEF ScanInv, SupportInv, TypeOK, Connection
<1>2. CASE obs = <<NotResolved>>
  BY <1>1, <1>2 DEF TrueOf, NotResolved, succeeded, GroupProbe, Sentinels
<1>3. ASSUME obs # <<NotResolved>>, NEW i \in DOMAIN obs
      PROVE  /\ obs[i].peer # None => \E s \in pool : s.cert = obs[i].peer
             /\ succeeded(obs[i]) => obs[i].peer # None
             /\ GroupProbe(obs[i]) => obs[i].group_offered \in ToSet(Groups)
  <2>1. Len(obs) = Len(answered) /\ FromConnection(obs[i], answered[i])
    BY <1>3 DEF ScanInv, AnswersInv
  <2>2. answered[i].stack \in pool /\ answered[i].fault \in Faults \cup {None}
    <3>1. i \in DOMAIN answered
      BY <1>1, <2>1
    <3>2. answered[i] \in Connection
      BY <1>1, <3>1
    <3> QED
      BY <3>2 DEF Connection
  <2>3. /\ obs[i].peer # None => obs[i].peer = answered[i].stack.cert
        /\ succeeded(obs[i]) => obs[i].peer # None
    BY <1>1, <2>1, <2>2, ConnectionPeer
  <2>4. ASSUME GroupProbe(obs[i])
        PROVE  obs[i].group_offered \in ToSet(Groups)
    <3>1. Resolved
      BY <1>3 DEF ScanInv, ProgressInv
    <3>2. PICK k \in DOMAIN Sweep : obs[i].group_offered = Sweep[k]
      BY <3>1 DEF ScanInv, ProgressInv, Of
    <3>3. k > 2
      BY <2>4, <3>2, SweepType, GroupsAssumption DEF Sweep, GroupProbe, Sentinels
    <3>4. Sweep[k] = Groups[k - 2] /\ k - 2 \in DOMAIN Groups
      BY <3>3, SweepType, GroupsAssumption DEF Sweep
    <3> QED
      BY <3>2, <3>4 DEF ToSet
  <2> QED
    BY <2>2, <2>3, <2>4
<1> QED
  BY <1>1, <1>2, <1>3 DEF TrueOf

LEMMA ScanIsFaithful ==
  ASSUME ScanInv, faults = 0
  PROVE  Faithful(pool, obs)
<1> SUFFICES ASSUME NEW i \in DOMAIN obs, GroupProbe(obs[i])
             PROVE  \E s \in pool : succeeded(obs[i])
                                      <=> Accepts(s, GroupHello(obs[i].group_offered))
  BY DEF Faithful
<1>1. /\ i \in DOMAIN answered /\ answered[i].stack \in pool
      /\ Undisturbed(i) => (succeeded(obs[i])
           <=> Accepts(answered[i].stack, GroupHello(obs[i].group_offered)))
  BY GroupAnswer DEF ScanInv, Undisturbed
<1>2. Undisturbed(i)
  BY <1>1 DEF ScanInv, CountedInv
<1> QED
  BY <1>1, <1>2

LEMMA ScanIsSwept ==
  ASSUME ScanInv, phase = "done"
  PROVE  Swept(obs)
BY EveryGroupProbed DEF ScanInv, ReportInv, Swept

-----------------------------------------------------------------------------
(* The scan of the addresses, one after another                            *)

\* A scan that has just begun, whatever was disturbed before it.
Fresh ==
  /\ pool \in Pools /\ passes \in Repeats
  /\ phase = "resolve" /\ index = 0 /\ step = 1
  /\ obs = <<>> /\ answered = <<>> /\ faults \in 0 .. MaxFaults

LEMMA FreshScan == Fresh => ScanInv
<1> SUFFICES ASSUME Fresh PROVE ScanInv
  OBVIOUS
<1>1. 1 \in DOMAIN Sweep
  BY SweepType, GroupsAssumption, LenProperties
<1>2. TypeOK
  BY <1>1 DEF Fresh, TypeOK, Phases
<1>3. SupportInv /\ AnswersInv /\ CountedInv
  BY <1>2 DEF Fresh, SupportInv, AnswersInv, CountedInv
<1>4. Resolved /\ \A k : Of(obs, k) = {}
  BY DEF Fresh, Resolved, Of
<1>5. \A k \in DOMAIN Sweep :
        IsFiniteSet(Of(obs, k)) /\ Cardinality(Of(obs, k)) = index + (IF k < step THEN 1 ELSE 0)
  <2>1. \A k \in DOMAIN Sweep : k \in Nat /\ ~(k < 1)
    BY SweepType, GroupsAssumption
  <2>2. \A k : IsFiniteSet(Of(obs, k)) /\ Cardinality(Of(obs, k)) = 0
    BY <1>4, FS_EmptySet
  <2>3. index = 0 /\ step = 1
    BY DEF Fresh
  <2> QED
    BY <2>1, <2>2, <2>3
<1>6. ProgressInv
  BY <1>2, <1>4, <1>5 DEF Fresh, ProgressInv
<1> QED
  BY <1>3, <1>6 DEF ScanInv

LEMMA FreshNext == Fresh' => ScanInv'
BY FreshScan, PTL

\* What the evidence of address a owes to what is deployed there.
Sound(a) ==
  /\ TrueOf(PoolAt(world, a), evidence[a]) /\ Swept(evidence[a])
  /\ faults = 0 => Faithful(PoolAt(world, a), evidence[a])

ServiceInv ==
  /\ ScanInv
  /\ service \in Services /\ world \in Worlds
  /\ cursor \in Addresses(service, world)
  /\ pool = PoolAt(world, cursor)
  /\ \A a \in DOMAIN evidence : Sound(a)
  /\ result = <<>> => DOMAIN evidence = { a \in Addresses(service, world) : a < cursor }
  /\ result # <<>> =>
       /\ DOMAIN evidence = Addresses(service, world)
       /\ result = << assess(service, FrontEvidence(evidence), BackEvidence(evidence)),
                      Notes(evidence) >>

LEMMA WorldType ==
  ASSUME NEW s \in Services, NEW w \in Worlds, NEW a \in Addresses(s, w)
  PROVE  /\ PoolAt(w, a) \in Pools /\ RepeatAt(s, a) \in Repeats
         /\ Len(w.direct) \in Nat /\ DOMAIN w.direct = 1 .. Len(w.direct)
         /\ a \in Nat /\ a <= Len(w.direct) /\ (a = 0 => s.frontend)
<1>1. s \in Service /\ w.front \in Pools /\ w.direct \in Seq(Pools)
  BY ServiceAssumption DEF World
<1>2. Len(w.direct) \in Nat /\ DOMAIN w.direct = 1 .. Len(w.direct)
  BY <1>1
<1>3. a \in Nat /\ a <= Len(w.direct) /\ (a = 0 => s.frontend) /\ (a # 0 => a \in DOMAIN w.direct)
  BY <1>1, <1>2 DEF Addresses
<1>4. a # 0 => w.direct[a] \in Pools
  BY <1>1, <1>3
<1>5. PoolAt(w, a) \in Pools
  BY <1>1, <1>4 DEF PoolAt
<1>6. RepeatAt(s, a) \in Repeats
  BY <1>1 DEF RepeatAt, Service
<1> QED
  BY <1>2, <1>3, <1>5, <1>6

LEMMA InitService == ServiceInit => ServiceInv
<1> SUFFICES ASSUME ServiceInit PROVE ServiceInv
  OBVIOUS
<1>1. service \in Services /\ world \in Worlds /\ pool = PoolAt(world, cursor)
      /\ result = <<>> /\ DOMAIN evidence = {}
  BY DEF ServiceInit
<1>2. cursor \in Addresses(service, world)
  <2>1. world.direct \in Seq(Pools) /\ Len(world.direct) \in Nat
    BY ServiceAssumption DEF ServiceInit, World
  <2> QED
    BY <2>1 DEF ServiceInit, Addresses
<1>3. Fresh
  BY <1>1, <1>2, WorldType, WorldAssumption DEF ServiceInit, Fresh
<1>4. { a \in Addresses(service, world) : a < cursor } = {}
  <2>1. world.direct \in Seq(Pools) /\ Len(world.direct) \in Nat
    BY ServiceAssumption DEF ServiceInit, World
  <2> QED
    BY <2>1 DEF ServiceInit, Addresses
<1> QED
  BY <1>1, <1>2, <1>3, <1>4, FreshScan DEF ServiceInv

\* The evidence just stored is sound, and the rest stays so.
LEMMA StoredIsSound ==
  ASSUME ServiceInv, phase = "done", result = <<>>,
         evidence' = Store(evidence, cursor, obs),
         world' = world, faults' = faults
  PROVE  /\ DOMAIN evidence' = { a \in Addresses(service, world) : a <= cursor }
         /\ \A a \in DOMAIN evidence' : Sound(a)'
<1>1. DOMAIN evidence = { a \in Addresses(service, world) : a < cursor }
  BY DEF ServiceInv
<1>2. cursor \in Addresses(service, world) /\ \A a \in Addresses(service, world) : a \in Nat
  BY WorldType DEF ServiceInv
<1>3. /\ DOMAIN evidence' = DOMAIN evidence \cup {cursor} /\ evidence'[cursor] = obs
      /\ \A b \in DOMAIN evidence : b # cursor => evidence'[b] = evidence[b]
  BY DEF Store
<1>4. DOMAIN evidence' = { a \in Addresses(service, world) : a <= cursor }
  BY <1>1, <1>2, <1>3
<1>5. \A a \in DOMAIN evidence : evidence'[a] = evidence[a]
  BY <1>1, <1>2, <1>3
<1>6. ASSUME NEW a \in DOMAIN evidence
      PROVE  Sound(a)'
  BY <1>5 DEF ServiceInv, Sound
<1>7. ASSUME NEW a, a = cursor
      PROVE  Sound(a)'
  <2>1. TrueOf(pool, obs) /\ Swept(obs) /\ (faults = 0 => Faithful(pool, obs))
    BY ScanIsTrue, ScanIsFaithful, ScanIsSwept DEF ServiceInv
  <2>2. PoolAt(world, a)' = pool /\ evidence'[a] = obs
    BY <1>3, <1>7 DEF ServiceInv, PoolAt
  <2>3. TrueOf(PoolAt(world, a)', evidence'[a]) /\ Swept(evidence'[a])
    BY <2>1, <2>2
  <2>4. faults' = 0 => Faithful(PoolAt(world, a)', evidence'[a])
    BY <2>1, <2>2
  <2> QED
    BY <2>3, <2>4 DEF Sound, TrueOf, Swept, Faithful, PoolAt, reachable
<1> QED
  BY <1>3, <1>4, <1>6, <1>7

LEMMA StepService == ServiceInv /\ [ServiceNext]_allVars => ServiceInv'
<1> SUFFICES ASSUME ServiceInv, [ServiceNext]_allVars PROVE ServiceInv'
  OBVIOUS
<1> USE DEF ServiceInv
<1>1. CASE UNCHANGED allVars
  <2>1. UNCHANGED vars /\ UNCHANGED serviceVars
    BY <1>1 DEF allVars
  <2>2. ScanInv'
    BY <2>1, StepScan
  <2>3. \A a \in DOMAIN evidence' : Sound(a)'
    BY <2>1 DEF vars, serviceVars, Sound
  <2> QED
    BY <2>1, <2>2, <2>3 DEF vars, serviceVars, FrontEvidence, BackEvidence, Notes
<1>2. CASE scan_endpoint
  <2>1. Next /\ UNCHANGED serviceVars /\ result = <<>>
    BY <1>2 DEF scan_endpoint
  <2>2. ScanInv'
    BY <2>1, StepScan
  <2>3. TypeOK /\ pool' = pool /\ (faults' = 0 => faults = 0)
    <3>1. TypeOK /\ pool' = pool
      BY <2>1, StepShape DEF ScanInv, SupportInv
    <3>2. CASE faults' = faults
      BY <3>1, <3>2
    <3>3. ASSUME NEW g, NEW hello, NEW s, NEW t, NEW f, Recorded(g, hello, s, t, f)
          PROVE  faults' = 0 => faults = 0
      BY <3>1, <3>3, WorldAssumption DEF Recorded, TypeOK
    <3> QED
      BY <2>1, <3>1, <3>2, <3>3, StepShape
  <2>4. \A a \in DOMAIN evidence' : Sound(a)'
    BY <2>1, <2>3 DEF serviceVars, Sound
  <2> QED
    BY <2>1, <2>2, <2>3, <2>4 DEF serviceVars
<1>3. CASE NextAddress
  <2>1. /\ result = <<>> /\ phase = "done" /\ cursor < Len(world.direct)
        /\ evidence' = Store(evidence, cursor, obs) /\ cursor' = cursor + 1
        /\ pool' = PoolAt(world, cursor') /\ passes' = RepeatAt(service, cursor')
        /\ service' = service /\ world' = world /\ result' = <<>> /\ faults' = faults
    BY <1>3 DEF NextAddress
  <2>2. cursor' \in Addresses(service, world)
    BY <2>1, WorldType DEF Addresses
  <2>3. Fresh'
    BY <1>3, <2>1, <2>2, WorldType, WorldAssumption
       DEF NextAddress, Fresh, ScanInv, SupportInv, TypeOK
  <2>4. /\ DOMAIN evidence' = { a \in Addresses(service, world) : a <= cursor }
        /\ \A a \in DOMAIN evidence' : Sound(a)'
    BY <2>1, StoredIsSound
  <2>5. { a \in Addresses(service, world) : a <= cursor }
          = { a \in Addresses(service, world) : a < cursor + 1 }
    BY WorldType
  <2>6. pool' = PoolAt(world, cursor)'
    BY <2>1 DEF PoolAt
  <2> QED
    BY <2>1, <2>2, <2>3, <2>4, <2>5, <2>6, FreshNext
<1>4. CASE Assess
  <2>1. /\ result = <<>> /\ phase = "done" /\ cursor = Len(world.direct)
        /\ evidence' = Store(evidence, cursor, obs)
        /\ UNCHANGED <<vars, service, world, cursor>>
        /\ result' = << assess(service, FrontEvidence(evidence'), BackEvidence(evidence')),
                        Notes(evidence') >>
    BY <1>4 DEF Assess
  <2>2. ScanInv'
    BY <2>1, StepScan
  <2>3. world' = world /\ service' = service /\ cursor' = cursor /\ pool' = pool /\ faults' = faults
    BY <2>1 DEF vars
  <2>4. /\ DOMAIN evidence' = { a \in Addresses(service, world) : a <= cursor }
        /\ \A a \in DOMAIN evidence' : Sound(a)'
    BY <2>1, <2>3, StoredIsSound
  <2>5. DOMAIN evidence' = Addresses(service, world)
    BY <2>1, <2>4, WorldType
  <2>6. /\ FrontEvidence(evidence)' = FrontEvidence(evidence')
        /\ BackEvidence(evidence)' = BackEvidence(evidence')
        /\ Notes(evidence)' = Notes(evidence')
    BY <2>3 DEF FrontEvidence, BackEvidence, Notes
  <2>7. result' # <<>>
    BY <2>1
  <2> QED
    BY <2>1, <2>2, <2>3, <2>4, <2>5, <2>6, <2>7 DEF PoolAt
<1> QED
  BY <1>1, <1>2, <1>3, <1>4 DEF ServiceNext

LEMMA ServiceInvariant == ServiceSpec => []ServiceInv
BY InitService, StepService, PTL DEF ServiceSpec

\* For every inventory and deployment: the evidence of an address that has
\* been scanned is never touched again.
THEOREM EvidenceStays == ServiceSpec => EvidenceIsFinal
<1> DEFINE Stays == \A a \in DOMAIN evidence : a \in DOMAIN evidence' /\ evidence'[a] = evidence[a]
<1>1. ASSUME ServiceInv, ServiceNext PROVE Stays
  <2>1. CASE evidence' = evidence
    BY <2>1
  <2>2. CASE evidence' = Store(evidence, cursor, obs) /\ result = <<>>
    <3>1. \A a \in DOMAIN evidence : a < cursor /\ a \in Nat
      BY <1>1, <2>2, WorldType DEF ServiceInv
    <3> QED
      BY <2>2, <3>1 DEF Store
  <2> QED
    BY <1>1, <2>1, <2>2 DEF ServiceNext, scan_endpoint, serviceVars, NextAddress, Assess
<1>2. ServiceInv /\ [ServiceNext]_allVars => [Stays]_allVars
  BY <1>1
<1> QED
  BY <1>2, ServiceInvariant, PTL DEF ServiceSpec, EvidenceIsFinal

-----------------------------------------------------------------------------
(* What the assessment is made of                                          *)

\* A verdict of passthrough, and one of high confidence, always rest on the
\* certificates and the groups of a frontend and of a backend that answered.
LEMMA AssessVerdict ==
  ASSUME NEW s \in Service, NEW fe, NEW bes
  PROVE  LET v == assess(s, fe, bes) IN
         /\ v.observed \in Verdicts /\ v.confidence \in Confidence
         /\ v.observed = "likely_passthrough" =>
              /\ reachable(fe) /\ shared_cert(fe, bes) /\ ~group_divergence(fe, bes)
         /\ v.confidence = "high" =>
              /\ reachable(fe) /\ answering(bes) # {} /\ ~shared_cert(fe, bes)
         /\ reachable(fe) /\ answering(bes) # {} /\ shared_cert(fe, bes)
              /\ ~group_divergence(fe, bes) => v.observed = "likely_passthrough"
<1>1. DOMAIN <<>> = {}
  OBVIOUS
<1>2. bes = <<>> => answering(bes) = {}
  BY <1>1 DEF answering
<1>3. /\ assess_backends(s, fe, bes).observed =
           IF shared_cert(fe, bes) /\ ~group_divergence(fe, bes)
           THEN "likely_passthrough" ELSE "likely_tls_termination"
      /\ assess_backends(s, fe, bes).confidence =
           IF ~shared_cert(fe, bes) /\ group_divergence(fe, bes) THEN "high" ELSE "medium"
  BY DEF assess_backends, Assessment
<1>4. CASE ~reachable(fe)
  BY <1>4 DEF assess, Assessment, Verdicts, Confidence
<1>5. CASE reachable(fe) /\ bes = <<>>
  BY <1>2, <1>5 DEF assess, Assessment, Verdicts, Confidence
<1>6. CASE reachable(fe) /\ bes # <<>> /\ answering(bes) = {}
  BY <1>6 DEF assess, Assessment, Verdicts, Confidence
<1>7. CASE reachable(fe) /\ bes # <<>> /\ answering(bes) # {}
  BY <1>3, <1>7 DEF assess, Verdicts, Confidence
<1> QED
  BY <1>4, <1>5, <1>6, <1>7

\* Where the conflicts come from.
LEMMA AssessConflicts ==
  ASSUME NEW s \in Service, NEW fe, NEW bes, NEW c \in assess(s, fe, bes).conflicts
  PROVE  /\ reachable(fe)
         /\ c.kind = "inconsistent" =>
              \/ c.where = 0 /\ inconsistencies(fe) # {}
              \/ c.where \in answering(bes) /\ inconsistencies(bes[c.where]) # {}
         /\ c.kind = "direct" => s.type = "none" /\ distinct_peer_count(fe) > 1
<1> DEFINE Mode(v) == _resolve_conflict(s.mode, v)
           Type(v) == _note_frontend_type_conflict(s.type, fe, v)
           Right(x) == /\ x.kind = "inconsistent" =>
                            \/ x.where = 0 /\ inconsistencies(fe) # {}
                            \/ x.where \in answering(bes) /\ inconsistencies(bes[x.where]) # {}
                       /\ x.kind = "direct" => s.type = "none" /\ distinct_peer_count(fe) > 1
<1>1. \A v : \A x \in Mode(v) : Right(x)
  BY DEF _resolve_conflict, Conflict
<1>2. \A v : \A x \in Type(v) : Right(x)
  BY DEF _note_frontend_type_conflict, Conflict
<1>3. \A x \in _note_inconsistency(fe, 0) : Right(x)
  BY DEF _note_inconsistency, Conflict
<1>4. \A i \in answering(bes) : \A x \in _note_inconsistency(bes[i], i) : Right(x)
  BY DEF _note_inconsistency, Conflict
<1>5. PICK v : \/ c \in Mode(v) \/ c \in Type(v) \/ c \in _note_inconsistency(fe, 0)
               \/ \E i \in answering(bes) : c \in _note_inconsistency(bes[i], i)
  <2>1. CASE ~reachable(fe)
    BY <2>1 DEF assess, Assessment
  <2>2. CASE reachable(fe) /\ bes = <<>>
    BY <2>2 DEF assess, Assessment
  <2>3. CASE reachable(fe) /\ bes # <<>> /\ answering(bes) = {}
    BY <2>3 DEF assess, Assessment
  <2>4. CASE reachable(fe) /\ bes # <<>> /\ answering(bes) # {}
    <3>1. assess(s, fe, bes) = assess_backends(s, fe, bes)
      BY <2>4 DEF assess
    <3> DEFINE Found == { _note_inconsistency(bes[i], i) : i \in answering(bes) }
    <3>2. PICK v : assess_backends(s, fe, bes).conflicts =
            Type(v) \cup _note_inconsistency(fe, 0) \cup Mode(v) \cup UNION Found
      BY DEF assess_backends, Assessment
    <3> HIDE DEF Type, Mode
    <3>3. c \in UNION Found => \E i \in answering(bes) : c \in _note_inconsistency(bes[i], i)
      OBVIOUS
    <3> HIDE DEF Found
    <3>4. c \in Type(v) \cup _note_inconsistency(fe, 0) \cup Mode(v) \cup UNION Found
      BY <3>1, <3>2
    <3> QED
      BY <3>3, <3>4
  <2> QED
    BY <2>1, <2>2, <2>3, <2>4
<1>6. reachable(fe)
  BY DEF assess, Assessment
<1> HIDE DEF Mode, Type, Right
<1>7. Right(c)
  BY <1>1, <1>2, <1>3, <1>4, <1>5
<1> QED
  BY <1>6, <1>7 DEF Right

-----------------------------------------------------------------------------
(* What true evidence says of the pool                                     *)

LEMMA PeersAreCerts ==
  ASSUME NEW P, NEW seq, TrueOf(P, seq), NEW p \in peers(seq)
  PROVE  \E s \in P : s.cert = p
BY DEF TrueOf, peers

LEMMA ReachableHasPeer ==
  ASSUME NEW P, NEW seq, TrueOf(P, seq), reachable(seq)
  PROVE  peers(seq) # {}
BY DEF TrueOf, reachable, peers

\* More than one identity is seen only where there is more than one.
LEMMA IdentitiesAreReal ==
  ASSUME NEW P, NEW seq, TrueOf(P, seq), \A s, t \in P : s.cert = t.cert
  PROVE  distinct_peer_count(seq) \in {0, 1}
<1>1. CASE peers(seq) = {}
  BY <1>1, FS_EmptySet DEF distinct_peer_count
<1>2. CASE peers(seq) # {}
  <2>1. PICK p \in peers(seq) : TRUE
    BY <1>2
  <2>2. \A q \in peers(seq) : q = p
    BY <2>1, PeersAreCerts
  <2>3. peers(seq) = {p}
    BY <2>1, <2>2
  <2>4. Cardinality({p}) = 1
    BY FS_Singleton
  <2> QED
    BY <2>3, <2>4 DEF distinct_peer_count
<1> QED
  BY <1>1, <1>2

\* The groups seen to be supported, read off the observations.
LEMMA SupportedGroups ==
  ASSUME NEW seq, NEW g
  PROVE  g \in groups_observed_supported(seq)
         <=> \E i \in DOMAIN seq : Claim(seq[i]) /\ seq[i].group_offered = g
<1>1. g \in groups_observed_supported(seq)
      <=> \E p : /\ p \in RowPeers(seq) /\ g \in RowGroups(seq, p)
                /\ support_matrix(seq)[p][g] = "observed_supported"
  BY DEF groups_observed_supported
<1>2. \A p : /\ p \in RowPeers(seq) /\ g \in RowGroups(seq, p)
             /\ support_matrix(seq)[p][g] = "observed_supported"
             <=> \E i \in DOMAIN seq :
                   Claim(seq[i]) /\ peer_key(seq[i]) = p /\ seq[i].group_offered = g
  BY SupportedCell
<1> QED
  BY <1>1, <1>2

\* CountedInv evidence of one stack that answered shows what it accepts.
LEMMA SupportIsAcceptance ==
  ASSUME NEW P, NEW seq, TrueOf(P, seq), Faithful(P, seq), Swept(seq), reachable(seq), Single(P)
  PROVE  groups_observed_supported(seq) = Accepted(P)
<1>1. PICK s \in P : P = {s}
  BY DEF Single
<1>2. \A i \in DOMAIN seq : GroupProbe(seq[i]) =>
        /\ succeeded(seq[i]) <=> Accepts(s, GroupHello(seq[i].group_offered))
        /\ seq[i].group_offered \in ToSet(Groups)
  BY <1>1 DEF Faithful, TrueOf
<1>3. \A g \in ToSet(Groups) : \E i \in DOMAIN seq :
        GroupProbe(seq[i]) /\ seq[i].group_offered = g
  BY DEF Swept, GroupProbe
<1>4. \A g : g \in groups_observed_supported(seq) <=> g \in Accepted(P)
  <2>1. ASSUME NEW g \in groups_observed_supported(seq) PROVE g \in Accepted(P)
    BY <1>1, <1>2, <2>1, SupportedGroups DEF Claim, Accepted
  <2>2. ASSUME NEW g \in Accepted(P) PROVE g \in groups_observed_supported(seq)
    <3>1. g \in ToSet(Groups) /\ Accepts(s, GroupHello(g))
      BY <1>1 DEF Accepted
    <3>2. PICK i \in DOMAIN seq : GroupProbe(seq[i]) /\ seq[i].group_offered = g
      BY <1>3, <3>1
    <3> QED
      BY <1>2, <3>1, <3>2, SupportedGroups DEF Claim
  <2> QED
    BY <2>1, <2>2
<1> QED
  BY <1>4

\* On an undisturbed path a group is inconsistent only if two stacks differ.
LEMMA InconsistencyIsReal ==
  ASSUME NEW P, NEW seq, TrueOf(P, seq), Faithful(P, seq), NEW g \in inconsistencies(seq)
  PROVE  /\ g \in ToSet(Groups)
         /\ \E s, t \in P : Accepts(s, GroupHello(g)) /\ ~Accepts(t, GroupHello(g))
<1>1. PICK i, j \in DOMAIN seq :
        /\ seq[i].group_offered = g /\ GroupProbe(seq[i]) /\ succeeded(seq[i])
        /\ seq[j].group_offered = g /\ GroupProbe(seq[j]) /\ ~succeeded(seq[j])
  BY DEF inconsistencies, Telling
<1> QED
  BY <1>1 DEF TrueOf, Faithful

-----------------------------------------------------------------------------
(* The assessment                                                          *)

Fe == FrontEvidence(evidence)
Bes == BackEvidence(evidence)

\* The assessment looks at true evidence of the frontend and of each backend.
LEMMA AssessedEvidence ==
  ASSUME ServiceInv, Assessed
  PROVE  /\ service \in Service /\ Verdict = assess(service, Fe, Bes)
         /\ DOMAIN evidence = Addresses(service, world)
         /\ reachable(Fe) =>
              /\ service.frontend /\ 0 \in DOMAIN evidence /\ Fe = evidence[0]
              /\ TrueOf(world.front, Fe) /\ Swept(Fe)
              /\ faults = 0 => Faithful(world.front, Fe)
         /\ DOMAIN Bes = DOMAIN world.direct
         /\ \A i \in DOMAIN world.direct :
              /\ i \in DOMAIN evidence /\ i # 0 /\ Bes[i] = evidence[i]
              /\ TrueOf(world.direct[i], Bes[i]) /\ Swept(Bes[i])
              /\ faults = 0 => Faithful(world.direct[i], Bes[i])
<1>1. /\ result # <<>> /\ service \in Service
      /\ DOMAIN evidence = Addresses(service, world)
      /\ result = << assess(service, Fe, Bes), Notes(evidence) >>
  BY ServiceAssumption DEF ServiceInv, Assessed, Fe, Bes
<1>2. Verdict = assess(service, Fe, Bes)
  BY <1>1 DEF Verdict
<1>3. DOMAIN world.direct = 1 .. Len(world.direct) /\ Len(world.direct) \in Nat
  BY WorldType DEF ServiceInv
<1>4. ASSUME reachable(Fe)
      PROVE  service.frontend /\ Fe = evidence[0] /\ 0 \in DOMAIN evidence
  <2>1. service.frontend
    <3>1. ~reachable(<<>>)
      BY DEF reachable
    <3> QED
      BY <1>4, <3>1 DEF Fe, FrontEvidence
  <2> QED
    BY <1>1, <1>3, <2>1 DEF Fe, FrontEvidence, Addresses
<1>5. ASSUME NEW i \in DOMAIN world.direct
      PROVE  i \in DOMAIN evidence /\ i # 0 /\ Bes[i] = evidence[i]
  BY <1>1, <1>3 DEF Bes, BackEvidence, Addresses
<1>6. \A a \in DOMAIN evidence :
        /\ TrueOf(PoolAt(world, a), evidence[a]) /\ Swept(evidence[a])
        /\ faults = 0 => Faithful(PoolAt(world, a), evidence[a])
  BY DEF ServiceInv, Sound
<1>7. reachable(Fe) => /\ TrueOf(world.front, Fe) /\ Swept(Fe)
                       /\ faults = 0 => Faithful(world.front, Fe)
  BY <1>4, <1>6 DEF PoolAt
<1>8. \A i \in DOMAIN world.direct :
        /\ TrueOf(world.direct[i], Bes[i]) /\ Swept(Bes[i])
        /\ faults = 0 => Faithful(world.direct[i], Bes[i])
  BY <1>5, <1>6 DEF PoolAt
<1>9. DOMAIN Bes = DOMAIN world.direct
  BY DEF Bes, BackEvidence
<1> QED
  BY <1>1, <1>2, <1>4, <1>5, <1>7, <1>8, <1>9

LEMMA InvTypes == ServiceInv => ServiceTypeOK
<1> SUFFICES ASSUME ServiceInv PROVE ServiceTypeOK
  OBVIOUS
<1>1. TypeOK /\ service \in Services /\ world \in Worlds /\ cursor \in Addresses(service, world)
  BY DEF ServiceInv, ScanInv, SupportInv
<1>2. DOMAIN evidence \subseteq Addresses(service, world)
  BY DEF ServiceInv
<1>3. \A a \in DOMAIN evidence : evidence[a] \in Seq(Observation)
  BY DEF ServiceInv, Sound, TrueOf
<1>4. ASSUME result # <<>>
      PROVE  result[1].observed \in Verdicts /\ result[1].confidence \in Confidence
  BY <1>4, AssessedEvidence, AssessVerdict DEF Assessed, Verdict
<1> QED
  BY <1>1, <1>2, <1>3, <1>4 DEF ServiceTypeOK

\* Type correctness of the scan of a service, for every inventory and world.
THEOREM ServiceTypes == ServiceSpec => []ServiceTypeOK
BY ServiceInvariant, InvTypes, PTL

\* The verdict is a function of the evidence: the declared type and mode do
\* not steer it.
LEMMA VerdictIgnoresDeclared ==
  ASSUME NEW s, NEW o, NEW fe, NEW bes
  PROVE  LET v == assess(s, fe, bes)
             w == assess(o, fe, bes)
         IN  /\ v.observed = w.observed /\ v.confidence = w.confidence
             /\ v.rules_out_passthrough = w.rules_out_passthrough
<1>1. CASE ~reachable(fe)
  BY <1>1 DEF assess, Assessment
<1>2. CASE reachable(fe) /\ bes = <<>>
  BY <1>2 DEF assess, Assessment
<1>3. CASE reachable(fe) /\ bes # <<>> /\ answering(bes) = {}
  BY <1>3 DEF assess, Assessment
<1>4. CASE reachable(fe) /\ bes # <<>> /\ answering(bes) # {}
  BY <1>4 DEF assess, assess_backends, Assessment
<1> QED
  BY <1>1, <1>2, <1>3, <1>4

\* For every inventory and deployment: had the type or the mode been declared
\* differently, the verdict on the same evidence would be the same.
THEOREM VerdictIsTheEvidences == ServiceSpec => []DeclarationsNeverSteer
<1>1. ServiceInv => DeclarationsNeverSteer
  <2> SUFFICES ASSUME ServiceInv, Assessed, NEW o
               PROVE  /\ assess(o, Fe, Bes).observed = Verdict.observed
                      /\ assess(o, Fe, Bes).confidence = Verdict.confidence
                      /\ assess(o, Fe, Bes).rules_out_passthrough = Verdict.rules_out_passthrough
    BY DEF DeclarationsNeverSteer, Fe, Bes
  <2> QED
    BY AssessedEvidence, VerdictIgnoresDeclared
<1> QED
  BY <1>1, ServiceInvariant, PTL

\* assess looks no further at a backend that completed no handshake.
LEMMA SilentIsIgnored ==
  ASSUME NEW srv, NEW fe, NEW bes, bes = [i \in DOMAIN bes |-> bes[i]],
         NEW b \in DOMAIN bes, ~reachable(bes[b])
  PROVE  assess(srv, fe, [bes EXCEPT ![b] = <<>>]) = assess(srv, fe, bes)
<1> DEFINE cut == [bes EXCEPT ![b] = <<>>]
<1>1. DOMAIN cut = DOMAIN bes /\ cut[b] = <<>> /\ \A i \in DOMAIN bes \ {b} : cut[i] = bes[i]
  OBVIOUS
<1>2. ~reachable(<<>>)
  BY DEF reachable
<1>3. (bes = <<>>) = FALSE /\ (cut = <<>>) = FALSE
  BY <1>1
<1> HIDE DEF cut
<1>4. \A i \in DOMAIN bes : reachable(cut[i]) <=> reachable(bes[i])
  BY <1>1, <1>2
<1>5. answering(cut) = answering(bes)
  BY <1>1, <1>4 DEF answering
<1>6. \A i \in answering(bes) : cut[i] = bes[i]
  BY <1>1 DEF answering
<1>7. be_prints(cut) = be_prints(bes) /\ be_groups(cut) = be_groups(bes)
  BY <1>5, <1>6 DEF be_prints, be_groups
<1>8. UNION { _note_inconsistency(cut[i], i) : i \in answering(cut) }
        = UNION { _note_inconsistency(bes[i], i) : i \in answering(bes) }
  BY <1>5, <1>6
<1>9. /\ shared_cert(fe, cut) = shared_cert(fe, bes)
      /\ group_divergence(fe, cut) = group_divergence(fe, bes)
  BY <1>7 DEF shared_cert, group_divergence
<1>10. assess_backends(srv, fe, cut) = assess_backends(srv, fe, bes)
  BY <1>8, <1>9 DEF assess_backends
<1>11. assess(srv, fe, cut) = assess(srv, fe, bes)
  BY <1>3, <1>5, <1>10 DEF assess
<1> QED
  BY <1>11 DEF cut

LEMMA InvSilent == ServiceInv => SilentBackendsDoNotCount
<1> SUFFICES ASSUME ServiceInv, Assessed, NEW b \in DOMAIN world.direct,
                    ~reachable(evidence[b])
             PROVE  assess(service, Fe, [Bes EXCEPT ![b] = <<>>]) = Verdict
  BY DEF SilentBackendsDoNotCount, Fe, Bes
<1>1. /\ Verdict = assess(service, Fe, Bes)
      /\ DOMAIN Bes = DOMAIN world.direct /\ Bes[b] = evidence[b]
  BY AssessedEvidence
<1>2. Bes = [i \in DOMAIN Bes |-> Bes[i]]
  BY DEF Bes, BackEvidence
<1> HIDE DEF Bes, Fe
<1>3. ASSUME NEW bes, bes = Bes
      PROVE  assess(service, Fe, [bes EXCEPT ![b] = <<>>]) = assess(service, Fe, bes)
  <2>1. bes = [i \in DOMAIN bes |-> bes[i]] /\ b \in DOMAIN bes /\ ~reachable(bes[b])
    BY <1>1, <1>2, <1>3
  <2> QED
    BY <2>1, SilentIsIgnored
<1> QED
  BY <1>1, <1>3

\* For every inventory and deployment: a backend at which no handshake was
\* completed leaves no trace in the assessment, whatever was cut off there.
THEOREM SilentBackends == ServiceSpec => []SilentBackendsDoNotCount
BY ServiceInvariant, InvSilent, PTL

LEMMA SharedIsReal ==
  ASSUME ServiceInv, Assessed, reachable(Fe), shared_cert(Fe, Bes)
  PROVE  \E s \in world.front, t \in Direct : s.cert = t.cert
<1>1. PICK p : p \in peers(Fe) /\ p \in be_prints(Bes)
  BY DEF shared_cert
<1>2. PICK i \in answering(Bes) : p \in peers(Bes[i])
  BY <1>1 DEF be_prints
<1>3. i \in DOMAIN world.direct
  BY AssessedEvidence DEF answering
<1>4. PICK s \in world.front : s.cert = p
  BY <1>1, AssessedEvidence, PeersAreCerts
<1>5. PICK t \in world.direct[i] : t.cert = p
  BY <1>2, <1>3, AssessedEvidence, PeersAreCerts
<1>6. t \in Direct
  BY <1>3, <1>5 DEF Direct
<1> QED
  BY <1>4, <1>5, <1>6

\* A frontend whose every stack answers alone at a backend address of its own
\* shares a certificate with the backends, if everything answered.
LEMMA DeclaredIsShared ==
  ASSUME ServiceInv, Assessed, FullyDeclared, AllAnswered, reachable(Fe)
  PROVE  shared_cert(Fe, Bes)
<1>1. PICK p \in peers(Fe) : TRUE
  BY AssessedEvidence, ReachableHasPeer
<1>2. PICK s \in world.front : s.cert = p
  BY <1>1, AssessedEvidence, PeersAreCerts
<1>3. PICK i \in DOMAIN world.direct : s \in world.direct[i]
  BY <1>2 DEF FullyDeclared, Direct
<1>4. world.direct[i] = {s}
  BY <1>3 DEF FullyDeclared, Single
<1>5. reachable(Bes[i]) /\ i \in answering(Bes)
  BY <1>3, AssessedEvidence DEF AllAnswered, answering
<1>6. PICK q \in peers(Bes[i]) : TRUE
  BY <1>3, <1>5, AssessedEvidence, ReachableHasPeer
<1>7. q = p
  <2>1. \E t \in world.direct[i] : t.cert = q
    BY <1>3, <1>6, AssessedEvidence, PeersAreCerts
  <2> QED
    BY <1>2, <1>4, <2>1
<1> QED
  BY <1>1, <1>5, <1>6, <1>7 DEF shared_cert, be_prints

LEMMA InvHighConfidence == ServiceInv => HighConfidenceIsSound
<1> SUFFICES ASSUME ServiceInv, Assessed, FullyDeclared, AllAnswered,
                    Verdict.confidence = "high"
             PROVE  FALSE
  BY DEF HighConfidenceIsSound
<1> QED
  BY AssessedEvidence, AssessVerdict, DeclaredIsShared

\* For every fully declared passthrough deployment in which each address
\* answered: whatever the balancer and the path do, the verdict is never
\* termination with high confidence.
THEOREM HighConfidenceHolds == ServiceSpec => []HighConfidenceIsSound
BY ServiceInvariant, InvHighConfidence, PTL

\* When nothing was disturbed and one stack answers at each address, what is
\* seen of the groups on either side is what is accepted there.
LEMMA GroupsAreAccepted ==
  ASSUME ServiceInv, Assessed, faults = 0, AllAnswered, reachable(Fe),
         Single(world.front), \A i \in DOMAIN world.direct : Single(world.direct[i])
  PROVE  /\ groups_observed_supported(Fe) = Accepted(world.front)
         /\ be_groups(Bes) = Accepted(Direct)
<1>1. groups_observed_supported(Fe) = Accepted(world.front)
  BY AssessedEvidence, SupportIsAcceptance
<1>2. \A i \in DOMAIN world.direct :
        groups_observed_supported(Bes[i]) = Accepted(world.direct[i]) /\ reachable(Bes[i])
  BY AssessedEvidence, SupportIsAcceptance DEF AllAnswered
<1>3. answering(Bes) = DOMAIN world.direct
  BY <1>2, AssessedEvidence DEF answering
<1>4. \A g : g \in be_groups(Bes) <=> \E i \in DOMAIN world.direct : g \in Accepted(world.direct[i])
  BY <1>2, <1>3 DEF be_groups
<1>5. \A g : g \in Accepted(Direct) <=> \E i \in DOMAIN world.direct : g \in Accepted(world.direct[i])
  BY DEF Accepted, Direct
<1> QED
  BY <1>1, <1>4, <1>5

LEMMA InvPassthrough == ServiceInv => PassthroughVerdictHasGrounds
<1> SUFFICES ASSUME ServiceInv, Assessed, Verdict.observed = "likely_passthrough"
             PROVE  /\ \E s \in world.front, t \in Direct : s.cert = t.cert
                    /\ /\ faults = 0 /\ AllAnswered
                       /\ \A a \in DOMAIN evidence : Single(PoolAt(world, a))
                       /\ Accepted(world.front) # {} /\ Accepted(Direct) # {}
                       => Accepted(world.front) = Accepted(Direct)
  BY DEF PassthroughVerdictHasGrounds
<1>1. reachable(Fe) /\ shared_cert(Fe, Bes) /\ ~group_divergence(Fe, Bes)
  BY AssessedEvidence, AssessVerdict
<1>2. \E s \in world.front, t \in Direct : s.cert = t.cert
  BY <1>1, SharedIsReal
<1>3. ASSUME faults = 0, AllAnswered, \A a \in DOMAIN evidence : Single(PoolAt(world, a)),
             Accepted(world.front) # {}, Accepted(Direct) # {}
      PROVE  Accepted(world.front) = Accepted(Direct)
  <2>1. Single(world.front)
    BY <1>1, <1>3, AssessedEvidence DEF PoolAt
  <2>2. \A i \in DOMAIN world.direct : Single(world.direct[i])
    BY <1>3, AssessedEvidence DEF PoolAt
  <2>3. /\ groups_observed_supported(Fe) = Accepted(world.front)
        /\ be_groups(Bes) = Accepted(Direct)
    BY <1>1, <1>3, <2>1, <2>2, GroupsAreAccepted
  <2> QED
    BY <1>1, <1>3, <2>3 DEF group_divergence
<1> QED
  BY <1>2, <1>3

\* For every deployment: a passthrough verdict goes back to a certificate that
\* really is on both sides, and on an undisturbed path to one stack per
\* address the groups of the sweep are accepted alike.
THEOREM PassthroughHasGrounds == ServiceSpec => []PassthroughVerdictHasGrounds
BY ServiceInvariant, InvPassthrough, PTL

LEMMA InvUniform == ServiceInv => UniformPassthroughIsRecognised
<1> SUFFICES ASSUME ServiceInv, Assessed, faults = 0, FullyDeclared,
                    Single(world.front), Direct = world.front, AllAnswered
             PROVE  /\ Verdict.observed = "likely_passthrough"
                    /\ \A c \in Verdict.conflicts : c.kind # "inconsistent"
  BY DEF UniformPassthroughIsRecognised
<1>1. PICK s \in world.front : world.front = {s}
  BY DEF Single
<1>2. \A i \in DOMAIN world.direct : world.direct[i] \subseteq {s} /\ Single(world.direct[i])
  BY <1>1 DEF Direct, FullyDeclared
<1>3. reachable(Fe)
  <2>1. service.frontend /\ DOMAIN evidence = Addresses(service, world)
    BY AssessedEvidence DEF FullyDeclared
  <2>2. 0 \in DOMAIN evidence
    BY <2>1, WorldType DEF ServiceInv, Addresses
  <2> QED
    BY <2>1, <2>2 DEF AllAnswered, Fe, FrontEvidence
<1>4. PICK i \in DOMAIN world.direct : TRUE
  BY <1>1 DEF Direct
<1>5. i \in answering(Bes)
  BY AssessedEvidence DEF AllAnswered, answering
<1>6. shared_cert(Fe, Bes)
  BY <1>3, DeclaredIsShared
<1>7. ~group_divergence(Fe, Bes)
  BY <1>2, <1>3, GroupsAreAccepted DEF group_divergence
<1>8. Verdict.observed = "likely_passthrough"
  <2>1. answering(Bes) # {}
    BY <1>5
  <2> QED
    BY <1>3, <1>6, <1>7, <2>1, AssessedEvidence, AssessVerdict
<1>9. ASSUME NEW c \in Verdict.conflicts, c.kind = "inconsistent"
      PROVE  FALSE
  <2>1. \/ inconsistencies(Fe) # {}
        \/ \E j \in answering(Bes) : inconsistencies(Bes[j]) # {}
    BY <1>9, AssessedEvidence, AssessConflicts
  <2>2. inconsistencies(Fe) = {}
    BY <1>1, <1>3, AssessedEvidence, InconsistencyIsReal
  <2>3. ASSUME NEW j \in answering(Bes)
        PROVE  inconsistencies(Bes[j]) = {}
    <3>1. j \in DOMAIN world.direct
      BY AssessedEvidence DEF answering
    <3> QED
      BY <1>2, <3>1, AssessedEvidence, InconsistencyIsReal
  <2> QED
    BY <2>1, <2>2, <2>3
<1> QED
  BY <1>8, <1>9

\* For every uniform, fully declared passthrough pool: an undisturbed scan in
\* which each address answered says likely_passthrough, and names no
\* inconsistency.
THEOREM UniformPassthrough == ServiceSpec => []UniformPassthroughIsRecognised
BY ServiceInvariant, InvUniform, PTL

LEMMA InvConflicts == ServiceInv => ConflictsAreTrue
<1> SUFFICES ASSUME ServiceInv, Assessed, faults = 0
             PROVE  /\ \A a \in DOMAIN evidence :
                         result[2][a] = "likely_incomplete" =>
                           \E s, t \in PoolAt(world, a) : s.cert # t.cert
                    /\ \A c \in Verdict.conflicts :
                         /\ c.kind = "inconsistent" =>
                              \E s, t \in PoolAt(world, c.where) : \E g \in ToSet(Groups) :
                                Accepts(s, GroupHello(g)) /\ ~Accepts(t, GroupHello(g))
                         /\ c.kind = "direct" =>
                              service.type = "none" /\ \E s, t \in world.front : s.cert # t.cert
  BY DEF ConflictsAreTrue
<1>1. ASSUME NEW a \in DOMAIN evidence, result[2][a] = "likely_incomplete"
      PROVE  \E s, t \in PoolAt(world, a) : s.cert # t.cert
  <2>1. result[2] = Notes(evidence)
    BY DEF ServiceInv, Assessed
  <2>2. coverage_note(RepeatAt(service, a), distinct_peer_count(evidence[a])) = "likely_incomplete"
    BY <1>1, <2>1 DEF Notes
  <2>3. distinct_peer_count(evidence[a]) \notin {0, 1}
    BY <2>2 DEF coverage_note
  <2>4. TrueOf(PoolAt(world, a), evidence[a])
    BY DEF ServiceInv, Sound
  <2> QED
    BY <2>3, <2>4, IdentitiesAreReal
<1>2. ASSUME NEW c \in Verdict.conflicts
      PROVE  /\ c.kind = "inconsistent" =>
                  \E s, t \in PoolAt(world, c.where) : \E g \in ToSet(Groups) :
                    Accepts(s, GroupHello(g)) /\ ~Accepts(t, GroupHello(g))
             /\ c.kind = "direct" =>
                  service.type = "none" /\ \E s, t \in world.front : s.cert # t.cert
  <2>1. /\ reachable(Fe)
        /\ c.kind = "inconsistent" =>
             \/ c.where = 0 /\ inconsistencies(Fe) # {}
             \/ c.where \in answering(Bes) /\ inconsistencies(Bes[c.where]) # {}
        /\ c.kind = "direct" => service.type = "none" /\ distinct_peer_count(Fe) > 1
    BY <1>2, AssessedEvidence, AssessConflicts
  <2>2. CASE c.where = 0 /\ inconsistencies(Fe) # {}
    <3>1. \E s, t \in world.front : \E g \in ToSet(Groups) :
            Accepts(s, GroupHello(g)) /\ ~Accepts(t, GroupHello(g))
      BY <2>1, <2>2, AssessedEvidence, InconsistencyIsReal
    <3>2. PoolAt(world, c.where) = world.front
      BY <2>2 DEF PoolAt
    <3> QED
      BY <2>1, <3>1, <3>2, AssessedEvidence, IdentitiesAreReal
  <2>3. CASE c.where \in answering(Bes) /\ inconsistencies(Bes[c.where]) # {}
    <3>1. c.where \in DOMAIN world.direct
      BY <2>3, AssessedEvidence DEF answering
    <3>2. \E s, t \in world.direct[c.where] : \E g \in ToSet(Groups) :
            Accepts(s, GroupHello(g)) /\ ~Accepts(t, GroupHello(g))
      BY <2>3, <3>1, AssessedEvidence, InconsistencyIsReal
    <3>3. PoolAt(world, c.where) = world.direct[c.where]
      BY <3>1, AssessedEvidence DEF PoolAt
    <3> QED
      BY <2>1, <3>2, <3>3, AssessedEvidence, IdentitiesAreReal
  <2>4. CASE c.kind # "inconsistent"
    BY <2>1, <2>4, AssessedEvidence, IdentitiesAreReal
  <2> QED
    BY <2>1, <2>2, <2>3, <2>4
<1> QED
  BY <1>1, <1>2

\* For every deployment, on an undisturbed path: an address is called
\* inconsistent, a direct frontend a balancer, and a sample incomplete only
\* where two stacks really differ.
THEOREM ConflictsHold == ServiceSpec => []ConflictsAreTrue
BY ServiceInvariant, InvConflicts, PTL
=============================================================================
