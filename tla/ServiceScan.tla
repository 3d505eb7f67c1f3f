---------------------------- MODULE ServiceScan ----------------------------
(***************************************************************************)
(* The scan of one service (ServiceScanner.scan_service): the frontend's   *)
(* address, then each declared backend's, one after another, then the      *)
(* assessment of what was seen.  Each address is scanned as EndpointScan   *)
(* describes; here its pool is what the world puts behind that address.    *)
(***************************************************************************)
EXTENDS EndpointScan, Topology

CONSTANTS
  Services,  \* inventory entries
  Worlds     \* what is really deployed

\* frontend: does the entry declare one?  Without one mode is "unknown" and
\* type "none" (the ServiceResult's defaults).
Service ==
  [ frontend : BOOLEAN, type : FrontendType, mode : TlsMode,
    front_repeat : Repeats, back_repeat : Repeats ]

\* mode: who ends TLS at the frontend.  front: the stacks that may answer at
\* its address.  direct: the stacks that answer at each backend's address.
World == [ mode : {"terminate", "passthrough"}, front : Pools, direct : Seq(Pools) ]

ASSUME ServiceAssumption == Services \subseteq Service /\ Worlds \subseteq World

VARIABLES
  service,   \* the inventory entry being scanned
  world,     \* the ground truth
  cursor,    \* the address being scanned: 0 the frontend, i the i-th backend
  evidence,  \* finished evidence: address -> observations
  result     \* <<>> until assessed, then <<assessment, coverage notes>>

serviceVars == <<service, world, cursor, evidence, result>>
allVars == <<vars, serviceVars>>

Addresses(s, w) == (IF s.frontend THEN 0 ELSE 1) .. Len(w.direct)
PoolAt(w, a) == IF a = 0 THEN w.front ELSE w.direct[a]
RepeatAt(s, a) == IF a = 0 THEN s.front_repeat ELSE s.back_repeat

\* The finished evidence of address a is kept beside that of the others.
Store(ev, a, seq) == [ b \in DOMAIN ev \cup {a} |-> IF b = a THEN seq ELSE ev[b] ]

ServiceInit ==
  /\ service \in Services
  /\ world \in Worlds
  /\ Addresses(service, world) # {}
  /\ cursor = IF service.frontend THEN 0 ELSE 1
  /\ evidence = [a \in {} |-> <<>>]
  /\ result = <<>>
  /\ pool = PoolAt(world, cursor)
  /\ passes = RepeatAt(service, cursor)
  /\ phase = "resolve" /\ index = 0 /\ step = 1
  /\ obs = <<>> /\ answered = <<>> /\ faults = 0

\* One step of scan_endpoint for the address under the cursor.
scan_endpoint ==
  /\ result = <<>>
  /\ Next
  /\ UNCHANGED serviceVars

\* Mutant of NextAddress: one list of observations shared by all addresses.
NextAddress_SharedList ==
  /\ result = <<>> /\ phase = "done"
  /\ cursor < Len(world.direct)
  /\ evidence' = [a \in DOMAIN evidence \cup {cursor} |-> obs]
  /\ cursor' = cursor + 1
  /\ pool' = PoolAt(world, cursor + 1)
  /\ passes' = RepeatAt(service, cursor + 1)
  /\ phase' = "resolve" /\ index' = 0 /\ step' = 1
  /\ obs' = <<>> /\ answered' = <<>>
  /\ UNCHANGED <<service, world, result, faults>>

\* Mutant of NextAddress: an address that never answered stops the loop.
NextAddress_StopsShort ==
  /\ result = <<>> /\ phase = "done"
  /\ reachable(obs)
  /\ cursor < Len(world.direct)
  /\ evidence' = Store(evidence, cursor, obs)
  /\ cursor' = cursor + 1
  /\ pool' = PoolAt(world, cursor + 1)
  /\ passes' = RepeatAt(service, cursor + 1)
  /\ phase' = "resolve" /\ index' = 0 /\ step' = 1
  /\ obs' = <<>> /\ answered' = <<>>
  /\ UNCHANGED <<service, world, result, faults>>

\* The evidence is stored, and a fresh EndpointEvidence begins.
NextAddress ==
  /\ result = <<>> /\ phase = "done"
  /\ cursor < Len(world.direct)
  /\ evidence' = Store(evidence, cursor, obs)
  /\ cursor' = cursor + 1
  /\ pool' = PoolAt(world, cursor + 1)
  /\ passes' = RepeatAt(service, cursor + 1)
  /\ phase' = "resolve" /\ index' = 0 /\ step' = 1
  /\ obs' = <<>> /\ answered' = <<>>
  /\ UNCHANGED <<service, world, result, faults>>

FrontEvidence(ev) == IF service.frontend THEN ev[0] ELSE <<>>
BackEvidence(ev) == [ i \in DOMAIN world.direct |-> ev[i] ]

Notes(ev) ==
  [ a \in DOMAIN ev |-> coverage_note(RepeatAt(service, a), distinct_peer_count(ev[a])) ]

Assess ==
  /\ result = <<>> /\ phase = "done"
  /\ cursor = Len(world.direct)
  /\ evidence' = Store(evidence, cursor, obs)
  /\ \E fe \in {FrontEvidence(evidence')}, bes \in {BackEvidence(evidence')} :
       result' = << assess(service, fe, bes), Notes(evidence') >>
  /\ UNCHANGED <<vars, service, world, cursor>>

ServiceNext == scan_endpoint \/ NextAddress \/ Assess

ServiceSpec == ServiceInit /\ [][ServiceNext]_allVars

\* Each address ends because each probe does; the thread then goes on.
ServiceFairSpec == ServiceSpec /\ WF_allVars(ServiceNext)

-----------------------------------------------------------------------------
(* What the assessment promises                                            *)

ServiceTypeOK ==
  /\ TypeOK
  /\ service \in Services /\ world \in Worlds
  /\ cursor \in Addresses(service, world)
  /\ DOMAIN evidence \subseteq Addresses(service, world)
  /\ \A a \in DOMAIN evidence : evidence[a] \in Seq(Observation)
  /\ result # <<>> =>
       result[1].observed \in Verdicts /\ result[1].confidence \in Confidence

Assessed == result # <<>>
Verdict == result[1]
Direct == UNION { world.direct[i] : i \in DOMAIN world.direct }

Single(P) == \E s \in P : P = {s}

\* The scanner can reach every stack behind the frontend directly as well,
\* each at an address of its own.
FullyDeclared ==
  /\ service.frontend /\ world.front \subseteq Direct
  /\ \A i \in DOMAIN world.direct : Single(world.direct[i])

AllAnswered == \A a \in DOMAIN evidence : reachable(evidence[a])

\* The probed groups that some stack of the pool accepts.
Accepted(P) == { g \in ToSet(Groups) : \E s \in P : Accepts(s, GroupHello(g)) }

\* A passthrough verdict is never invented: some stack at the frontend and
\* some stack at a backend really present the same certificate.  When nothing
\* was disturbed, each address is one stack that answered, and both sides take
\* some group of the sweep, the frontend really accepts exactly the probed
\* groups that the backends accept.
PassthroughVerdictHasGrounds ==
  Assessed /\ Verdict.observed = "likely_passthrough" =>
    /\ \E s \in world.front, t \in Direct : s.cert = t.cert
    /\ /\ faults = 0 /\ AllAnswered
       /\ \A a \in DOMAIN evidence : Single(PoolAt(world, a))
       /\ Accepted(world.front) # {} /\ Accepted(Direct) # {}
       => Accepted(world.front) = Accepted(Direct)

\* When the inventory declares the whole pool, one stack to an address, and
\* every address answered at least once, a passthrough VIP is never called a
\* termination with high confidence, however the balancer spreads or pins the
\* connections and whichever probe is lost.
HighConfidenceIsSound ==
  Assessed /\ world.mode = "passthrough" /\ FullyDeclared /\ AllAnswered =>
    Verdict.confidence # "high"

\* On an undisturbed path a uniform, fully declared passthrough pool is
\* recognised as such, and no inconsistency is reported about it.
UniformPassthroughIsRecognised ==
  /\ Assessed /\ faults = 0 /\ world.mode = "passthrough" /\ FullyDeclared
  /\ Single(world.front) /\ Direct = world.front /\ AllAnswered
  => /\ Verdict.observed = "likely_passthrough"
     /\ \A c \in Verdict.conflicts : c.kind # "inconsistent"

\* A backend at which no handshake was completed counts for nothing: with its
\* evidence thrown away the whole assessment would be the same, whatever
\* certificate it had shown on a connection that was cut off before the end.
\* Being declared is what it still counts for.
SilentBackendsDoNotCount ==
  Assessed =>
    \A b \in DOMAIN world.direct : ~reachable(evidence[b]) =>
      assess(service, FrontEvidence(evidence),
             [BackEvidence(evidence) EXCEPT ![b] = <<>>]) = Verdict

\* The conflicts a reader is sent to act on are real.  On an undisturbed path
\* an address is called inconsistent only if two stacks behind it differ on a
\* group, and "something is distributing connections" is said of a frontend
\* declared as direct only if two certificates live behind it; nor does a
\* coverage note speak of several identities where there is one.
ConflictsAreTrue ==
  Assessed /\ faults = 0 =>
    /\ \A a \in DOMAIN evidence :
         result[2][a] = "likely_incomplete" => \E s, t \in PoolAt(world, a) : s.cert # t.cert
    /\ \A c \in Verdict.conflicts :
         /\ c.kind = "inconsistent" =>
              \E s, t \in PoolAt(world, c.where) : \E g \in ToSet(Groups) :
                Accepts(s, GroupHello(g)) /\ ~Accepts(t, GroupHello(g))
         /\ c.kind = "direct" =>
              service.type = "none" /\ \E s, t \in world.front : s.cert # t.cert

\* What the inventory declares is compared with the observation, and never
\* steers it: had type or tls_mode been declared differently, the verdict on
\* the same evidence would be the same.
DeclarationsNeverSteer ==
  Assessed =>
    \A other \in { [service EXCEPT !.type = t] : t \in FrontendType }
                  \cup { [service EXCEPT !.mode = m] : m \in TlsMode } :
      LET verdict == assess(other, FrontEvidence(evidence), BackEvidence(evidence))
      IN  /\ verdict.observed = Verdict.observed
          /\ verdict.confidence = Verdict.confidence
          /\ verdict.rules_out_passthrough = Verdict.rules_out_passthrough

\* Evidence of an address that has been scanned is never touched again.
EvidenceIsFinal ==
  [][ \A a \in DOMAIN evidence : a \in DOMAIN evidence' /\ evidence'[a] = evidence[a]
    ]_allVars

\* The scan of a service ends: with an assessment, or because it raised.
ServiceEnds == <>(Assessed \/ phase = "raised")

-----------------------------------------------------------------------------
(* What the documentation says                                             *)

\* topology.py, on group divergence: "A passthrough VIP forwards the
\* handshake untouched, so this rules passthrough out."
RuledOutMeansNotPassthrough ==
  Assessed /\ Verdict.rules_out_passthrough => world.mode # "passthrough"
=============================================================================
