---------------------------- MODULE EndpointScan ----------------------------
(***************************************************************************)
(* The scan of one address (ServiceScanner.scan_endpoint and _one_pass).   *)
(* The name is resolved once; then `passes` sweeps run one probe after     *)
(* another, and every probe opens a connection of its own.  Which stack of *)
(* the pool behind the address answers is the balancer's choice, made anew *)
(* for each connection, and each connection may be disturbed on its way.   *)
(***************************************************************************)
EXTENDS Probes, Evidence

CONSTANTS
  AllGroups,     \* every group a stack or a client may be configured with
  InfoGroups,    \* groups the local OpenSSL can offer (info.groups)
  Groups,        \* groups_to_probe(): the group probes of one pass, in order
  DefaultOffer,  \* groups in s_client's default ClientHello
  Certs,         \* leaf fingerprints the stacks may present
  Pools,         \* the sets of stacks that may live behind the address
  Repeats,       \* endpoint.repeat; the inventory does not keep it positive
  Faults,        \* how the path may disturb a connection
  MaxFaults      \* bound: disturbed connections per scan

Stack == [speaks : Speech, groups : SUBSET AllGroups, cert : Certs]

ASSUME GroupsAssumption ==
  /\ AllGroups \cap Sentinels = {}
  /\ "X25519" \in AllGroups
  /\ InfoGroups \subseteq AllGroups
  /\ DefaultOffer \subseteq AllGroups
  /\ Groups \in Seq(InfoGroups)
  /\ \A i, j \in DOMAIN Groups : Groups[i] = Groups[j] => i = j  \* the catalog has no doubles

ASSUME WorldAssumption ==
  /\ Certs \cap {None, Unidentified} = {}
  /\ \A P \in Pools : P \subseteq Stack
  /\ Repeats \subseteq Int
  /\ Faults \subseteq FaultKinds
  /\ MaxFaults \in Nat

VARIABLES
  pool,      \* ground truth: the stacks behind the address
  passes,    \* evidence.passes, copied from endpoint.repeat
  phase,     \* where scan_endpoint is
  index,     \* the pass being run
  step,      \* the probe of that pass to run next
  obs,       \* evidence.observations
  answered,  \* history: the stack each probe met, and what disturbed it
  faults     \* disturbed connections so far

vars == <<pool, passes, phase, index, step, obs, answered, faults>>

\* One pass: the default client, the browser-shaped one, then every group.
Sweep == <<"__default__", "__realistic__">> \o Groups

Phases == {"resolve", "sweep", "done", "raised"}
Over == phase \in {"done", "raised"}

Observation ==
  [ group_offered : Sentinels \cup InfoGroups, outcome : Outcome,
    negotiated_group : AllGroups \cup {None}, peer : Certs \cup {None} ]

Init ==
  /\ pool \in Pools
  /\ passes \in Repeats
  /\ phase = "resolve"
  /\ index = 0
  /\ step = 1
  /\ obs = <<>>
  /\ answered = <<>>
  /\ faults = 0

-----------------------------------------------------------------------------
(* The resolver                                                            *)

\* Mutant of ResolveOk: the sweep is entered whatever the repeat count.
ResolveOk_AlwaysSweeps ==
  /\ phase = "resolve"
  /\ phase' = "sweep"
  /\ UNCHANGED <<pool, passes, index, step, obs, answered, faults>>

\* range(passes) is empty when passes <= 0.
ResolveOk ==
  /\ phase = "resolve"
  /\ phase' = IF passes > 0 THEN "sweep" ELSE "done"
  /\ UNCHANGED <<pool, passes, index, step, obs, answered, faults>>

ResolveFails ==
  /\ phase = "resolve"
  /\ phase' = "done"
  /\ obs' = Append(obs, [ group_offered |-> "__resolve__", outcome |-> "dns_failed",
                          negotiated_group |-> None, peer |-> None ])
  /\ UNCHANGED <<pool, passes, index, step, answered, faults>>

\* getaddrinfo raises something other than gaierror (a label IDNA refuses).
ResolveRaises ==
  /\ phase = "resolve"
  /\ phase' = "raised"
  /\ UNCHANGED <<pool, passes, index, step, obs, answered, faults>>

-----------------------------------------------------------------------------
(* The probes                                                              *)

\* Mutant of record: the loop over the groups runs one step too far.
record_LateWrap(group, stack, fault, t) ==
  /\ obs' = Append(obs, _result_from_output(group, t))
  /\ answered' = Append(answered, [stack |-> stack, fault |-> fault])
  /\ IF step <= Len(Sweep)
     THEN step' = step + 1 /\ UNCHANGED <<index, phase>>
     ELSE /\ step' = 1
          /\ index' = index + 1
          /\ phase' = IF index + 1 < passes THEN phase ELSE "done"

\* The inner function record(), then the loops' bookkeeping.
record(group, stack, fault, t) ==
  /\ obs' = Append(obs, _result_from_output(group, t))
  /\ answered' = Append(answered, [stack |-> stack, fault |-> fault])
  /\ IF step < Len(Sweep)
     THEN step' = step + 1 /\ UNCHANGED <<index, phase>>
     ELSE /\ step' = 1
          /\ index' = index + 1
          /\ phase' = IF index + 1 < passes THEN phase ELSE "done"

\* Mutant of Invoke: s_client runs without a timeout, so a stalled connection
\* is waited for for ever.
Invoke_NoTimeout(group, hello) ==
  \E s \in pool :
    \/ /\ \E t \in { u \in Answers(s, hello) : ~u.timed_out } :
            record(group, s, None, t)
       /\ UNCHANGED faults
    \/ /\ faults < MaxFaults
       /\ \E f \in Faults \ {"stall"} : \E t \in Disturbed(f, s, hello) :
            record(group, s, f, t)
       /\ faults' = faults + 1
    \/ /\ "stall" \in Faults /\ faults < MaxFaults
       /\ phase' = "hung"
       /\ faults' = faults + 1
       /\ UNCHANGED <<index, step, obs, answered>>

\* One s_client run against whichever stack the balancer picks.
Invoke(group, hello) ==
  \E s \in pool :
    \/ /\ \E t \in Answers(s, hello) : record(group, s, None, t)
       /\ UNCHANGED faults
    \/ /\ faults < MaxFaults
       /\ \E f \in Faults : \E t \in Disturbed(f, s, hello) :
            record(group, s, f, t)
       /\ faults' = faults + 1

probe_default_detailed ==
  /\ phase = "sweep" /\ step = 1
  /\ Invoke("__default__", DefaultHello(DefaultOffer))
  /\ UNCHANGED <<pool, passes>>

probe_realistic_detailed ==
  /\ phase = "sweep" /\ step = 2
  /\ Invoke("__realistic__", RealisticHello(InfoGroups))
  /\ UNCHANGED <<pool, passes>>

\* Its guard `group not in info.groups` is dead: Groups has been filtered.
probe_group_detailed ==
  /\ phase = "sweep" /\ step > 2
  /\ Invoke(Sweep[step], GroupHello(Sweep[step]))
  /\ UNCHANGED <<pool, passes>>

Next ==
  \/ ResolveOk \/ ResolveFails \/ ResolveRaises
  \/ probe_default_detailed \/ probe_realistic_detailed \/ probe_group_detailed

Spec == Init /\ [][Next]_vars

\* getaddrinfo returns and every s_client run is cut off by its timeout.
FairSpec == Spec /\ WF_vars(Next)

-----------------------------------------------------------------------------
(* What the code promises                                                  *)

TypeOK ==
  /\ pool \in Pools
  /\ passes \in Repeats
  /\ phase \in Phases
  /\ index \in Nat
  /\ step \in DOMAIN Sweep
  /\ obs \in Seq(Observation)
  /\ answered \in Seq([stack : pool, fault : Faults \cup {None}])
  /\ faults \in 0 .. MaxFaults

\* A TLS stack of the pool that refuses a ClientHello offering only g.
Declines(s, g) == s.speaks \in {"tls1_3", "tls1_2"} /\ ~Accepts(s, GroupHello(g))

CellIs(p, g, state) ==
  /\ p \in RowPeers(obs) /\ g \in RowGroups(obs, p)
  /\ support_matrix(obs)[p][g] = state

\* Whatever was disturbed, delayed or lost, a cell of the support matrix says
\* observed_supported only if a stack that really presents that certificate
\* really negotiates that group in TLS 1.3.
SupportIsReal ==
  \A p \in RowPeers(obs) : \A g \in RowGroups(obs, p) :
    CellIs(p, g, "observed_supported") =>
      \E s \in pool : s.cert = p /\ s.speaks = "tls1_3" /\ g \in s.groups

Undisturbed(i) == answered[i].fault = None

\* Behind every observed_rejected there is a connection for that very group on
\* which a peer of the pool answered and did not take it (an alert when it
\* speaks TLS; a plaintext peer's reply counts as well), or which the local
\* client could not offer any TLS version on.  Silence, a reset, a refused
\* port, a name that does not resolve and every other local failure never turn
\* into a refusal.  RejectionIsThePeers is the claim without the exception.
RefusalHasCause ==
  \A p \in RowPeers(obs) : \A g \in RowGroups(obs, p) :
    CellIs(p, g, "observed_rejected") =>
      \E i \in DOMAIN answered :
        /\ obs[i].group_offered = g
        /\ \/ /\ Undisturbed(i)
              /\ \/ Declines(answered[i].stack, g)
                 \/ answered[i].stack.speaks = "plaintext"
           \/ answered[i].fault = "no_protocols"

\* Aggregation order does not matter: one more observation can only raise a
\* cell, so a late timeout never erases a success or an explicit rejection.
SupportNeverRetracted ==
  [][ \A p \in RowPeers(obs) : \A g \in RowGroups(obs, p) :
        Rank[support_matrix(obs)[p][g]] <= Rank[support_matrix(obs')[p][g]] ]_vars

\* The disturbances whose outcome counts when the answers are compared.
TakenForAnswers == {"stall", "reset", "close", "spawn", "no_protocols"}

\* A group is called inconsistent only if two members of the pool really
\* differ on it, or a connection of that very group was cut off, reset, never
\* started or had no TLS version to offer: a resolver hiccup, a refused port,
\* an option the local client does not know and anything that befell another
\* group never count as an answer.
InconsistencyHasCause ==
  \A g \in inconsistencies(obs) :
    \/ \E s, t \in pool : Accepts(s, GroupHello(g)) /\ ~Accepts(t, GroupHello(g))
    \/ \E i \in DOMAIN answered :
         obs[i].group_offered = g /\ answered[i].fault \in TakenForAnswers

\* And it misses nothing that was seen: when one member accepted a group
\* and another declined it, the group is named, the shared certificate and
\* any number of disturbed probes in between notwithstanding.
DivergenceIsReported ==
  \A i, j \in DOMAIN answered :
    LET g == obs[i].group_offered IN
    /\ GroupProbe(obs[i]) /\ obs[j].group_offered = g
    /\ Undisturbed(i) /\ Accepts(answered[i].stack, GroupHello(g))
    /\ Undisturbed(j) /\ Declines(answered[j].stack, g)
    => g \in inconsistencies(obs)

\* A finished scan of a name that resolved has run each probe of the pass
\* exactly `passes` times, none at all for a repeat count below one.
Resolved == ~ \E i \in DOMAIN obs : obs[i].group_offered = "__resolve__"

SweepIsComplete ==
  phase = "done" /\ Resolved =>
    \A k \in DOMAIN Sweep :
      Cardinality({ i \in DOMAIN obs : obs[i].group_offered = Sweep[k] })
        = IF passes > 0 THEN passes ELSE 0

\* evidence.py, inconsistencies(): "One ClientHello answered two different
\* ways from one address means more than one TLS configuration is live behind
\* it."
InconsistencyIsProof ==
  \A g \in inconsistencies(obs) :
    \E s, t \in pool : Accepts(s, GroupHello(g)) /\ ~Accepts(t, GroupHello(g))

\* README.md, "The three-state support matrix": an `observed_rejected` cell means
\* "the peer sent an alert declining it".
RejectionIsThePeers ==
  \A p \in RowPeers(obs) : \A g \in RowGroups(obs, p) :
    CellIs(p, g, "observed_rejected") =>
      \E i \in DOMAIN answered :
        obs[i].group_offered = g /\ Undisturbed(i) /\ Declines(answered[i].stack, g)

\* The claims of the support matrix; the scan implements the ledger of them.
Claims ==
  { c \in (Certs \cup {Unidentified}) \X ToSet(Groups) : CellIs(c[1], c[2], "observed_supported") }

Ledger == INSTANCE EvidenceLedger WITH
            LedgerPools <- Pools, claims <- Claims, open <- ~Over

\* Everything a scan does to the support matrix is entering true claims, one
\* at a time, never removing one.
ImplementsLedger == Ledger!Spec

\* Nothing a peer or the path does keeps the scan of an address from ending.
ScanEnds == <>Over
=============================================================================
