----------------------------- MODULE TargetScan -----------------------------
(***************************************************************************)
(* The scan of one target (Scanner.scan_target): the default client, the   *)
(* certificate, the browser-shaped client, each group, each TLS version,   *)
(* then the derived postures and the score.  Every step is a connection of *)
(* its own, answered by whichever stack of the pool the balancer picks.    *)
(*                                                                         *)
(* The world is external: stacks with the versions they speak and their    *)
(* groups in order of preference, and a path which may swallow a           *)
(* ClientHello that does not fit one segment.  "Large" is decided by the   *)
(* key shares on offer, as a client sends one for its first groups.        *)
(***************************************************************************)
EXTENDS Probes, Scoring, FiniteSets

CONSTANTS
  InfoGroups,      \* groups the local OpenSSL can offer (info.groups)
  LocalVersions,   \* versions it can offer
  Groups,          \* groups_to_probe()
  DefaultOffer,    \* groups in its default ClientHello
  IncludeLegacy,   \* include_legacy_tls
  Certificates,    \* certificate name -> what it is
  Pools,           \* the sets of stacks that may answer
  Paths,           \* subset of {"clean", "swallows_large"}
  Faults,          \* how a connection may be disturbed
  MaxFaults        \* bound: disturbed connections per scan

TargetStack ==
  [ versions : SUBSET TlsVersion, groups : Seq(STRING), cert : DOMAIN Certificates ]

ASSUME TargetAssumption ==
  /\ LocalVersions \subseteq TlsVersion
  /\ Groups \in Seq(InfoGroups)
  /\ DefaultOffer \subseteq InfoGroups
  /\ \A g \in InfoGroups : Listed(g)
  /\ IncludeLegacy \in BOOLEAN
  /\ \A c \in DOMAIN Certificates : c # None /\ Certificates[c] \in Certificate
  /\ \A P \in Pools : P \subseteq TargetStack
  /\ Paths \subseteq {"clean", "swallows_large"}
  /\ Faults \subseteq FaultKinds
  /\ MaxFaults \in Nat

VARIABLES
  pool, path,         \* ground truth
  phase,              \* "resolve", "sweep", "done" or "raised"
  at,                 \* the connection of the sweep to open next
  probes,             \* result.probes
  default_group,      \* result.default_negotiated_group
  realistic_group,    \* result.preferred_group_realistic
  certificate,        \* result.certificate: a name, None when nothing was read
  protocols,          \* result.protocols
  verdict,            \* <<>> until scored
  upsets              \* history: <<probe, fault>> of the disturbed connections

vars == <<pool, path, phase, at, probes, default_group, realistic_group,
          certificate, protocols, verdict, upsets>>

Versions == IF IncludeLegacy THEN <<"tls1_3", "tls1_2", "tls1_1", "tls1_0">>
                             ELSE <<"tls1_3", "tls1_2">>
Connections ==
  <<"__default__", "__certificate__", "__realistic__">> \o Groups \o Versions

Supported == { i \in DOMAIN probes : probes[i].outcome = "supported" }
SupportedBy(probe) == \E i \in Supported : probes[i].group = probe
supported_groups == { probes[i].group : i \in Supported } \cap ToSet(Groups)

Init ==
  /\ pool \in Pools /\ path \in Paths
  /\ phase = "resolve" /\ at = 1
  /\ probes = <<>>
  /\ default_group = None /\ realistic_group = None
  /\ certificate = None
  /\ protocols = [v \in TlsVersion |-> "unknown"]
  /\ verdict = <<>> /\ upsets = {}

-----------------------------------------------------------------------------
(* The peers and the path                                                  *)

\* A ClientHello carries those of the versions asked for that the client has.
Hello(versions, offered) ==
  [versions |-> versions \cap LocalVersions, offered |-> offered]

DefaultClient == Hello({"tls1_3", "tls1_2"}, DefaultOffer)
RealisticClient == Hello({"tls1_3"}, RealisticHello(InfoGroups).offered)
GroupClient(g) == Hello({"tls1_3"}, {g})
VersionClient(v) == Hello({v}, DefaultOffer)

LargeShare(g) == SpecOf(g).key_share_bytes > 1000
Large(hello) == "tls1_3" \in hello.versions /\ \E g \in hello.offered : LargeShare(g)

\* The group a stack picks: its own first choice among those on offer.
Pick(s, hello) ==
  LET common == { i \in DOMAIN s.groups : s.groups[i] \in hello.offered }
  IN  IF "tls1_3" \in hello.versions \cap s.versions /\ common # {}
      THEN s.groups[CHOOSE i \in common : \A j \in common : i <= j]
      ELSE None

Completes(s, hello) ==
  /\ hello.versions \cap s.versions # {}
  /\ "tls1_3" \in hello.versions \cap s.versions => Pick(s, hello) # None

Swallowed(hello) == path = "swallows_large" /\ Large(hello)

Replies(s, hello) ==
  CASE Swallowed(hello) -> { Killed(None, FALSE), Failed(1, {"reset"}) }
    [] ~Swallowed(hello) /\ Completes(s, hello) ->
         { Transcript(FALSE, 0, TRUE, {}, Pick(s, hello), s.cert) }
    [] hello.versions = {} -> { NoProtocols }
    [] ~Swallowed(hello) /\ ~Completes(s, hello) /\ hello.versions # {} ->
         { Failed(1, {IF hello.versions \cap s.versions = {}
                      THEN "alert_protocol_version" ELSE "alert"}) }

\* A disturbed connection tells nothing of the stack.
Upset(fault) == Disturbed(fault, [speaks |-> "nothing"], <<>>)

\* One connection of the sweep; Handle says what its transcript changes.
Connect(probe, hello, Handle(_)) ==
  \E s \in pool :
    \/ /\ \E t \in Replies(s, hello) : Handle(t)
       /\ UNCHANGED upsets
    \/ /\ Cardinality(upsets) < MaxFaults
       /\ \E f \in Faults :
            /\ \E t \in Upset(f) : Handle(t)
            /\ upsets' = upsets \cup {<<probe, f>>}

-----------------------------------------------------------------------------
(* The steps of scan_target                                                *)

Sweeping(probes_) == phase = "sweep" /\ at <= Len(Connections) /\ Connections[at] \in probes_

ProbeResult(group, t) ==
  LET r == _result_from_output(group, t)
  IN  [group |-> group, outcome |-> r.outcome, negotiated_group |-> r.negotiated_group]

ResolveOk ==
  /\ phase = "resolve" /\ phase' = "sweep"
  /\ UNCHANGED <<pool, path, at, probes, default_group, realistic_group,
                 certificate, protocols, verdict, upsets>>

ResolveRaises ==
  /\ phase = "resolve" /\ phase' = "raised"
  /\ UNCHANGED <<pool, path, at, probes, default_group, realistic_group,
                 certificate, protocols, verdict, upsets>>

\* The certificate is fetched only behind a completed default handshake.
probe_default ==
  /\ Sweeping({"__default__"})
  /\ LET Handle(t) ==
           LET r == ProbeResult("__default__", t)
           IN  /\ probes' = Append(probes, r)
               /\ default_group' = r.negotiated_group
               /\ at' = IF r.outcome = "supported" THEN at + 1 ELSE at + 2
     IN  Connect("__default__", DefaultClient, Handle)
  /\ UNCHANGED <<pool, path, phase, realistic_group, certificate, protocols, verdict>>

\* Mutant of _absorb_certificate: a stalled connection is waited for for ever.
_absorb_certificate_NoTimeout ==
  /\ Sweeping({"__certificate__"})
  /\ LET Handle(t) == /\ certificate' = t.cert
                      /\ phase' = IF t.timed_out THEN "hung" ELSE phase
     IN  Connect("__certificate__", DefaultClient, Handle)
  /\ at' = at + 1
  /\ UNCHANGED <<pool, path, probes, default_group, realistic_group, protocols, verdict>>

_absorb_certificate ==
  /\ Sweeping({"__certificate__"})
  /\ LET Handle(t) == certificate' = IF t.timed_out THEN certificate ELSE t.cert
     IN  Connect("__certificate__", DefaultClient, Handle)
  /\ at' = at + 1
  /\ UNCHANGED <<pool, path, phase, probes, default_group, realistic_group, protocols,
                 verdict>>

probe_realistic ==
  /\ Sweeping({"__realistic__"})
  /\ LET Handle(t) ==
           LET r == ProbeResult("__realistic__", t)
           IN  /\ probes' = Append(probes, r)
               /\ realistic_group' = r.negotiated_group
     IN  Connect("__realistic__", RealisticClient, Handle)
  /\ at' = at + 1
  /\ UNCHANGED <<pool, path, phase, default_group, certificate, protocols, verdict>>

probe_group ==
  /\ Sweeping(ToSet(Groups))
  /\ LET g == Connections[at]
         Handle(t) == probes' = Append(probes, ProbeResult(g, t))
     IN  Connect(g, GroupClient(g), Handle)
  /\ at' = at + 1
  /\ UNCHANGED <<pool, path, phase, default_group, realistic_group, certificate,
                 protocols, verdict>>

\* Mutant of VersionAnswer: a version that timed out is not accepted.
VersionAnswer_TimeoutIsNo(t) ==
  IF t.completed THEN "yes"
  ELSE IF classify_failure(t) = "client_unsupported" \/ "no_protocols" \in t.marks
  THEN "unknown" ELSE "no"

\* Only a timeout and a refusal of the local client leave a version unknown.
VersionAnswer(t) ==
  IF t.timed_out THEN "unknown"
  ELSE IF t.completed THEN "yes"
  ELSE IF classify_failure(t) = "client_unsupported" \/ "no_protocols" \in t.marks
  THEN "unknown" ELSE "no"

probe_protocols ==
  /\ Sweeping(TlsVersion)
  /\ LET v == Connections[at]
         Handle(t) == protocols' = [protocols EXCEPT ![v] = VersionAnswer(t)]
     IN  Connect(v, VersionClient(v), Handle)
  /\ at' = at + 1
  /\ UNCHANGED <<pool, path, phase, probes, default_group, realistic_group,
                 certificate, verdict>>

-----------------------------------------------------------------------------
(* _derive and the score                                                   *)

\* A catalog group is judged by its key share, a draft group is not.
Catalogued(i, low, high) ==
  \E g \in ToSet(GROUP_CATALOG) :
    g.name = probes[i].group /\ g.key_share_bytes > low /\ g.key_share_bytes < high

\* Mutant of _suspect_large_ch: any failure of a large ClientHello is silence.
_suspect_large_ch_AnyFailure ==
  /\ \E i \in Supported : Catalogued(i, 0, 300)
  /\ \E i \in DOMAIN probes : Catalogued(i, 1000, 10000) /\ i \notin Supported

\* Mutant of _suspect_large_ch: a reset is taken for an answer.
_suspect_large_ch_TimeoutsOnly ==
  /\ \E i \in Supported : Catalogued(i, 0, 300)
  /\ \E i \in DOMAIN probes :
       Catalogued(i, 1000, 10000) /\ probes[i].outcome = "timeout"

_suspect_large_ch ==
  /\ \E i \in Supported : Catalogued(i, 0, 300)
  /\ \E i \in DOMAIN probes :
       /\ probes[i].group \in InfoGroups
       /\ Catalogued(i, 1000, 10000)
       /\ probes[i].outcome \in {"transport_failed", "timeout"}

\* `realistic or default`: the browser-shaped probe is asked first.
_derive ==
  [ reachable |-> Supported # {},
    supported_groups |-> supported_groups,
    hybrid_supported |-> \E g \in supported_groups : kind_of(g) = "hybrid",
    hybrid_preferred |->
      kind_of(IF realistic_group # None THEN realistic_group ELSE default_group) = "hybrid",
    protocols |-> protocols,
    large_clienthello_suspected |-> _suspect_large_ch,
    certificate |-> IF certificate = None THEN NoCertificate ELSE Certificates[certificate] ]

Score ==
  /\ phase = "sweep" /\ at > Len(Connections)
  /\ phase' = "done"
  /\ \E result \in {_derive} : verdict' = <<score_target(result)>>
  /\ UNCHANGED <<pool, path, at, probes, default_group, realistic_group, certificate,
                 protocols, upsets>>

\* A name that does not resolve is scored as it is: nothing was reached, and
\* the derived postures, which score_target does not read then, are the defaults.
ResolveFails ==
  /\ phase = "resolve" /\ phase' = "done"
  /\ verdict' = <<score_target(_derive)>>
  /\ UNCHANGED <<pool, path, at, probes, default_group, realistic_group, certificate,
                 protocols, upsets>>

Next ==
  \/ ResolveOk \/ ResolveFails \/ ResolveRaises
  \/ probe_default \/ _absorb_certificate \/ probe_realistic \/ probe_group
  \/ probe_protocols \/ Score

Spec == Init /\ [][Next]_vars

\* getaddrinfo returns and every s_client run is cut off by its timeout.
FairSpec == Spec /\ WF_vars(Next)
-----------------------------------------------------------------------------
(* What the scan of a target promises                                      *)

TargetTypeOK ==
  /\ pool \in Pools /\ path \in Paths
  /\ phase \in {"resolve", "sweep", "done", "raised"}
  /\ at \in 1 .. Len(Connections) + 1
  /\ \A i \in DOMAIN probes :
       /\ probes[i].group \in ToSet(Groups) \cup {"__default__", "__realistic__"}
       /\ probes[i].outcome \in Outcome
  /\ default_group \in DefaultOffer \cup {None}
  /\ realistic_group \in RealisticHello(InfoGroups).offered \cup {None}
  /\ certificate \in DOMAIN Certificates \cup {None}
  /\ protocols \in [TlsVersion -> Known]
  /\ Cardinality(upsets) <= MaxFaults
  /\ phase = "done" <=> verdict # <<>>
  /\ verdict # <<>> => verdict[1].score \in 0 .. 100

Scored == verdict # <<>>
Found(code) == code \in verdict[1].findings
Speak13(s) == "tls1_3" \in s.versions
Hybrids(s) == { g \in ToSet(s.groups) : kind_of(g) = "hybrid" }

\* No hygiene makes up for the key exchange: grades A and B are given only
\* when some stack behind the address negotiates a hybrid group, and A only
\* when one picked it for a client that offered classical groups as well,
\* whatever was disturbed on the way.
GradesAreEarned ==
  Scored =>
    /\ verdict[1].grade \in {"A", "B"} =>
         \E s \in pool : Speak13(s) /\ Hybrids(s) # {}
    /\ verdict[1].grade = "A" =>
         \E s \in pool : \E h \in { DefaultOffer, RealisticHello(InfoGroups).offered } :
           Speak13(s) /\ kind_of(Pick(s, Hello({"tls1_3"}, h))) = "hybrid"

\* LARGE_CLIENTHELLO_INTOLERANCE is raised only if the path swallows large
\* ClientHellos, or the connection of a group with a large key share was
\* itself cut off, reset or never started: no alert, no refused port, no
\* resolver hiccup and no option the local client lacks ever raises it.
SuspicionHasCause ==
  Scored /\ Found("LARGE_CLIENTHELLO_INTOLERANCE") =>
    \/ path = "swallows_large"
    \/ \E u \in upsets :
         /\ u[1] \in ToSet(Groups) /\ LargeShare(u[1])
         /\ u[2] \in {"stall", "reset", "spawn"}

\* A path that swallows large ClientHellos is found, although the first two
\* probes die on it as well, if a large group of the standard catalog is in
\* the sweep: it is enough that every member accepts the small ones.
SmallGroups == { g \in ToSet(Groups) : SpecOf(g).key_share_bytes < 300 }

MiddleboxIsFound ==
  /\ Scored /\ path = "swallows_large" /\ upsets = {}
  /\ probes # <<>>
  /\ \E g \in ToSet(GROUP_CATALOG) :
       g.name \in ToSet(Groups) /\ Large(GroupClient(g.name))
  /\ SmallGroups # {}
  /\ \A s \in pool : Speak13(s) /\ SmallGroups \subseteq ToSet(s.groups)
  => Found("LARGE_CLIENTHELLO_INTOLERANCE")

\* "Unknown" is kept apart from "no": a version is reported as not accepted
\* only if the client could offer it and some stack declined it or the path
\* swallowed the ClientHello, or if the connection was lost other than by a
\* timeout or the local client; it is reported as accepted only if some stack
\* speaks it.
VersionsHaveCause ==
  \A v \in TlsVersion :
    /\ protocols[v] = "yes" => \E s \in pool : v \in s.versions
    /\ protocols[v] = "no" =>
         \/ v \in LocalVersions /\ \E s \in pool : ~Completes(s, VersionClient(v))
         \/ Swallowed(VersionClient(v))
         \/ \E u \in upsets : u[1] = v /\ u[2] \notin {"stall", "option", "no_protocols"}

\* What a client that loses nothing finds out about a stack.
Reached(s) ==
  \E hello \in {DefaultClient, RealisticClient} \cup { GroupClient(g) : g \in ToSet(Groups) } :
    Completes(s, hello)
Asked == LocalVersions \cap ToSet(Versions)
Accepted(s, v) == v \in Asked /\ Completes(s, VersionClient(v))
Declined(s, v) == v \in Asked /\ ~Completes(s, VersionClient(v))

\* The score a uniform target has by rights, read off its configuration.
PrefersHybrid(s) ==
  LET realistic == Pick(s, RealisticClient)
  IN  kind_of(IF realistic # None THEN realistic ELSE Pick(s, DefaultClient)) = "hybrid"

IdealKex(s) ==
  IF PrefersHybrid(s) THEN 60
  ELSE IF \E g \in ToSet(Groups) : kind_of(g) = "hybrid" /\ Completes(s, GroupClient(g))
  THEN 40
  ELSE IF Accepted(s, "tls1_3") THEN 10 ELSE 0

\* The certificate counts if the default client gets to see it.
IdealHygiene(s) ==
  LET c == IF Completes(s, DefaultClient) THEN Certificates[s.cert] ELSE NoCertificate
  IN  (IF Accepted(s, "tls1_3") THEN 10 ELSE 0)
      + (IF Declined(s, "tls1_2") THEN 5 ELSE 0)
      + (IF Declined(s, "tls1_1") /\ Declined(s, "tls1_0") THEN 5 ELSE 0)
      + 10
      + (IF c.expiry = "later" THEN 5 ELSE 0) + (IF c.weak THEN 0 ELSE 5)

Ideal(s) == IF Reached(s) THEN IdealKex(s) + IdealHygiene(s) ELSE 0

\* On a clean path the score of a uniform target that was probed is the ideal
\* one.  Stalled connections can only lower it, with two exceptions: nothing is
\* held against a certificate that could not be fetched, and the default
\* client's hybrid group counts for a browser-shaped probe that was lost.
ScoreIsIdeal ==
  Scored /\ path = "clean" /\ probes # <<>> =>
    \A s \in pool : pool = {s} =>
      LET lost == { u[1] : u \in upsets } IN
      /\ upsets = {} => verdict[1].score = Ideal(s)
      /\ /\ \A u \in upsets : u[2] = "stall"
         /\ lost \cap {"__default__", "__certificate__"} = {}
         /\ "__realistic__" \in lost =>
              (kind_of(Pick(s, DefaultClient)) = "hybrid" => PrefersHybrid(s))
         => verdict[1].score <= Ideal(s)

\* Nothing a peer or the path does keeps the scan of a target from ending.
TargetEnds == <>(phase \in {"done", "raised"})

-----------------------------------------------------------------------------
(* What the documentation says                                             *)

\* scoring.py, NO_TLS13: "No TLS 1.3. Post-quantum key exchange is not
\* reachable at all".
NoTls13IsTrue ==
  Scored /\ Found("NO_TLS13") => \A s \in pool : ~Speak13(s)
=============================================================================
