# pqc-posture in TLA+

`pqc-posture` measures whether TLS endpoints can negotiate post-quantum hybrid
key exchange. It runs `openssl s_client` once per question, classifies the
output, keeps every answer as evidence, and concludes: which groups an address
supports, whether the pool behind it is uniform, and where TLS ends between a
frontend and its backends. It measures a system it cannot see into: a balancer
picks another machine for each connection, connections stall or are reset, and
names stop resolving. The models below put a ground truth (the pools) beside
the code's evidence and ask whether what the code says follows from it.

## Inventory

| Part | Source | State | Operations |
|---|---|---|---|
| Vocabulary | `models.py` | constant tables | the group catalog, the outcomes |
| Probe, classification | `probes.py`, `openssl.py` | none; one subprocess per probe | `_invoke`, `_result_from_output`, `classify_failure`, `probe_*`, `resolve` |
| Evidence | `evidence.py` | the list of observations of one address | aggregations computed when read |
| Endpoint scan | `service.py` | position in the sweep | `scan_endpoint`, `_one_pass` |
| Topology | `topology.py` | none | `assess` |
| Service scan | `service.py` | `ServiceResult` under construction | `scan_service` |
| Batch | `service.py`, `scanner.py` | futures, results by name, thread pool | `scan_all`, `Scanner.scan` |
| Target scan | `scanner.py` | `TargetResult` under construction | `scan_target`, `_derive`, `_suspect_large_ch` |
| Scoring | `scoring.py` | score, grade, findings of a target | `score_target`, `score_breakdown` |
| Discovery | `openssl.py` | candidates, the newest old client, `OpenSSLInfo` | `discover`, `_inspect`, `detect_groups` |
| Inventory | `inventory.py` | declared services | `load_inventory`, `parse_service`, `_parse_endpoint`, the coercions |
| Command line | `cli.py` | targets, services, exit code | `main`, `parse_target`, `load_targets`, `_run_inventory` |
| Reports | `report.py` | none | `render_endpoint_evidence`, other rendering |

**Interaction.** The command line loads an inventory (or a list of targets),
discovers an OpenSSL, and hands the entries to a scanner. The scanner puts one
job per entry on a thread pool. A job scans its addresses one after another; a
scan of an address is a sequence of blocking probes. Jobs share nothing but the
immutable `OpenSSLInfo`; the caller's thread alone touches the dict of results.
Evidence flows one way: probe, observation, aggregation, assessment, report.

**What is hard.**

* Each probe is a connection of its own, answered by a member of the pool that
  the balancer picks. The observations of one sweep may be of several stacks,
  with one certificate or several.
* Any connection may stall before, during or after the handshake, be reset or
  refused, or fail locally. What is left in the output, and the order in which
  the classifier looks for it, decide what is recorded.
* Aggregation mixes passes and peers, and topology compares aggregates of
  incomplete evidence.
* Jobs finish in any order or raise, and results are filed by name.
* Discovery runs foreign binaries, each run with a timeout; what the client can
  offer depends on which of them were cut off.
* A run has many ways to end early, and its exit code is an interface: 1 is both
  "threshold not met" and what Python says of an exception.

**What makes each part correct.** Classification: a local failure or silence is
not recorded as an answer of the peer, with the exceptions listed under
"Runs". Evidence: claims are true of some peer,
are not retracted by later answers, and divergence that was seen is reported.
Endpoint scan: every probe of every pass runs once, and the scan ends. Topology:
verdicts have grounds, high confidence is not wrong, declarations are compared
and not believed. Batch: each entry gets its own result at its own place,
whatever its neighbours do. Discovery: the best client of the search order is
used, and credited with what it can do. Inventory: what is declared is what is
carried along, or the file is refused. Command line: the exit code is true of
what was scanned. Report: what is not known is said to be.

## Modules

| Module | Models | Uses |
|---|---|---|
| `Models` | catalogs, outcomes, `groups_to_probe` | |
| `Probes` | the classifier and the three ClientHellos; external: the peers' answers and the path | `Models` |
| `Evidence` | aggregations of the observations of one address, stated by their result | `Models` |
| `EvidenceFold` | the same aggregations as the loops of the code run them, one iteration a step, on arbitrary observations | `Evidence` |
| `EvidenceLedger` | abstract: true claims are entered one at a time, none is removed | |
| `EndpointScan` | `scan_endpoint` and `_one_pass` against a pool | `Probes`, `Evidence`; implements `EvidenceLedger` |
| `Topology` | `assess` | `Evidence` |
| `ServiceScan` | `scan_service` against a deployment | `EndpointScan`, `Topology` |
| `BatchPromise` | abstract: each job settles once, then one report is published | |
| `Scoring` | `score_target`: points, grade, codes of the findings; `score_breakdown` | `Models` |
| `TargetScan` | `scan_target`, `probe_protocols`, `_derive`, `_suspect_large_ch` against a pool and a path | `Probes`, `Scoring` |
| `Batch` | `scan_all` / `Scanner.scan` on a thread pool: jobs with a name, what they may return, and a stand-in | implements `BatchPromise` |
| `Report` | what the text report of an address says | `EndpointScan` |
| `Discovery` | `discover`, `_inspect`, `detect_groups`; external: the binaries of the machine | `Models` |
| `Addresses` | reading and writing `host:port`, targets, labels | |
| `Inventory` | coercions, `parse_service`, `load_inventory` | `Addresses` |
| `CommandLine` | `main` and `_run_inventory` | `Discovery`, `Inventory`, `Batch`, `Scoring` |
| `Probes_proofs` | the classifier's table, read forwards and backwards | `Probes` |
| `EndpointScan_proofs` | types, soundness and monotony of the evidence of an address; where refusals and inconsistencies come from, completeness of the sweep and of the report, the ledger refinement | `EndpointScan`, `Report`, `Probes_proofs` |
| `ServiceScan_proofs` | what the evidence and the assessment of a service say of what is deployed | `ServiceScan`, `EndpointScan_proofs` |
| `EvidenceFold_proofs` | the loops against what `Evidence` says | `EvidenceFold` |
| `TargetScan_proofs` | the arithmetic of the score; what the grades, versions and findings of a target say of its pool and path; the score of a uniform target | `TargetScan`, `Probes_proofs` |
| `Discovery_proofs`, `Batch_proofs` | invariants of the two parts of a run, for any caller | `Discovery`, `Batch` |
| `CommandLine_proofs` | the theorems about a run of the command, from those of its parts, and about what it reads, dials and reports | `CommandLine`, `Discovery_proofs`, `Batch_proofs` |
| `MCEndpointScan`, `MCServiceScan`, `MCTargetScan`, `MCCommandLine` | small instances | |

### State and actions

`Probes.Transcript` is the abstraction of a run of `s_client`: whether the
timeout killed it, its exit code, whether a real ciphersuite line was printed,
which error phrases occur, the negotiated group and the leaf certificate. The
classifier works on that record, phrase by phrase in the order of the code. A
*stack* (external) is one TLS configuration: what it speaks, the groups it
accepts in TLS 1.3, its certificate. `Answers` gives what an undisturbed
connection to a stack can print, `Disturbed` what a fault can make of it; a
stalled run may already have printed the certificate, or even the completed
handshake, and is a timeout all the same. Some faults are local: the process is
not started, the option is unknown, or the client has no TLS version left to offer
(`NoProtocols`), which `s_client` reports before it sends a packet. A client with TLS
1.3 switched off is one each of whose TLS 1.3 probes takes that fault.

`EndpointScan` keeps `obs` (`evidence.observations`), `passes`, the pass and the
probe to run next, and the pool. `ResolveOk`, `ResolveFails` and `ResolveRaises`
are the three ways `probes.resolve` can end (found, `gaierror`, any other
exception). `probe_default_detailed`, `probe_realistic_detailed` and
`probe_group_detailed` each run one probe against a stack of the pool and append
the observation. `answered` is a history variable: it says which stack each
probe reached and whether the connection was disturbed. The code does not have
it; only properties read it. The probe of one address is atomic: nothing else
touches its evidence, and what happens within `s_client` shows only in the
transcript.

`ServiceScan` extends `EndpointScan`: the address under `cursor` is the one being
scanned, `NextAddress` files its evidence and starts the next one, and `Assess`
files the last, assesses, and computes the coverage notes. `world` is what is
deployed, `service` the inventory entry.

`TargetScan` is the other scanner. A pass is a list of `Connections` (the default
client, the certificate, the browser-shaped client, each group, each TLS
version), with one action per kind. Its stacks speak any set of versions and
prefer groups in an order; the path may swallow a ClientHello with a large key
share, which is what the code's heuristic looks for. The fields of
`TargetResult` are variables or, where the code only accumulates them from the
probes, operators (`supported_groups`, `reachable`). What a ClientHello offers is what was
asked for and what the client has (`Hello`, `LocalVersions`); one left without a
version is answered by `NoProtocols` for every kind of probe. `Score` derives the
postures and scores them. `upsets` is a history variable naming the disturbed
connections. `Connect` takes the handler of a transcript as a parameter: which
stack answers and what is disturbed is the same for every probe, what is
recorded is not.

`Batch` has the caller (`Submit`, `Collect`, `Report`) and the threads (`Take`,
`Return`, `Raise`). `Collect` may take any finished future. The dict of results
is a function from names, so two entries of one name share a slot as in Python.
The entries and the size of the pool are handed over by `Start`, which the
command line calls; until then the batch is idle.

`Discovery` has one action per turn of the loop over the candidates: `Skip` for
a path that holds nothing to run, `Inspect` for one that does, `Settle` after
the last. Each run of a binary (`version`, `list`, `-help`, the trial of a
group) may be cut off by its timeout where the machine is slow; the history
variable `cut` remembers which were.

`Inventory` and `Addresses` are functions. A reading gives a value or raises an
exception whose class is kept, because the command line catches some classes
and not others. A text is the sequence of its delimiters and of the words
between them, so that bracketed and bare IPv6 hosts are told apart as the code
tells them apart; a declared word is given in the spelling the coercions see
after folding case and separators. A JSON object is a record with the keys it
has: a key that is missing and one that is null differ where the code makes
them differ.

`CommandLine` goes through `parse`, `discover`, `load`, `scan` and `gate`. One
action per phase, with the early returns and the exceptions that nothing
catches (`Crash`) as its alternatives; `Search` is a step of `Discovery`,
`Scan` and `PoolWork` are steps of `Batch`. The arguments include the contents
of the files they name. A scan of a target is abstracted to the score it ends
with, one of a service to its declared context, which are the parts that the
command line, the batch and the stand-ins handle; `TargetScan` and
`ServiceScan` model the scans. `Report` reads the evidence of a finished
`EndpointScan`.

## Runs

| Run | Instance | Shows |
|---|---|---|
| `endpoint_scan` | six pools of one or two TLS stacks, two passes, one disturbance of any kind | `TypeOK`, `SupportIsReal`, `InconsistencyHasCause`, `DivergenceIsReported`, `SupportNeverRetracted` |
| `endpoint_broken` | also plaintext and dead members; repeat -1, 0, 1; two disturbances | `SweepIsComplete`, `RefusalHasCause`, `OmissionsHaveCause`, `ScanEnds`, `ImplementsLedger` |
| `evidence_fold` | every sequence of three observations over two groups and two certificates | `MatrixIsBestOf`, `InconsistenciesAgree`, `FirstNegotiatedAgrees` |
| `service_scan` | fifteen deployments, an entry with and one without a frontend, one disturbance | `ServiceTypeOK`, `PassthroughVerdictHasGrounds`, `HighConfidenceIsSound`, `UniformPassthroughIsRecognised`, `SilentBackendsDoNotCount`, `DeclarationsNeverSteer`, `EvidenceIsFinal`, `ServiceEnds` |
| `service_pool` | passthrough to one or two members, two passes at the frontend | `ConflictsAreTrue` |
| `target_scan` | a client without TLS 1.0, ten pools of one or two stacks, a clean path and one that swallows large ClientHellos, one disturbance | `TargetTypeOK`, `GradesAreEarned`, `SuspicionHasCause`, `MiddleboxIsFound`, `VersionsHaveCause`, `ScoreIsIdeal`, `TargetEnds` |
| `command_line` | 28 runs that search seven machines, 8 that read targets, 8 batches on -1 to 5 threads, 18 with sound and 12 with unsound inventories | `CommandTypeOK`, `BestClient`, `GroupsAreTheClients`, `ReportIsOwn`, `EachJobOnce`, `ExitCodeTellsTruth`, `ContextIsDeclared`, `AddressesReadBack`, `SweepsAreAskedFor`, `CommandEnds`, `ImplementsPromise` |
| `inconsistency_is_proof` | uniform pool, one stall | violation of `InconsistencyIsProof` |
| `endpoint_unoffered` | a client without TLS 1.3, a TLS 1.2 peer | violation of `RejectionIsThePeers` |
| `passthrough_ruled_out` | one backend behind a passthrough frontend, one stall | violation of `RuledOutMeansNotPassthrough` |
| `no_tls13` | a TLS 1.3 stack behind a path that swallows large ClientHellos | violation of `NoTls13IsTrue` |
| `two_snis` | two targets on one host and port, `--min-grade B` | violation of `GateIsSound` |

Five runs end in a counterexample, each a disagreement between the code and its
documentation:

* `inconsistencies()` counts a timeout or a reset as an answer. A uniform pool
  with one stalled connection is reported as running "more than one TLS
  configuration". What does hold is `InconsistencyHasCause`: no other kind of
  failure, and no failure on another group, has that effect.
* The classifier takes `s_client`'s own "no protocols available" for an answer of the
  peer (`openssl.py:342-345`), and the matrix files it as `observed_rejected`. With TLS 1.3
  switched off in the client, the default handshake with a TLS 1.2 server
  completes, every group probe fails locally and is filed as rejected, and the
  text report mentions none of these groups: they are neither in the row of a
  peer nor under NOT OBSERVED. `probe_protocols` reads the same text as "local
  client cannot offer it". What holds is `RefusalHasCause` and `OmissionsHaveCause`, in
  which this fault is the one exception.
* Topology compares group sets as if they were complete. One stalled probe makes
  them differ and "rules passthrough out". With different certificates such a
  difference gives high confidence; `HighConfidenceIsSound` shows that this does
  not happen to a passthrough frontend as long as every member is declared as a
  backend, alone at its address, and answered. Behind an address that two
  stacks share, the one the frontend reached may never answer: `SpareCert` is
  that deployment, on which the verdict is wrong with high confidence.
* A target behind a middlebox that swallows large ClientHellos is reported as
  having no TLS 1.3: the version probe offers the default groups and dies, while
  the X25519 probe of the same scan completed in TLS 1.3.
* Results of targets are filed under `host:port`, which targets that differ in
  their SNI share. The result collected last is listed twice, and `--min-grade`
  passes although the other one fails it. With distinct labels (`command_line`)
  report and gate are right, which `ExitCodeTellsTruth` states together with
  the meaning of the other codes.

What else the models show, where the documentation is silent or only loosely
contradicted, and which the properties take as it is:

* A target that cannot be parsed, a targets file that cannot be read and a JSON
  file that cannot be written end the run by an exception, hence with exit code
  1, which `cli.py:5` reserves for thresholds. So does an inventory entry that
  is a string or has a null port (`AttributeError`, `TypeError`).
* `--openssl PATH` is only the first candidate: if it does not run or is too old
  another client is used without a word (`BestClient` states the order).
* A group whose trial timed out is taken for one the client can offer.
* `"frontend": null` hides a `vip` of the same entry.
* `--repeat -1`, and `defaults.repeat` below 1 with addresses given as strings,
  make scans without a single probe.
* A service whose scan raised is reported without its declared context.
* A port that answers in plaintext is filed as `observed_rejected`, explained in
  the README as an alert of the peer; `RefusalHasCause` counts it as an answer.
* A group that was rejected without a certificate being shown appears nowhere in
  the text report of the address.
* A target that takes none of the default client's groups loses the points of
  its certificate, which is not fetched, and of TLS 1.3, although a group probe
  completed in it (`PureOnly` of `MCTargetScan`; `Ideal` takes both as they are).
* A stack with TLS 1.2 only has an empty group set, which never diverges: with a
  shared certificate topology tells the reader that "the observed group support
  matches" (`topology.py:109`, `topology.py:124-126`).

**Bounds.** Two groups, a hybrid and a classical one, are what the code tells
apart in a pool: one that members agree on and one that they do not. Two
certificates distinguish shared from separate. The default offer of
`MCServiceScan` has a group outside the catalog, so that a frontend can answer
and yet take nothing of the sweep (`Aside`); `Upgraded` has a backend whose name may
fail to resolve while the other one agrees with the frontend; `Halfway` has one
that takes the default client only, so that a single stall leaves it with the
frontend's certificate and without a handshake. Two passes are the first count at
which passes can disagree and at which a late answer can follow an earlier one
of the same group; a property that fails for more passes fails on a pair of
them. `MaxFaults` bounds disturbed connections: with one, every position in the
sweep and every kind is tried; two are tried with one pass. `endpoint_unoffered` allows
three, so that each TLS 1.3 probe of its sweep (one browser-shaped, two groups) can
take the fault and the default probe none. `MaxObs` is three: a
success, a refusal and a silence in one cell in every order. A target scan has one stack per
distinction the score makes (hybrid first, hybrid supported, classical with and
without TLS 1.2, hybrid only, TLS 1.2 only, legacy only, none of the default client's groups) and two mixed pools;
its one disturbance is tried at every connection. Its client lacks TLS
1.0, so that one version probe fails locally; clients that lack others are left
to the theorems, which hold for every `LocalVersions`. Three jobs on two and on five
threads give every kind of overtaking, and each may raise; the three scores a
target may end with lie on both sides of either threshold. The machines of
`MCCommandLine` have old, equal, hanging, broken and sufficient binaries in
both orders, and its inventories every form of a file, every way an address is
given, and one error of each kind behind a sound entry; the counters have no bound of their own,
they end with the input. Deadlock checking is off because every model
terminates: a finished scan has no next step. That it does not stop early is
stated by `ScanEnds`, `ServiceEnds`, `TargetEnds` and `CommandEnds`.

**Fairness.** `FairSpec` of a scan is weak fairness of the next step: a probe is
a subprocess with a timeout, so it returns, and the thread then goes on.
`getaddrinfo` has no timeout in the code; that it returns is assumed. A run of
the command has weak fairness for the main thread, whose steps either do not
block or wait for a subprocess with a timeout or for a future, and for the pool
of threads together.
Neither assumes anything of peers or of the path.

## Proofs

Each property was checked by TLC on the run's instance before it was proved. The theorems hold for every value of the constants.

**The evidence of one address** (`EndpointScan_proofs`):

* `TypeCorrect`: `TypeOK` is inductive. Lemmas give the range of the classifier,
  the type of every transcript an answer or a disturbance can have, and the
  shape of a probe's step (`StepShape`: exactly one observation is appended).
* `SupportSound` (`SupportIsReal`): the matrix is computed from the whole list, so
  the property is not inductive as it stands. The strengthening says of every
  single observation that succeeded that some stack of the pool has that
  certificate and accepts that group; `CellWitness` traces a cell back to one.
* `NeverRetracted`: appending an observation only adds to the set over which a
  cell takes the best (`CellsClimb`), and the best of a finite set exists
  (`BestOf`).
* `RefusalsHaveCause`, `InconsistenciesHaveCause`, `DivergencesAreReported`: one
  invariant, `AnswersInv`, says of every observation which transcripts of which
  stack, or of which disturbance, it may have been classified from. The lemmas
  under it are the classifier's table read backwards: which marks can have led
  to which outcome, given that the first phrase that occurs decides. `Untelling` and
  `TakenForAnswers` name the faults on either side of the line the classifier draws.
* `SweepRunsToItsEnd` (`SweepIsComplete`): `ProgressInv` counts. After `index`
  passes, position `k` of the sweep has been probed `index` times, and once
  more if the pass under way is behind it. It needs that the sweep names no
  probe twice, which is why `GroupsAssumption` says that the groups are distinct.
* `ScanImplementsLedger`: every step maps to `Enter` of one claim or to a stutter.
  That a claim is true is `SupportIsReal`, that none is removed `CellsClimb`.
* `ReportOmissionsHaveCause`: from `AnswersInv` and `ProgressInv` together; a
  group without any row would need a sweep that missed it.

**The scan of a service** (`ServiceScan_proofs`): `ServiceInv` has the invariants
of the address under the cursor (`ScanInv`) and, for each finished one, what
its observations owe to the pool behind it. `TrueOf` holds whatever was
disturbed: every certificate is one of the pool, and a completed handshake shows
one. `Faithful` holds while no disturbance was counted: a group probe succeeded
exactly if some stack takes the group. `Swept`: an address that answered was
asked for every group. `StoredIsSound` carries them from the scan into the
evidence, `FreshScan` starts the next address with disturbances already counted.

* `ServiceTypes`, `EvidenceStays`: from `ServiceInv`, which says which addresses are
  behind the cursor, so that none is stored twice.
* `VerdictIsTheEvidences` needs no invariant: `assess` is a function, and the
  declared words enter its conflicts only.
* `SilentBackends`: `SilentIsIgnored` follows the evidence of one backend through the
  branches of `assess`. Only those that answered are read, so the certificate of
  a connection that was cut off decides nothing.
* `HighConfidenceHolds`, `PassthroughHasGrounds`,
  `UniformPassthrough` and `ConflictsHold` combine two halves: what a verdict or a
  conflict rests on (`AssessVerdict`, `AssessConflicts`, by the branches of
  `assess`) and what true evidence says of the pool (`PeersAreCerts`,
  `SupportIsAcceptance`, `InconsistencyIsReal`).
* Two properties were too strong as first stated and held on the deployments
  tried only. `HighConfidenceIsSound` is false where two stacks share a backend's
  address. The group part of `PassthroughVerdictHasGrounds` is false when a backend
  did not answer, and when one side takes no group of the sweep, because an
  empty group set never diverges. Both now have these premises, and the
  deployments that broke them are in the run.

**The loops** (`EvidenceFold_proofs`): `FoldInv` says that after any number of
iterations `matrix`, `seen` and `found` are what `Evidence` reads off the
observations gone through. An iteration adds one attempt to one cell;
`BestOfMore` is the fact that makes the loop right (the best of a set and one
more state is the one that outranks). `MaxObs` bounds TLC, not the theorems.

**A run of the command** (`CommandLine_proofs`): `CommandInv` combines the
invariants of the parts with what each phase of `main` knows.

* `Discovery_proofs` has `DiscoveryInv`: what is true of `best` and `client`
  after the candidates passed so far. The order on versions is total only on
  versions that were read, hence `VersionsRead`. `RunsUseTheBestClient` and
  `ClientsAreCredited` follow, the second from what a cut-off trial permits.
* `Batch_proofs` has `BatchInv`: a job is in one place at a time (queued, running,
  finished, collected), and what was filed under a key came from a job of that
  key. `JobsRunOnce` needs no more. `ReportsAreOwn`, `BatchKeepsItsPromise` and
  `ExitCodesTellTruth` hold under `DistinctKeys`, which is not an assumption about
  the code: targets that share `host:port` and services that share a name break
  it, and the run `two_snis` is the counterexample. The hypothesis is where
  the code stops being right.
* `CommandTypes`, and `ExitCodesTellTruth` by cases on how a run ended: `RanksOrderGrades`
  and `FailsIfMisses` relate the gate of the code to what the user asked for,
  `TargetsOwnResults` the results gated on to the jobs. `load_targets` is a
  recursive function over the lines of a file. That it returns a sequence is
  proved by descent: if some suffix failed there would be a least one
  (`LeastElement`, from well-foundedness of `<` on the naturals). The induction
  theorems of the library, which take an operator, are not needed for it.
* `EntriesInv` says what the files and arguments have become: the services are
  the entries of the inventory, read and given `--repeat` (`LoadedInv`), and a
  target has a host and the number of a port (`ParsedInv`). The loader is taken
  apart from the outside in: `ServiceIsRead` says of a service which field of
  which entry, or of the defaults, each of its fields was read from.
  `SweepsAreAsked` is then a statement about one entry.
* `AddressesAreReadBack` reads `address` and `_split_host_port` as inverses: `Cut`
  finds the last colon, and a numeral has none. It holds under
  `HostsAreAddresses`, which says that each host dialled is a text without
  brackets or an IPv6 address within them. The loader does not see to it:
  an `ip` given as `[::1` is dialled, and printed, as it stands.
* `ContextsAreDeclared` needs `Returned`, that the future of a job that has not
  raised holds something that job returns: what a thread filed is
  traced back through the pool to the service it was submitted with. Like
  `ReportIsOwn` it needs `DistinctKeys`. The declared words are then traced
  through the coercion tables in both directions.

**The scan of a target and its score** (`TargetScan_proofs`):

* `ScoreRange`, `KeyExchangeDominates`, `BreakdownBoundsScore` are about every result
  record. Each clause stays below its ceiling (`KeyExchangePoints`,
  `HygienePoints`) and the score is their sum: between 0 and 100, with grade A
  only if hybrid is preferred and B only if it is supported. The component view,
  whose entries for protocol and certificate are ceilings, agrees with the score
  in the other two and is never below it in sum.
* `HeardIsExplained` is the lemma under the rest: whichever member answers and
  whatever is disturbed, what the transcript of one connection may be taken for.
  A completed handshake has a member that completes it, silence has a cause, and
  on an undisturbed connection both directions hold.
* `TargetInvariant`: `TargetInv` keeps those conclusions for every probe recorded
  so far (`GroupProbesInv`), for the groups negotiated by the first two clients
  (`PosturesInv`) and for the versions (`VersionsHaveCause`). None of the properties
  is inductive without them, since a verdict is derived from the probes at the
  end. `SweepInv` says that a group whose turn has passed was probed, which
  `MiddleboxIsFound` needs: a swallowed group that was never asked for would
  leave no silence behind. `VerdictInv` says that the verdict is the score of the
  probes that are there.
* `TargetTypes`, `VersionsAreCaused`, `GradesTellTruth`, `SuspicionIsCaused` and
  `MiddleboxesAreFound` follow. `MiddleboxIsFound` asks for a large group of the
  standard catalog in the sweep: the heuristic looks sizes up in
  `GROUP_CATALOG`, so silence on draft groups alone raises nothing.
* `ScoresAreIdeal` (`ScoreIsIdeal`) compares the score with `Ideal`, which is read off
  the configuration of the one stack behind the address and off the client (the
  versions and groups it can offer included), without any state of the scan. `UniformInv` is what it needs beside
  `TargetInv`: for each field of the result, that it is the stack's own from its turn
  on, unless the connection it was read from was disturbed (`Lost`).
  `UniformAnswer` says why one connection keeps it, `UndisturbedResult` that nothing
  else can have entered the result. The proof corrected the property. The
  certificate is judged only where the default handshake completed, a version
  the client lacks earns nothing, and a browser-shaped probe that was
  lost leaves its place to the default client's group, which may be hybrid where
  the browser's would not be: hence `Asked`, `IdealHygiene` and the premise on
  `"__realistic__"`. Without that premise TLC finds a counterexample for a client
  whose default hello has a hybrid group that browsers do not offer.

**Assumptions.** `GroupsAssumption` and `WorldAssumption` of `EndpointScan`: group
names are distinct and not sentinels, the client's groups are known, the sweep
probes groups the client offers, pools consist of stacks. `FoldAssumption`: groups
are not sentinels, outcomes are outcomes. `TargetAssumption`: the client's
groups are in the catalog (`detect_groups` keeps no other), the sweep and the
default offer are among them, pools consist of stacks, and faults are of the
kinds `Probes` lists. `CommandAssumption`: what the
arguments, files and machines may be, as `argparse`, `json.load` and the file
system deliver them; texts are sequences, and an inventory in JSON has lists where
the loader iterates and numbers where it counts (what the code makes of anything
else there is left out). `ServiceAssumption`: an entry has the fields the loader
fills, a deployment a pool behind each address. TLC evaluates each of them on
the runs.

**Checked by TLC only**: the liveness properties (`ScanEnds`, `ServiceEnds`,
`TargetEnds`, `CommandEnds`), which rest on fairness and are out of the prover's
reach, and the five violations. Every invariant, action property and refinement
that a passing run checks is stated by a theorem, some under the hypotheses
named above.

## Not modelled

* Text: the regular expressions over `s_client`'s output, certificate chains,
  the spelling of versions and listings, and messages are abstracted to what
  they decide. Case and separators of declared words are folded before the
  model sees them.
* `report.py` but for what it says of an address: the rendering of targets and
  both JSON forms copy fields of the results.
* What `argparse` refuses, `--timeout`, `--quiet`, `--verbose` and `--trace`;
  durations and time stamps. None has an influence on a decision that is
  modelled; that a group is seen by a HelloRetryRequest is only rendered.
* Scripts, examples and packaging have no state of their own.
* The scans inside `CommandLine`: composing `TargetScan` or `ServiceScan` with
  the batch multiplies their states by each other, and jobs share nothing.

## Plan

1. Done: every component but the rendering of targets and JSON. Proved: every
   invariant, action property and refinement that a run checks.
2. Next: the hypotheses of the theorems that the code does not establish
   (`DistinctKeys`, `HostsAreAddresses`) mark where a change of the code would pay: with
   results filed by position and hosts checked by the loader the theorems would
   hold without them.
3. Disagreements met and not given a run: with `--allow-old-openssl` and a client
   without hybrid groups a target is given the finding "no post-quantum group is
   [available]", where the README says that such probes are marked
   `client_unsupported`; the groups the client lacks are not even probed
   (`scanner.py:36-41`, `scoring.py:81-86`);
   the note "all passes returned one peer
   identity" where no identity was seen (`evidence.py:205`, `README.md:237-239`);
   a layer-4 frontend with no answering backend is not flagged
   (`topology.py:82-92`); the finding `PQ_HYBRID_DEFAULT` names the default
   client's group when the browser-shaped probe decided (`scoring.py:63-69`,
   `scanner.py:97-100`); a target that speaks TLS 1.0 and 1.1 only is unreachable
   although a version probe completed (`scoring.py:52-58`); two jobs may probe
   one address at a time (`SCOPE.md`).
