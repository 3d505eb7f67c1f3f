---------------------------- MODULE CommandLine ----------------------------
(***************************************************************************)
(* A run of pqc-posture (cli.py): read the targets, find an OpenSSL, load  *)
(* the inventory if there is one, scan the batch, write the report, and    *)
(* gate on the thresholds.  Discovery, Inventory and Batch are composed    *)
(* here; what a scan finds is abstracted to the score it gives a target,   *)
(* and to nothing beyond its declarations for a service.                   *)
(*                                                                         *)
(* What argparse itself refuses, and what is printed, is left out.         *)
(***************************************************************************)
EXTENDS Discovery, Inventory, Batch, Scoring

CONSTANTS
  Runs,    \* [argv, machine]: command lines and the machines they run on
  Scores   \* the scores a scan of a target may end with

IsSequence(s) == s \in Seq(ToSet(s))

\* The counts of a JSON object are numbers once int() has read them.
CountsAreRead(o) == \A key \in {"repeat", "frontend_repeat"} \cap DOMAIN o : o[key] \in Int

\* An entry as JSON gives it: its backends are a list, its counts are numbers.
EntryIsJson(entry) ==
  entry.kind = "object" =>
    LET backends == get(entry.fields, "backends", <<>>)
        frontend == get(entry.fields, "frontend", get(entry.fields, "vip", NotGiven))
    IN  /\ IsSequence(backends)
        /\ \A block \in ToSet(backends) \cup {frontend} :
             block.kind = "object" => CountsAreRead(block.fields)

InventoryIsJson(raw) ==
  /\ IsSequence(raw.entries)
  /\ \A i \in DOMAIN raw.entries : EntryIsJson(raw.entries[i])
  /\ raw.shape = "services" => CountsAreRead(raw.defaults)

\* What argparse, a file's lines, a JSON list and the version pattern give.
ASSUME CommandAssumption ==
  /\ Scores \subseteq 0 .. 100
  /\ \A r \in Runs :
       /\ r.argv.concurrency \in Int /\ r.argv.repeat \in Int
       /\ r.argv.min_grade \in {None, "A", "B", "C", "D", "F"}
       /\ r.argv.min_score \in Seq(Int) /\ Len(r.argv.min_score) <= 1
       /\ r.argv.allow_old \in BOOLEAN
       /\ IsSequence(r.argv.targets) /\ \A t \in ToSet(r.argv.targets) : IsSequence(t)
       /\ r.argv.file.kind = "lines" =>
            IsSequence(r.argv.file.lines) /\ \A l \in ToSet(r.argv.file.lines) : IsSequence(l)
       /\ r.argv.inventory.kind \in {"none", "unreadable", "not_json", "json"}
       /\ r.argv.inventory.kind = "json" => InventoryIsJson(r.argv.inventory.raw)
       /\ VersionsRead(r.machine)

VARIABLES
  argv,      \* the arguments, with the contents of the files they name
  phase,     \* "parse", "discover", "load", "scan", "gate" or "over"
  targets,   \* the parsed targets
  services,  \* the loaded inventory, --repeat applied
  exit,      \* <<>> or the exit code
  uncaught   \* history: did an exception end the run?

commandVars == <<argv, phase, targets, services, exit, uncaught>>
commandAllVars == <<commandVars, discoveryVars, batchVars>>

CommandInit ==
  /\ \E r \in Runs : argv = r.argv /\ machine = r.machine
  /\ phase = "parse"
  /\ targets = <<>> /\ services = <<>>
  /\ exit = <<>> /\ uncaught = FALSE
  /\ DiscoverInit /\ BatchInit

\* sys.exit(code); Python exits with 1 on an exception nobody catches.
Exit(code) == phase' = "over" /\ exit' = <<code>> /\ UNCHANGED uncaught
Crash == phase' = "over" /\ exit' = <<1>> /\ uncaught' = TRUE
Proceed(next) == phase' = next /\ UNCHANGED <<exit, uncaught>>

-----------------------------------------------------------------------------
(* Before the scan                                                         *)

\* A line of a targets file up to its comment; blank ones are skipped.
Uncommented(line) == Partition(line, "#")[1]

load_targets(file) ==
  LET loaded[n \in 0 .. Len(file.lines)] ==
        IF n = 0 THEN <<>>
        ELSE LET line == Uncommented(file.lines[n])
             IN  loaded[n - 1] \o (IF line = <<>> THEN <<>> ELSE <<parse_target(line)>>)
  IN  loaded[Len(file.lines)]

\* No except clause is around the parsing of targets.
Parse ==
  /\ phase = "parse"
  /\ LET read == [i \in DOMAIN argv.targets |-> parse_target(argv.targets[i])]
                 \o (IF argv.file.kind = "lines" THEN load_targets(argv.file) ELSE <<>>)
     IN \E all \in {Unless(read, [i \in DOMAIN read |-> read[i].value])} :
         IF ~all.ok \/ argv.file.kind = "unreadable"
         THEN Crash /\ UNCHANGED targets
         ELSE /\ targets' = all.value
              /\ IF all.value = <<>> /\ argv.inventory.kind = "none"
                 THEN Exit(2) ELSE Proceed("discover")
  /\ UNCHANGED <<argv, services, discoveryVars, batchVars>>

Search ==
  /\ phase = "discover"
  /\ Discover(argv.openssl) \/ Skip \/ Inspect \/ Settle(~argv.allow_old)
  /\ UNCHANGED <<commandVars, batchVars>>

NotUsable ==
  /\ phase = "discover" /\ discovery = "unusable"
  /\ Exit(3)
  /\ UNCHANGED <<argv, targets, services, discoveryVars, batchVars>>

\* With an inventory the targets are not looked at again.
Choose ==
  /\ phase = "discover" /\ discovery = "found"
  /\ Proceed(IF argv.inventory.kind = "none" THEN "scan" ELSE "load")
  /\ UNCHANGED <<argv, targets, services, discoveryVars, batchVars>>

\* Mutant of WithRepeat: an override of 0 is applied as well.
WithRepeat_ZeroCounts(endpoint, repeat) == [endpoint EXCEPT !.repeat = repeat]

\* `if args.repeat`: 0 is no override, a negative number is one.
WithRepeat(endpoint, repeat) ==
  IF repeat # 0 THEN [endpoint EXCEPT !.repeat = repeat] ELSE endpoint

Overridden(service, repeat) ==
  [service EXCEPT
     !.frontend = [ i \in DOMAIN service.frontend |->
                      [service.frontend[i] EXCEPT !.endpoint = WithRepeat(@, repeat)] ],
     !.backends = [ i \in DOMAIN @ |-> WithRepeat(@[i], repeat) ]]

\* An InventoryError, a ValueError and an OSError are reported; a TypeError
\* or an AttributeError is not caught.
Load ==
  /\ phase = "load"
  /\ \E loaded \in { CASE argv.inventory.kind = "unreadable" -> Raises("OSError")
                        [] argv.inventory.kind = "not_json" -> Raises("ValueError")
                        [] argv.inventory.kind = "json" -> load_inventory(argv.inventory.raw) } :
         IF loaded.ok
         THEN /\ services' = [ i \in DOMAIN loaded.value |->
                                 Overridden(loaded.value[i], argv.repeat) ]
              /\ Proceed("scan")
         ELSE /\ UNCHANGED services
              /\ IF loaded.exception \in {"InventoryError", "ValueError", "OSError"}
                 THEN Exit(2) ELSE Crash
  /\ UNCHANGED <<argv, targets, discoveryVars, batchVars>>

-----------------------------------------------------------------------------
(* The scan                                                                *)

TargetResult(host, port, score) ==
  [host |-> host, port |-> port, score |-> score, grade |-> _grade(score)]

\* The stand-in of a target is named after its label and scored unreachable.
TargetJob(t) ==
  LET key == label(t.host, t.port)
  IN  [ key |-> key, returns |-> { TargetResult(t.host, t.port, s) : s \in Scores },
        stand_in |-> TargetResult(Named(key).host, Named(key).port, 0) ]

ServiceResult(name, classification, horizon) ==
  [service |-> name, data_classification |-> classification, sensitivity_horizon |-> horizon]

\* The stand-in of a service has its name and no context.
ServiceJob(s) ==
  [ key |-> s.name,
    returns |-> { ServiceResult(s.name, s.data_classification, s.sensitivity_horizon) },
    stand_in |-> ServiceResult(s.name, "unknown", "unknown") ]

StartScan ==
  /\ phase = "scan"
  /\ Start(IF argv.inventory.kind = "none"
           THEN [i \in DOMAIN targets |-> TargetJob(targets[i])]
           ELSE [i \in DOMAIN services |-> ServiceJob(services[i])],
           argv.concurrency)
  /\ UNCHANGED <<commandVars, discoveryVars>>

Scan ==
  /\ phase = "scan"
  /\ Gather
  /\ UNCHANGED <<commandVars, discoveryVars>>

PoolWork == Work /\ UNCHANGED <<commandVars, discoveryVars>>

-----------------------------------------------------------------------------
(* After the scan                                                          *)

\* A JSON file that cannot be written ends the run before its gate.
Write ==
  /\ phase = "scan" /\ Reported
  /\ IF argv.json = "unwritable" THEN Crash ELSE Proceed("gate")
  /\ UNCHANGED <<argv, targets, services, discoveryVars, batchVars>>

GRADE_RANK == [A |-> 4, B |-> 3, C |-> 2, D |-> 1, F |-> 0]

\* Mutant of FailsGate: --min-score is looked at only without --min-grade.
FailsGate_EitherOr(result) ==
  IF argv.min_grade # None
  THEN GRADE_RANK[result.grade] < GRADE_RANK[argv.min_grade]
  ELSE argv.min_score # <<>> /\ result.score < argv.min_score[1]

FailsGate(result) ==
  \/ argv.min_grade # None /\ GRADE_RANK[result.grade] < GRADE_RANK[argv.min_grade]
  \/ argv.min_score # <<>> /\ result.score < argv.min_score[1]

\* An inventory is never gated on.
Gate ==
  /\ phase = "gate"
  /\ Exit(IF /\ argv.inventory.kind = "none"
             /\ \E i \in JobIds : FailsGate(report[1][i][2])
          THEN 1 ELSE 0)
  /\ UNCHANGED <<argv, targets, services, discoveryVars, batchVars>>

Main == Parse \/ Search \/ NotUsable \/ Choose \/ Load \/ StartScan \/ Scan \/ Write \/ Gate

CommandNext == Main \/ PoolWork

CommandSpec == CommandInit /\ [][CommandNext]_commandAllVars

\* The main thread blocks on nothing but runs that time out and the futures;
\* the pool's threads are scheduled, and the jobs' probes time out as well.
CommandFairSpec ==
  CommandSpec /\ WF_commandAllVars(Main) /\ WF_commandAllVars(PoolWork)

-----------------------------------------------------------------------------
(* What a run promises                                                     *)

CommandTypeOK ==
  /\ phase \in {"parse", "discover", "load", "scan", "gate", "over"}
  /\ discovery \in {"idle", "searching", "found", "unusable"}
  /\ tried \in 0 .. Len(candidates)
  /\ client # <<>> <=> discovery = "found"
  /\ exit = <<>> \/ exit[1] \in 0 .. 3
  /\ phase = "over" <=> exit # <<>>
  /\ BatchTypeOK

\* Nothing keeps a run from ending with an exit code: no job that raises, no
\* run of a candidate that hangs, no --concurrency whatever.
CommandEnds == <>(exit # <<>>)

Inventoried == argv.inventory.kind # "none"
OwnResult(i) == future[i][1]

BestClient == BestClientIsUsed(~argv.allow_old)

\* The thresholds as their help texts put them: each on its own may fail a
\* target, in the order of the grades from best to worst.
Grades == <<"A", "B", "C", "D", "F">>
Misses(result) ==
  \/ \E i, j \in DOMAIN Grades :
       i < j /\ Grades[i] = argv.min_grade /\ Grades[j] = result.grade
  \/ \E least \in ToSet(argv.min_score) : result.score < least

\* cli.py, --min-grade and --min-score: "exit 1 if any target grades below
\* this".  A run that exits with 0 has measured every target, and none of the
\* targets' own results misses a threshold.
GateIsSound ==
  exit = <<0>> /\ ~Inventoried => \A i \in DOMAIN targets : ~Misses(OwnResult(i))

\* What the exit code tells: 0, all entries were scanned and pass the gate; 1,
\* an exception, or a target whose own result fails it; 2, nothing to do or an
\* inventory that cannot be read; 3, no OpenSSL.  No scan is begun, even of
\* the sound entries, when one of them cannot be read.
ExitCodeTellsTruth ==
  exit # <<>> =>
    /\ exit[1] = 0 =>
         /\ Len(report[1]) = Len(IF Inventoried THEN argv.inventory.raw.entries ELSE targets)
         /\ GateIsSound
    /\ exit[1] = 1 =>
         uncaught \/ (~Inventoried /\ \E i \in JobIds : Misses(OwnResult(i)))
    /\ exit[1] = 2 =>
         jobs = <<>> /\ (Inventoried \/ targets = <<>>)
    /\ exit[1] = 3 <=> discovery = "unusable"
    /\ uncaught /\ Reported => argv.json = "unwritable"

\* The entry of the inventory that service i was read from, and a word that
\* it declares: its own, null included, else the one in the defaults.
Entry(i) == argv.inventory.raw.entries[i].fields
Defaults ==
  IF argv.inventory.raw.shape = "services" THEN argv.inventory.raw.defaults ELSE [k \in {} |-> {}]
Says(i, key, word) ==
  \/ key \in DOMAIN Entry(i) /\ Entry(i)[key] = word
  \/ key \notin DOMAIN Entry(i) /\ key \in DOMAIN Defaults /\ Defaults[key] = word

\* The report repeats the context an entry declares under one of its
\* spellings, and invents none: a service without one, and one whose scan
\* raised, is "unknown".
ContextIsDeclared ==
  Reported /\ Inventoried =>
    \A i \in DOMAIN services :
      LET r == report[1][i][2]
          Meant(key, value, aliases) ==
            value # "unknown" =>
              \E word \in {value} \cup get(aliases, value, {}) : Says(i, key, word)
          Kept(key, value, aliases) ==
            (\E v \in DOMAIN aliases \ {"unknown"} :
               \E word \in {v} \cup aliases[v] : Says(i, key, word))
              => value # "unknown"
      IN  /\ Meant("data_classification", r.data_classification, _CLASSIFICATION_ALIASES)
          /\ Meant("sensitivity_horizon", r.sensitivity_horizon, _HORIZON_ALIASES)
          /\ i \notin raised =>
               /\ Kept("data_classification", r.data_classification, _CLASSIFICATION_ALIASES)
               /\ Kept("sensitivity_horizon", r.sensitivity_horizon, _HORIZON_ALIASES)

\* Every address that is about to be dialled is one the inventory's own
\* reader reads back from the report: brackets are put where a port would
\* otherwise run into an IPv6 host.  A target's stand-in names its target.
AddressesReadBack ==
  /\ \A i \in DOMAIN services : \A k \in DOMAIN all_endpoints(services[i]) :
       LET e == all_endpoints(services[i])[k]
           r == _split_host_port(address(e.host, e.port), "80")
       IN  r.ok /\ r.value.port = e.port
           /\ address(r.value.host, r.value.port) = address(e.host, e.port)
  /\ \A i \in DOMAIN targets :
       Named(label(targets[i].host, targets[i].port))
         = [host |-> targets[i].host, port |-> targets[i].port]

\* An address goes without a single sweep only if --repeat or the defaults
\* ask for it, never by what its own entry says or leaves out; and it is
\* probed for the name of its service unless the inventory says otherwise.
SweepsAreAskedFor ==
  \A i \in DOMAIN services :
    LET E == all_endpoints(services[i]) IN
    \A k \in DOMAIN E :
      /\ E[k].repeat < 1 =>
           \/ argv.repeat < 0
           \/ argv.repeat = 0 /\ \E key \in {"repeat", "frontend_repeat"} :
                                   get(Defaults, key, 1) < 1
      /\ effective_sni(E[k], services[i]) = <<>> =>
           "sni" \in DOMAIN Entry(i) /\ Entry(i).sni = <<>>
=============================================================================
