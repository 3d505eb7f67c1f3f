----------------------------- MODULE Discovery -----------------------------
(***************************************************************************)
(* Finding an OpenSSL (openssl.py): discover() inspects the candidates one *)
(* after another, returns the first that meets the minimum version, and    *)
(* otherwise keeps the newest of the old ones for --allow-old-openssl.     *)
(* Each inspection runs the binary several times, and a run may be cut off *)
(* by its timeout; what the client can offer is learned from a listing or, *)
(* without one, by trying each group.                                      *)
(*                                                                         *)
(* The machine is external: which paths hold a binary, and what it is.     *)
(***************************************************************************)
EXTENDS Models, Integers, FiniteSets

MIN_VERSION == <<3, 5, 0>>

\* The installation prefixes that are looked at after $PQC_OPENSSL.
PREFIXES == <<"/usr/local/ssl", "/opt/openssl-3.5", "/usr/local/opt", "/opt/homebrew">>

\* A binary: does it run, its version (<<>> when it prints none), whether it
\* knows `list -tls-groups` and -trace, and the groups it can offer.
Binary(runs, version, lists, trace, knows) ==
  [runs |-> runs, version |-> version, lists |-> lists, trace |-> trace, knows |-> knows]

\* A version that is printed is three numbers.
VersionsRead(m) ==
  \A path \in DOMAIN m.files : m.files[path].version \in {<<>>} \cup (Nat \X Nat \X Nat)

VARIABLES
  machine,    \* ground truth: [env, which : path or None, files : path -> Binary,
              \*                slow : the runs that may time out]
  discovery,  \* "idle", "searching", "found" or "unusable"
  candidates, \* the paths to look at, in order
  tried,      \* how many of them have been
  best,       \* <<>> or the newest client below the minimum
  client,     \* <<>> or the OpenSSLInfo that is returned
  cut         \* history: <<candidate, run>> that timed out

discoveryVars == <<machine, discovery, candidates, tried, best, client, cut>>

DiscoverInit ==
  /\ discovery = "idle"
  /\ candidates = <<>> /\ tried = 0
  /\ best = <<>> /\ client = <<>> /\ cut = {}

Given(path) == IF path = None THEN <<>> ELSE <<path>>

Discover(explicit_path) ==
  /\ discovery = "idle" /\ discovery' = "searching"
  /\ candidates' = Given(explicit_path) \o Given(machine.env) \o PREFIXES \o Given(machine.which)
  /\ UNCHANGED <<machine, tried, best, client, cut>>

-----------------------------------------------------------------------------
(* One binary                                                              *)

\* A group that timed out has passed option parsing, or so it is taken.
_group_accepted(b, group, late) == group \in late \/ group \in b.knows

\* Mutant of detect_groups: without a listing there is nothing to offer.
detect_groups_NoFallback(b, late) ==
  IF b.lists /\ "list" \notin late THEN { g.name : g \in BY_NAME } \cap b.knows ELSE {}

\* The listing, and failing that, or when it names no group of the catalog,
\* every group of the catalog by trial.
detect_groups(b, late) ==
  LET wanted == { g.name : g \in BY_NAME }
      seen == IF b.lists /\ "list" \notin late THEN wanted \cap b.knows ELSE {}
  IN  IF seen # {} THEN seen ELSE { g \in wanted : _group_accepted(b, g, late) }

\* late: the runs of this binary that time out.
_inspect(path, late) ==
  LET b == machine.files[path]
  IN  IF b.version = <<>> \/ "version" \in late THEN <<>>
      ELSE << [ path |-> path, version |-> b.version, groups |-> detect_groups(b, late),
                supports_trace |-> b.trace /\ "help" \notin late ] >>

Below(v, w) == \E i \in 1 .. 3 : v[i] < w[i] /\ \A j \in 1 .. i - 1 : v[j] = w[j]
meets_minimum(info) == ~Below(info.version, MIN_VERSION)

-----------------------------------------------------------------------------
(* The loop of discover()                                                  *)

Runnable(path) == path \in DOMAIN machine.files /\ machine.files[path].runs

Skip ==
  /\ discovery = "searching" /\ tried < Len(candidates)
  /\ ~Runnable(candidates[tried + 1])
  /\ tried' = tried + 1
  /\ UNCHANGED <<machine, discovery, candidates, best, client, cut>>

\* Mutant of Consider: the last of the old clients is kept, not the newest.
Consider_LastOldWins(info) ==
  IF info # <<>> /\ meets_minimum(info[1])
  THEN client' = info /\ discovery' = "found" /\ UNCHANGED best
  ELSE /\ best' = IF info # <<>> THEN info ELSE best
       /\ UNCHANGED <<client, discovery>>

\* What an inspection changes: a client that meets the minimum is returned.
Consider(info) ==
  IF info # <<>> /\ meets_minimum(info[1])
  THEN client' = info /\ discovery' = "found" /\ UNCHANGED best
  ELSE /\ best' = IF info # <<>> /\ (best = <<>> \/ Below(best[1].version, info[1].version))
                  THEN info ELSE best
       /\ UNCHANGED <<client, discovery>>

\* Mutant of Inspect: a run of the binary is waited for without a timeout.
Inspect_NoTimeout ==
  /\ discovery = "searching" /\ tried < Len(candidates)
  /\ Runnable(candidates[tried + 1])
  /\ \E late \in SUBSET machine.slow :
       IF late = {} THEN Consider(_inspect(candidates[tried + 1], late))
                    ELSE discovery' = "hung" /\ UNCHANGED <<best, client>>
  /\ tried' = tried + 1
  /\ UNCHANGED <<machine, candidates, cut>>

Inspect ==
  /\ discovery = "searching" /\ tried < Len(candidates)
  /\ Runnable(candidates[tried + 1])
  /\ \E late \in SUBSET machine.slow :
       /\ Consider(_inspect(candidates[tried + 1], late))
       /\ cut' = cut \cup { <<tried + 1, run>> : run \in late }
  /\ tried' = tried + 1
  /\ UNCHANGED <<machine, candidates>>

\* No client meets the minimum: an old one serves only if it may.
Settle(require_minimum) ==
  /\ discovery = "searching" /\ tried = Len(candidates)
  /\ IF best = <<>> \/ require_minimum
     THEN discovery' = "unusable" /\ UNCHANGED client
     ELSE discovery' = "found" /\ client' = best
  /\ UNCHANGED <<machine, candidates, tried, best, cut>>

-----------------------------------------------------------------------------
(* What discovery promises                                                 *)

\* The i-th candidate can be asked for its version.
Usable(i) ==
  /\ Runnable(candidates[i]) /\ machine.files[candidates[i]].version # <<>>
  /\ <<i, "version">> \notin cut
VersionAt(i) == machine.files[candidates[i]].version
Recent(i) == Usable(i) /\ ~Below(VersionAt(i), MIN_VERSION)

\* The client that is used is the first of the search order to meet the
\* minimum; only when none does, and old clients are allowed, the newest, and
\* of equally new ones the first.  A path that does not answer costs nothing
\* but its own place in the order.
BestClientIsUsed(require_minimum) ==
  LET all == DOMAIN candidates
      chosen(i) == client # <<>> /\ client[1].path = candidates[i]
  IN  /\ discovery = "found" =>
           \E i \in all :
             /\ chosen(i) /\ Usable(i)
             /\ \/ Recent(i) /\ \A j \in all : j < i => ~Recent(j)
                \/ /\ ~require_minimum
                   /\ \A j \in all : ~Recent(j)
                   /\ \A j \in all : Usable(j) =>
                        /\ ~Below(VersionAt(i), VersionAt(j))
                        /\ j < i => VersionAt(j) # VersionAt(i)
      /\ discovery = "unusable" =>
           /\ \A i \in all : ~Recent(i)
           /\ require_minimum \/ \A i \in all : ~Usable(i)

\* Whichever way it was asked, and whatever timed out, a client is never
\* denied a group of the catalog that it can offer, and is credited with one
\* that it cannot only if the trial of that very group timed out.
GroupsAreTheClients ==
  client # <<>> =>
    LET b == machine.files[client[1].path]
    IN  /\ { g.name : g \in BY_NAME } \cap b.knows \subseteq client[1].groups
        /\ \A g \in client[1].groups \ b.knows :
             \E i \in DOMAIN candidates :
               candidates[i] = client[1].path /\ <<i, g>> \in cut
=============================================================================
