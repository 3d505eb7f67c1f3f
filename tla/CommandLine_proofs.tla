------------------------- MODULE CommandLine_proofs -------------------------
(***************************************************************************)
(* Theorems about a run of the command, for every command line, every      *)
(* machine and every set of scores.  The invariants of the search for an   *)
(* OpenSSL (Discovery_proofs) and of the batch (Batch_proofs) are shown    *)
(* to be kept by every step of a run, and joined by one of its own.        *)
(***************************************************************************)
EXTENDS CommandLine, Batch_proofs, Discovery_proofs, WellFoundedInduction

-----------------------------------------------------------------------------
(* Sequences                                                               *)

LEMMA SequenceShape ==
  ASSUME NEW s, IsSequence(s)
  PROVE  Len(s) \in Nat /\ DOMAIN s = 1 .. Len(s) /\ s \in Seq(ToSet(s))
BY DEF IsSequence

LEMMA SequenceMade ==
  ASSUME NEW n \in Nat, NEW s, s = [i \in 1 .. n |-> s[i]]
  PROVE  IsSequence(s) /\ Len(s) = n
<1>1. DOMAIN s = 1 .. n /\ \A i \in 1 .. n : s[i] \in ToSet(s)
  BY DEF ToSet
<1>2. s \in [1 .. n -> ToSet(s)]
  BY <1>1
<1> QED
  BY <1>1, <1>2 DEF IsSequence

LEMMA IsASequence == ASSUME NEW S, NEW u \in Seq(S) PROVE IsSequence(u)
<1>1. Len(u) \in Nat /\ u \in [1 .. Len(u) -> S]
  OBVIOUS
<1>2. u = [i \in 1 .. Len(u) |-> u[i]]
  BY <1>1
<1> QED
  BY <1>1, <1>2, SequenceMade

LEMMA SequencesJoined ==
  ASSUME NEW s, NEW t, IsSequence(s), IsSequence(t)
  PROVE  IsSequence(s \o t)
<1> DEFINE T == ToSet(s) \cup ToSet(t)
<1>1. s \in Seq(T) /\ t \in Seq(T)
  BY SequenceShape
<1> HIDE DEF T
<1>2. s \o t \in Seq(T)
  BY <1>1
<1> QED
  BY <1>2, IsASequence

\* Sequences with the same elements are the same.
LEMMA SameSequence ==
  ASSUME NEW s, NEW t, IsSequence(s), IsSequence(t), Len(s) = Len(t),
         \A i \in 1 .. Len(s) : s[i] = t[i]
  PROVE  s = t
<1>1. /\ Len(s) \in Nat /\ DOMAIN s = 1 .. Len(s) /\ s \in Seq(ToSet(s))
      /\ Len(t) \in Nat /\ DOMAIN t = 1 .. Len(t) /\ t \in Seq(ToSet(t))
  BY SequenceShape
<1>2. s = [i \in 1 .. Len(s) |-> s[i]] /\ t = [i \in 1 .. Len(t) |-> t[i]]
  BY <1>1
<1> QED
  BY <1>2

\* What two sequences have when they are joined.
LEMMA JoinedElements ==
  ASSUME NEW s, NEW t, IsSequence(s), IsSequence(t)
  PROVE  /\ IsSequence(s \o t) /\ Len(s \o t) = Len(s) + Len(t)
         /\ \A i \in 1 .. Len(s) : (s \o t)[i] = s[i]
         /\ \A i \in 1 .. Len(t) : (s \o t)[Len(s) + i] = t[i]
         /\ \A i \in 1 .. Len(s \o t) :
              i \in 1 .. Len(s) \/ (i - Len(s) \in 1 .. Len(t) /\ i = Len(s) + (i - Len(s)))
<1> DEFINE T == ToSet(s) \cup ToSet(t)
<1>1. s \in Seq(T) /\ t \in Seq(T) /\ Len(s) \in Nat /\ Len(t) \in Nat
  BY SequenceShape
<1>2. IsSequence(s \o t)
  BY SequencesJoined
<1> HIDE DEF T
<1> QED
  BY <1>1, <1>2

LEMMA ShortSequences ==
  \A a, b, c : IsSequence(<<a>>) /\ IsSequence(<<a, b>>) /\ IsSequence(<<a, b, c>>)
<1> TAKE a, b, c
<1>1. <<a>> \in Seq({a, b, c}) /\ <<a, b>> \in Seq({a, b, c}) /\ <<a, b, c>> \in Seq({a, b, c})
  OBVIOUS
<1> QED
  BY <1>1, IsASequence

\* Names for parts of a text and for texts joined, which hide how the
\* elements are computed.
Cut(s, m, n) == SubSeq(s, m, n)
Join(s, t) == s \o t

LEMMA CutIs ==
  ASSUME NEW s, IsSequence(s), NEW m \in Int, NEW n \in Int, 1 <= m, m <= n + 1, n <= Len(s)
  PROVE  /\ IsSequence(Cut(s, m, n)) /\ Len(Cut(s, m, n)) = n + 1 - m
         /\ \A i \in 1 .. n + 1 - m : Cut(s, m, n)[i] = s[m + i - 1]
<1>1. s \in Seq(ToSet(s)) /\ Len(s) \in Nat
  BY SequenceShape
<1>2. Cut(s, m, n) \in Seq(ToSet(s))
  BY <1>1 DEF Cut
<1>3. Len(Cut(s, m, n)) = n + 1 - m
  BY <1>1 DEF Cut
<1>4. \A i \in 1 .. n + 1 - m : Cut(s, m, n)[i] = s[m + i - 1]
  BY <1>1 DEF Cut
<1> QED
  BY <1>2, <1>3, <1>4, IsASequence

LEMMA JoinIs ==
  ASSUME NEW s, NEW t, IsSequence(s), IsSequence(t)
  PROVE  /\ IsSequence(Join(s, t)) /\ Len(Join(s, t)) = Len(s) + Len(t)
         /\ \A i \in 1 .. Len(s) : Join(s, t)[i] = s[i]
         /\ \A i \in 1 .. Len(t) : Join(s, t)[Len(s) + i] = t[i]
BY JoinedElements DEF Join

\* Every set of numbers that is not empty has a least element.
LEMMA LeastElement ==
  ASSUME NEW S \in SUBSET Nat, S # {}
  PROVE  \E x \in S : \A y \in S : x <= y
<1>1. IsWellFoundedOn({p \in Nat \X Nat : p[1] < p[2]}, Nat)
  BY NatLessThanWellFounded DEF OpToRel
<1>2. PICK x \in S : \A y \in S : <<y, x>> \notin {p \in Nat \X Nat : p[1] < p[2]}
  BY <1>1, WFMin
<1>3. \A y \in S : ~(y < x)
  <2>1. ASSUME NEW y \in S, y < x PROVE FALSE
    <3>1. <<y, x>> \in {p \in Nat \X Nat : p[1] < p[2]}
      BY <2>1
    <3> QED
      BY <1>2, <3>1
  <2> QED
    BY <2>1
<1> QED
  BY <1>3

-----------------------------------------------------------------------------
(* Reading targets and inventories                                         *)

\* What has been read without an exception is the value that was built, and
\* none of the readings before it raised one.
LEMMA UnlessAll ==
  ASSUME NEW readings, Len(readings) \in Nat, NEW value, Unless(readings, value).ok
  PROVE  /\ Unless(readings, value) = Gives(value)
         /\ \A i \in 1 .. Len(readings) : readings[i].ok
<1> DEFINE I == { i \in 1 .. Len(readings) : ~readings[i].ok }
<1>1. I # {} => Min(I) \in I
  <2>1. I \in SUBSET Nat
    OBVIOUS
  <2> HIDE DEF I
  <2>2. I # {} => \E x \in I : \A y \in I : x <= y
    BY <2>1, LeastElement
  <2> QED
    BY <2>2 DEF Min
<1>2. SelectInSeq(readings, LAMBDA r : ~r.ok) = IF I # {} THEN Min(I) ELSE 0
  BY DEF SelectInSeq
<1>3. I = {}
  BY <1>1, <1>2 DEF Unless
<1> QED
  BY <1>2, <1>3 DEF Unless

\* The loop that appends what each step gives, as a function of the steps
\* made: there is one, and what it builds is a sequence.
LEMMA Accumulates ==
  ASSUME NEW T, NEW N \in Nat, NEW more \in [1 .. N -> Seq(T)]
  PROVE  \E f : f = [n \in 0 .. N |-> IF n = 0 THEN <<>> ELSE f[n - 1] \o more[n]]
<1> DEFINE Made(f, k) == /\ f \in [0 .. k -> Seq(T)] /\ f[0] = <<>>
                         /\ \A n \in 1 .. k : f[n] = f[n - 1] \o more[n]
<1>1. \E f : Made(f, N)
  <2> DEFINE Bad == { k \in 0 .. N : ~ \E f : Made(f, k) }
  <2> HIDE DEF Made
  <2> SUFFICES ASSUME Bad # {} PROVE FALSE
    <3>1. N \in 0 .. N
      OBVIOUS
    <3> QED
      BY <3>1, Zenon
  <2>1. PICK k \in Bad : \A j \in Bad : k <= j
    <3>1. Bad \in SUBSET Nat
      OBVIOUS
    <3> HIDE DEF Bad
    <3> QED
      BY <3>1, LeastElement
  <2>2. k \in 0 .. N /\ (~ \E f : Made(f, k)) /\ \A j \in 0 .. N : j < k => \E f : Made(f, j)
    BY <2>1
  <2> HIDE DEF Bad
  <2>3. k # 0
    <3>1. Made([n \in 0 .. 0 |-> <<>>], 0)
      BY DEF Made
    <3> QED
      BY <2>2, <3>1
  <2>4. PICK g : Made(g, k - 1)
    <3>1. k - 1 \in 0 .. N /\ k - 1 < k
      BY <2>2, <2>3
    <3> QED
      BY <2>2, <3>1
  <2> USE DEF Made
  <2>5. PICK h : h = [n \in 0 .. k |-> IF n = k THEN g[k - 1] \o more[k] ELSE g[n]]
    OBVIOUS
  <2>6. k \in 1 .. N /\ k - 1 \in 0 .. k - 1 /\ more[k] \in Seq(T) /\ g[k - 1] \in Seq(T)
    BY <2>2, <2>3, <2>4
  <2>7. g[k - 1] \o more[k] \in Seq(T)
    BY <2>6
  <2>8. h \in [0 .. k -> Seq(T)] /\ h[0] = <<>>
    BY <2>4, <2>5, <2>6, <2>7
  <2>9. ASSUME NEW n \in 1 .. k PROVE h[n] = h[n - 1] \o more[n]
    <3>1. n \in 0 .. k /\ n - 1 \in 0 .. k /\ n - 1 # k
      BY <2>6
    <3>2. h[n - 1] = g[n - 1] /\ h[n] = IF n = k THEN g[k - 1] \o more[k] ELSE g[n]
      BY <2>5, <3>1
    <3>3. n # k => n \in 1 .. k - 1
      BY <2>6
    <3>4. n # k => g[n] = g[n - 1] \o more[n]
      BY <2>4, <3>3
    <3> QED
      BY <3>2, <3>4
  <2> QED
    BY <2>2, <2>8, <2>9
<1>2. PICK f : Made(f, N)
  BY <1>1
<1>3. \A n \in 0 .. N : f[n] = IF n = 0 THEN <<>> ELSE f[n - 1] \o more[n]
  <2>1. \A n \in 0 .. N : n = 0 \/ n \in 1 .. N
    OBVIOUS
  <2> QED
    BY <1>2, <2>1
<1>4. f = [n \in 0 .. N |-> f[n]]
  BY <1>2
<1> HIDE DEF Made
<1>5. f = [n \in 0 .. N |-> IF n = 0 THEN <<>> ELSE f[n - 1] \o more[n]]
  BY <1>3, <1>4
<1> QED
  BY <1>5

LEMMA Accumulated ==
  ASSUME NEW T, NEW N \in Nat, NEW more \in [1 .. N -> Seq(T)],
         NEW f, f = [n \in 0 .. N |-> IF n = 0 THEN <<>> ELSE f[n - 1] \o more[n]]
  PROVE  f[N] \in Seq(T)
<1> DEFINE Odd == { n \in 0 .. N : f[n] \notin Seq(T) }
<1> SUFFICES ASSUME f[N] \notin Seq(T) PROVE FALSE
  OBVIOUS
<1>0. N \in Odd
  OBVIOUS
<1>1. PICK n \in Odd : \A m \in Odd : n <= m
  <2>1. Odd \in SUBSET Nat
    OBVIOUS
  <2> HIDE DEF Odd
  <2> QED
    BY <1>0, <2>1, LeastElement
<1>2. n \in 0 .. N /\ f[n] \notin Seq(T) /\ \A m \in 0 .. N : m < n => f[m] \in Seq(T)
  BY <1>1
<1>3. f[n] = IF n = 0 THEN <<>> ELSE f[n - 1] \o more[n]
  BY <1>2
<1>4. n # 0
  BY <1>2, <1>3
<1>5. f[n - 1] \in Seq(T) /\ more[n] \in Seq(T)
  BY <1>2, <1>4
<1>6. f[n - 1] \o more[n] \in Seq(T)
  BY <1>5
<1> QED
  BY <1>2, <1>3, <1>4, <1>6

\* What is loaded from a file is read from its lines up to their comments.
LEMMA LoadedFromLines ==
  ASSUME NEW file, IsSequence(file.lines)
  PROVE  load_targets(file)
           \in Seq({ parse_target(Uncommented(file.lines[n])) : n \in 1 .. Len(file.lines) })
<1> DEFINE N == Len(file.lines)
           Of(n) == IF Uncommented(file.lines[n]) = <<>> THEN <<>>
                    ELSE <<parse_target(Uncommented(file.lines[n]))>>
           T == { parse_target(Uncommented(file.lines[n])) : n \in 1 .. N }
<1>1. N \in Nat
  BY SequenceShape
<1>2. PICK more \in [1 .. N -> Seq(T)] : \A n \in 1 .. N : more[n] = Of(n)
  <2>1. ASSUME NEW n \in 1 .. N PROVE Of(n) \in Seq(T)
    <3>1. parse_target(Uncommented(file.lines[n])) \in T
      OBVIOUS
    <3> HIDE DEF T
    <3> QED
      BY <3>1
  <2> HIDE DEF Of, T, N
  <2>2. [n \in 1 .. N |-> Of(n)] \in [1 .. N -> Seq(T)]
    BY <2>1
  <2> QED
    BY <2>2
<1>3. load_targets(file) = (CHOOSE f : f = [n \in 0 .. N |-> IF n = 0 THEN <<>>
                                                           ELSE f[n - 1] \o Of(n)])[N]
  BY DEF load_targets
<1> HIDE DEF N, Of, T
<1>4. ASSUME NEW f
      PROVE  [n \in 0 .. N |-> IF n = 0 THEN <<>> ELSE f[n - 1] \o Of(n)]
               = [n \in 0 .. N |-> IF n = 0 THEN <<>> ELSE f[n - 1] \o more[n]]
  <2>1. \A n \in 0 .. N : n = 0 \/ more[n] = Of(n)
    BY <1>1, <1>2
  <2> QED
    BY <2>1
<1>5. PICK g : g = [n \in 0 .. N |-> IF n = 0 THEN <<>> ELSE g[n - 1] \o more[n]]
  BY <1>1, Accumulates
<1>6. g = [n \in 0 .. N |-> IF n = 0 THEN <<>> ELSE g[n - 1] \o Of(n)]
  BY <1>4, <1>5
<1>7. PICK f : /\ f = [n \in 0 .. N |-> IF n = 0 THEN <<>> ELSE f[n - 1] \o Of(n)]
               /\ load_targets(file) = f[N]
  BY <1>3, <1>6
<1>8. f = [n \in 0 .. N |-> IF n = 0 THEN <<>> ELSE f[n - 1] \o more[n]]
  BY <1>4, <1>7
<1>9. load_targets(file) \in Seq(T)
  BY <1>1, <1>8, <1>7, Accumulated
<1> QED
  BY <1>9 DEF T, N

\* Whatever the lines of a file, what is loaded from them is a sequence.
LEMMA LoadedTargets ==
  ASSUME NEW file, IsSequence(file.lines)
  PROVE  IsSequence(load_targets(file))
BY LoadedFromLines, IsASequence

LEMMA ReadTargets ==
  ASSUME NEW read, IsSequence(read), NEW all,
         all = Unless(read, [i \in DOMAIN read |-> read[i].value]), all.ok
  PROVE  IsSequence(all.value)
<1>1. Len(read) \in Nat /\ DOMAIN read = 1 .. Len(read)
  BY SequenceShape
<1>2. all = Gives([i \in DOMAIN read |-> read[i].value])
  BY <1>1, UnlessAll
<1>3. all.value = [i \in 1 .. Len(read) |-> read[i].value]
  BY <1>1, <1>2 DEF Gives
<1>4. all.value = [i \in 1 .. Len(read) |-> all.value[i]]
  BY <1>3
<1> QED
  BY <1>1, <1>4, SequenceMade

\* An inventory that is read gives a service for each of its entries.
LEMMA ReadInventory ==
  ASSUME NEW raw, IsSequence(raw.entries), load_inventory(raw).ok
  PROVE  /\ IsSequence(load_inventory(raw).value)
         /\ Len(load_inventory(raw).value) = Len(raw.entries)
<1> DEFINE n == Len(raw.entries)
<1>1. n \in Nat /\ DOMAIN raw.entries = 1 .. n
  BY SequenceShape
<1>2. PICK defaults : defaults = IF raw.shape = "services" THEN raw.defaults ELSE [k \in {} |-> {}]
  OBVIOUS
<1>3. PICK all : all = [ i \in 1 .. n |-> parse_service(raw.entries[i], defaults) ]
  OBVIOUS
<1>4. load_inventory(raw) = Unless(all, [i \in DOMAIN all |-> all[i].value])
  BY <1>1, <1>2, <1>3 DEF load_inventory
<1> HIDE DEF n
<1>5. IsSequence(all) /\ Len(all) = n /\ DOMAIN all = 1 .. n
  <2>1. all = [i \in 1 .. n |-> all[i]]
    BY <1>3
  <2> QED
    BY <1>1, <1>3, <2>1, SequenceMade
<1>6. load_inventory(raw).value = [i \in 1 .. n |-> all[i].value]
  BY <1>1, <1>4, <1>5, UnlessAll DEF Gives
<1>7. PICK v : v = load_inventory(raw).value
  OBVIOUS
<1>8. v = [i \in 1 .. n |-> v[i]]
  BY <1>6, <1>7
<1>9. IsSequence(v) /\ Len(v) = n
  BY <1>1, <1>8, SequenceMade
<1> QED
  BY <1>7, <1>9 DEF n

-----------------------------------------------------------------------------
(* The invariant of a run                                                  *)

FromRuns == \E r \in Runs : argv = r.argv /\ machine = r.machine

\* The jobs of a run: the targets, or the services of its inventory.
JobList ==
  IF argv.inventory.kind = "none"
  THEN [i \in DOMAIN targets |-> TargetJob(targets[i])]
  ELSE [i \in DOMAIN services |-> ServiceJob(services[i])]

ReadInv ==
  /\ IsSequence(targets) /\ IsSequence(services)
  /\ phase \in {"scan", "gate"} /\ Inventoried =>
       Len(services) = Len(argv.inventory.raw.entries)
  /\ concurrency > 0 =>
       /\ jobs = JobList
       /\ Inventoried => Len(services) = Len(argv.inventory.raw.entries)

\* How far each component is in each phase.
PhaseInv ==
  /\ phase \in {"parse", "discover", "load", "scan", "gate", "over"}
  /\ phase \in {"parse", "discover", "load"} => concurrency = 0
  /\ phase = "parse" => discovery = "idle"
  /\ phase \in {"load", "scan", "gate"} => discovery = "found"
  /\ phase = "load" => Inventoried
  /\ phase = "gate" => Reported

Gated == \E i \in JobIds : FailsGate(report[1][i][2])

\* What each exit code says.
ExitInv ==
  /\ phase = "over" <=> exit # <<>>
  /\ phase # "over" => ~uncaught
  /\ exit # <<>> => exit \in {<<0>>, <<1>>, <<2>>, <<3>>}
  /\ exit # <<>> => (exit = <<3>> <=> discovery = "unusable")
  /\ exit = <<0>> => Reported /\ (~Inventoried => ~Gated)
  /\ exit = <<1>> => uncaught \/ (~Inventoried /\ Reported /\ Gated)
  /\ exit = <<2>> => concurrency = 0 /\ (Inventoried \/ targets = <<>>)
  /\ uncaught /\ Reported => argv.json = "unwritable"

CommandInv ==
  /\ FromRuns
  /\ BatchInv
  /\ DiscoveryInv /\ Permitted(~argv.allow_old)
  /\ ReadInv /\ PhaseInv /\ ExitInv

LEMMA InitCommand == CommandInit => CommandInv
<1> SUFFICES ASSUME CommandInit PROVE CommandInv
  OBVIOUS
<1>1. /\ phase = "parse" /\ targets = <<>> /\ services = <<>> /\ exit = <<>>
      /\ uncaught = FALSE /\ discovery = "idle" /\ concurrency = 0 /\ report = <<>>
  BY DEF CommandInit, DiscoverInit, BatchInit
<1>2. FromRuns
  BY DEF CommandInit, FromRuns
<1>3. BatchInv
  BY BatchInitInv DEF CommandInit
<1>4. VersionsRead(machine)
  BY <1>2, CommandAssumption DEF FromRuns
<1>5. DiscoveryInv /\ Permitted(~argv.allow_old)
  BY <1>1, <1>4, DiscoverInitInv DEF CommandInit, Permitted
<1>6. IsSequence(<<>>)
  BY DEF IsSequence
<1>7. ReadInv
  BY <1>1, <1>6 DEF ReadInv
<1> QED
  BY <1>1, <1>2, <1>3, <1>5, <1>7 DEF CommandInv, PhaseInv, ExitInv

-----------------------------------------------------------------------------
(* The components take their own steps                                     *)

LEMMA Arguments ==
  ASSUME FromRuns
  PROVE  /\ argv.concurrency \in Int /\ argv.repeat \in Int /\ argv.allow_old \in BOOLEAN
         /\ argv.min_grade \in {None, "A", "B", "C", "D", "F"}
         /\ argv.min_score \in Seq(Int) /\ Len(argv.min_score) <= 1
         /\ IsSequence(argv.targets) /\ \A t \in ToSet(argv.targets) : IsSequence(t)
         /\ argv.file.kind = "lines" =>
              IsSequence(argv.file.lines) /\ \A l \in ToSet(argv.file.lines) : IsSequence(l)
         /\ argv.inventory.kind \in {"none", "unreadable", "not_json", "json"}
         /\ argv.inventory.kind = "json" =>
              /\ IsSequence(argv.inventory.raw.entries) /\ InventoryIsJson(argv.inventory.raw)
BY CommandAssumption DEF FromRuns, InventoryIsJson

LEMMA JobListIsSequence ==
  ASSUME ReadInv
  PROVE  /\ Len(JobList) \in Nat /\ DOMAIN JobList = 1 .. Len(JobList)
         /\ ~Inventoried => Len(JobList) = Len(targets)
         /\ Inventoried => Len(JobList) = Len(services)
<1>1. /\ Len(targets) \in Nat /\ DOMAIN targets = 1 .. Len(targets)
      /\ Len(services) \in Nat /\ DOMAIN services = 1 .. Len(services)
  BY SequenceShape DEF ReadInv
<1>2. PICK list : list = JobList
  OBVIOUS
<1>3. CASE ~Inventoried
  <2>1. list = [i \in 1 .. Len(targets) |-> TargetJob(targets[i])]
    BY <1>1, <1>2, <1>3 DEF JobList, Inventoried
  <2>2. list = [i \in 1 .. Len(targets) |-> list[i]]
    BY <2>1
  <2>3. IsSequence(list) /\ Len(list) = Len(targets)
    BY <1>1, <2>2, SequenceMade
  <2> QED
    BY <1>2, <1>3, <2>3, SequenceShape
<1>4. CASE Inventoried
  <2>1. list = [i \in 1 .. Len(services) |-> ServiceJob(services[i])]
    BY <1>1, <1>2, <1>4 DEF JobList, Inventoried
  <2>2. list = [i \in 1 .. Len(services) |-> list[i]]
    BY <2>1
  <2>3. IsSequence(list) /\ Len(list) = Len(services)
    BY <1>1, <2>2, SequenceMade
  <2> QED
    BY <1>2, <1>4, <2>3, SequenceShape
<1> QED
  BY <1>3, <1>4

\* A step of a run is a step of the batch, of the search, or of neither.
LEMMA CommandStep ==
  ASSUME CommandInv, [CommandNext]_commandAllVars
  PROVE  /\ argv' = argv
         /\ [BatchStep]_batchVars
         /\ \/ UNCHANGED discoveryVars
            \/ /\ (\E path : Discover(path)) \/ Skip \/ Inspect \/ Settle(~argv.allow_old)
               /\ UNCHANGED <<commandVars, batchVars>>
<1>1. CASE StartScan
  <2>1. Start(JobList, argv.concurrency)
    BY <1>1 DEF StartScan, JobList
  <2>2. argv.concurrency \in Int
    BY Arguments DEF CommandInv
  <2>3. Len(JobList) \in Nat /\ DOMAIN JobList = 1 .. Len(JobList)
    BY JobListIsSequence DEF CommandInv
  <2>4. BatchStep
    BY <2>1, <2>2, <2>3 DEF BatchStep
  <2> QED
    BY <1>1, <2>4 DEF StartScan, commandVars
<1>2. CASE Scan \/ PoolWork
  BY <1>2 DEF Scan, PoolWork, BatchStep, commandVars
<1>3. CASE Search
  BY <1>3 DEF Search, commandVars
<1>4. CASE Parse \/ NotUsable \/ Choose \/ Load \/ Write \/ Gate
  BY <1>4 DEF Parse, NotUsable, Choose, Load, Write, Gate
<1>5. CASE UNCHANGED commandAllVars
  BY <1>5 DEF commandAllVars, commandVars
<1> QED
  BY <1>1, <1>2, <1>3, <1>4, <1>5 DEF CommandNext, Main

LEMMA ComponentsInv ==
  ASSUME CommandInv, [CommandNext]_commandAllVars
  PROVE  FromRuns' /\ BatchInv' /\ DiscoveryInv' /\ Permitted(~argv.allow_old)'
<1>1. argv.allow_old \in BOOLEAN /\ (~argv.allow_old) \in BOOLEAN
  BY Arguments DEF CommandInv
<1>2. PICK require \in BOOLEAN : require = ~argv.allow_old
  BY <1>1
<1>3. BatchInv'
  BY CommandStep, BatchStepInv DEF CommandInv
<1>4. DiscoveryInv /\ Permitted(require) /\ argv' = argv /\ require = ~argv'.allow_old
  BY <1>2, CommandStep DEF CommandInv, Permitted
<1>5. CASE UNCHANGED discoveryVars
  <2>1. DiscoveryInv'
    BY <1>4, <1>5, DiscoveryStepInv
  <2>2. Permitted(require)'
    BY <1>4, <1>5, PermittedStays
  <2>3. machine' = machine
    BY <1>5 DEF discoveryVars
  <2> QED
    BY <1>3, <1>4, <2>1, <2>2, <2>3 DEF CommandInv, FromRuns, Permitted
<1>6. CASE (\E path : Discover(path)) \/ Skip \/ Inspect \/ Settle(require)
  <2>1. DiscoveryInv'
    BY <1>4, <1>6, DiscoveryStepInv DEF DiscoveryStep
  <2>2. Permitted(require)'
    BY <1>4, <1>6, DiscoveryPermits
  <2>3. machine' = machine
    BY <1>6 DEF Discover, Skip, Inspect, Settle
  <2> QED
    BY <1>3, <1>4, <2>1, <2>2, <2>3 DEF CommandInv, FromRuns, Permitted
<1> QED
  BY <1>2, <1>5, <1>6, CommandStep

-----------------------------------------------------------------------------
(* The steps of the main thread                                            *)

RunInv == ReadInv /\ PhaseInv /\ ExitInv

\* Nothing is reported before there is a pool, and a job list, the gate and
\* the report stay as they are when what they are made of does.
LEMMA NoPoolNoReport == BatchInv /\ concurrency = 0 => ~Reported
BY DEF BatchInv, BatchTypeOK, Kept, Reported

LEMMA JobListStays ==
  ASSUME UNCHANGED <<argv, targets, services>>
  PROVE  JobList' = JobList /\ (Inventoried' <=> Inventoried)
BY DEF JobList, Inventoried

LEMMA GatedStays ==
  ASSUME UNCHANGED <<argv, jobs, report>>
  PROVE  (Gated' <=> Gated) /\ (Reported' <=> Reported) /\ (Inventoried' <=> Inventoried)
BY DEF Gated, FailsGate, JobIds, Reported, Inventoried

LEMMA ParseInv == ASSUME CommandInv, Parse PROVE RunInv'
<1>1. /\ phase = "parse" /\ discovery = "idle" /\ concurrency = 0 /\ ~uncaught /\ exit = <<>>
      /\ UNCHANGED <<argv, services, discovery, concurrency, jobs, report>>
  BY DEF Parse, CommandInv, PhaseInv, ExitInv, discoveryVars, batchVars
<1>2. ~Reported' /\ (Inventoried' <=> Inventoried)
  BY <1>1, NoPoolNoReport DEF CommandInv, Reported, Inventoried
<1>3. PICK read : read = [i \in DOMAIN argv.targets |-> parse_target(argv.targets[i])]
                         \o (IF argv.file.kind = "lines" THEN load_targets(argv.file) ELSE <<>>)
  OBVIOUS
<1>4. PICK all : /\ all = Unless(read, [i \in DOMAIN read |-> read[i].value])
                 /\ IF ~all.ok \/ argv.file.kind = "unreadable"
                    THEN Crash /\ UNCHANGED targets
                    ELSE /\ targets' = all.value
                         /\ IF all.value = <<>> /\ argv.inventory.kind = "none"
                            THEN Exit(2) ELSE Proceed("discover")
  BY <1>3 DEF Parse
<1>5. IsSequence(read)
  <2>1. PICK given : given = [i \in DOMAIN argv.targets |-> parse_target(argv.targets[i])]
    OBVIOUS
  <2>2. Len(argv.targets) \in Nat /\ DOMAIN argv.targets = 1 .. Len(argv.targets)
    BY Arguments, SequenceShape DEF CommandInv
  <2>3. given = [i \in 1 .. Len(argv.targets) |-> given[i]]
    BY <2>1, <2>2
  <2>4. IsSequence(given)
    BY <2>2, <2>3, SequenceMade
  <2>5. IsSequence(IF argv.file.kind = "lines" THEN load_targets(argv.file) ELSE <<>>)
    <3>1. CASE argv.file.kind = "lines"
      BY <3>1, Arguments, LoadedTargets DEF CommandInv
    <3>2. CASE argv.file.kind # "lines"
      BY <3>2 DEF IsSequence
    <3> QED
      BY <3>1, <3>2
  <2> QED
    BY <1>3, <2>1, <2>4, <2>5, SequencesJoined
<1>6. IsSequence(targets')
  <2>1. CASE ~all.ok \/ argv.file.kind = "unreadable"
    BY <1>4, <2>1 DEF CommandInv, ReadInv
  <2>2. CASE ~(~all.ok \/ argv.file.kind = "unreadable")
    BY <1>4, <1>5, <2>2, ReadTargets
  <2> QED
    BY <2>1, <2>2
<1>7. \/ phase' = "over" /\ exit' = <<1>> /\ uncaught'
      \/ /\ phase' = "over" /\ exit' = <<2>> /\ ~uncaught'
         /\ targets' = <<>>
      \/ phase' = "discover" /\ exit' = <<>> /\ ~uncaught'
  BY <1>1, <1>4 DEF Crash, Exit, Proceed
<1>8. ReadInv'
  BY <1>1, <1>6, <1>7 DEF CommandInv, ReadInv
<1>9. PhaseInv'
  BY <1>1, <1>7 DEF PhaseInv
<1>10. ExitInv'
  BY <1>1, <1>2, <1>7 DEF ExitInv
<1> QED
  BY <1>8, <1>9, <1>10 DEF RunInv

LEMMA DiscoverPhaseInv ==
  ASSUME CommandInv, Search \/ NotUsable \/ Choose
  PROVE  RunInv'
<1>1. /\ phase = "discover" /\ concurrency = 0 /\ ~uncaught /\ exit = <<>>
      /\ UNCHANGED <<argv, targets, services, concurrency, jobs, report>>
  BY DEF Search, NotUsable, Choose, CommandInv, PhaseInv, ExitInv, commandVars, batchVars
<1>2. ~Reported' /\ (Inventoried' <=> Inventoried)
  BY <1>1, NoPoolNoReport DEF CommandInv, Reported, Inventoried
<1>3. \/ phase' = "discover" /\ exit' = <<>> /\ ~uncaught'
      \/ phase' = "over" /\ exit' = <<3>> /\ ~uncaught' /\ discovery' = "unusable"
      \/ /\ phase' = IF Inventoried THEN "load" ELSE "scan"
         /\ exit' = <<>> /\ ~uncaught' /\ discovery' = "found"
  BY <1>1 DEF Search, NotUsable, Choose, Exit, Proceed, commandVars, discoveryVars, Inventoried
<1>4. ReadInv'
  BY <1>1, <1>2, <1>3 DEF CommandInv, ReadInv
<1>5. PhaseInv'
  BY <1>1, <1>2, <1>3 DEF PhaseInv
<1>6. ExitInv'
  BY <1>1, <1>2, <1>3 DEF ExitInv
<1> QED
  BY <1>4, <1>5, <1>6 DEF RunInv

LEMMA LoadInv == ASSUME CommandInv, Load PROVE RunInv'
<1>1. /\ phase = "load" /\ discovery = "found" /\ concurrency = 0 /\ ~uncaught /\ exit = <<>>
      /\ UNCHANGED <<argv, targets, discovery, concurrency, jobs, report>> /\ Inventoried
  BY DEF Load, CommandInv, PhaseInv, ExitInv, discoveryVars, batchVars
<1>2. ~Reported' /\ (Inventoried' <=> Inventoried)
  BY <1>1, NoPoolNoReport DEF CommandInv, Reported, Inventoried
<1>3. PICK loaded :
        /\ loaded = CASE argv.inventory.kind = "unreadable" -> Raises("OSError")
                      [] argv.inventory.kind = "not_json" -> Raises("ValueError")
                      [] argv.inventory.kind = "json" -> load_inventory(argv.inventory.raw)
        /\ IF loaded.ok
           THEN /\ services' = [ i \in DOMAIN loaded.value |->
                                   Overridden(loaded.value[i], argv.repeat) ]
                /\ Proceed("scan")
           ELSE /\ UNCHANGED services
                /\ IF loaded.exception \in {"InventoryError", "ValueError", "OSError"}
                   THEN Exit(2) ELSE Crash
  BY DEF Load
<1>4. CASE loaded.ok
  <2>1. argv.inventory.kind = "json" /\ loaded = load_inventory(argv.inventory.raw)
    BY <1>1, <1>3, <1>4, Arguments DEF CommandInv, Inventoried, Raises
  <2>2. /\ IsSequence(loaded.value)
        /\ Len(loaded.value) = Len(argv.inventory.raw.entries)
    BY <1>4, <2>1, Arguments, ReadInventory DEF CommandInv
  <2>3. Len(loaded.value) \in Nat /\ DOMAIN loaded.value = 1 .. Len(loaded.value)
    BY <2>2, SequenceShape
  <2>4. services' = [i \in 1 .. Len(loaded.value) |-> services'[i]]
    BY <1>3, <1>4, <2>3
  <2>5. IsSequence(services') /\ Len(services') = Len(argv.inventory.raw.entries)
    BY <2>2, <2>3, <2>4, SequenceMade
  <2>6. phase' = "scan" /\ exit' = <<>> /\ ~uncaught'
    BY <1>1, <1>3, <1>4 DEF Proceed
  <2>7. ReadInv'
    BY <1>1, <2>5 DEF CommandInv, ReadInv
  <2> QED
    BY <1>1, <1>2, <2>6, <2>7 DEF RunInv, PhaseInv, ExitInv
<1>5. CASE ~loaded.ok
  <2>1. /\ phase' = "over" /\ services' = services
        /\ (exit' = <<2>> /\ ~uncaught') \/ (exit' = <<1>> /\ uncaught')
    BY <1>1, <1>3, <1>5 DEF Exit, Crash
  <2>2. ReadInv'
    BY <1>1, <2>1 DEF CommandInv, ReadInv
  <2> QED
    BY <1>1, <1>2, <2>1, <2>2 DEF RunInv, PhaseInv, ExitInv
<1> QED
  BY <1>4, <1>5

LEMMA StartScanInv == ASSUME CommandInv, StartScan PROVE RunInv'
<1>1. /\ phase = "scan" /\ discovery = "found" /\ ~uncaught /\ exit = <<>>
      /\ UNCHANGED <<argv, phase, targets, services, exit, uncaught, discovery>>
      /\ jobs' = JobList /\ report' = report
  BY DEF StartScan, Start, CommandInv, PhaseInv, ExitInv, commandVars, discoveryVars, JobList
<1>2. JobList' = JobList /\ (Inventoried' <=> Inventoried)
  BY <1>1, JobListStays
<1>3. ReadInv'
  BY <1>1, <1>2 DEF CommandInv, ReadInv
<1>4. PhaseInv' /\ ExitInv'
  BY <1>1 DEF PhaseInv, ExitInv
<1> QED
  BY <1>3, <1>4 DEF RunInv

LEMMA ScanInv == ASSUME CommandInv, Scan \/ PoolWork PROVE RunInv'
<1>1. /\ UNCHANGED <<argv, phase, targets, services, exit, uncaught, discovery>>
      /\ jobs' = jobs /\ concurrency' = concurrency
      /\ Reported => report' = report
  BY DEF Scan, PoolWork, Gather, Work, Submit, Report, Collect, Take, Return, Raise,
         commandVars, discoveryVars, Reported
<1>2. phase # "scan" => report' = report
  BY DEF Scan, PoolWork, Work, Take, Return, Raise
<1>3. JobList' = JobList /\ (Inventoried' <=> Inventoried)
  BY <1>1, JobListStays
<1>4. ReadInv'
  BY <1>1, <1>3 DEF CommandInv, ReadInv
<1>5. PhaseInv'
  <2>1. Reported => Reported'
    BY <1>1 DEF Reported
  <2> QED
    BY <1>1, <1>3, <2>1 DEF CommandInv, PhaseInv
<1>6. ExitInv'
  <2>1. CASE phase = "scan"
    BY <1>1, <2>1 DEF CommandInv, ExitInv
  <2>2. CASE phase # "scan"
    <3>1. (Gated' <=> Gated) /\ (Reported' <=> Reported)
      BY <1>1, <1>2, <2>2, GatedStays
    <3> QED
      BY <1>1, <1>3, <3>1 DEF CommandInv, ExitInv
  <2> QED
    BY <2>1, <2>2
<1> QED
  BY <1>4, <1>5, <1>6 DEF RunInv

LEMMA WriteInv == ASSUME CommandInv, Write PROVE RunInv'
<1>1. /\ phase = "scan" /\ discovery = "found" /\ ~uncaught /\ exit = <<>> /\ Reported
      /\ UNCHANGED <<argv, targets, services, discovery, concurrency, jobs, report>>
  BY DEF Write, CommandInv, PhaseInv, ExitInv, discoveryVars, batchVars
<1>2. JobList' = JobList /\ (Inventoried' <=> Inventoried) /\ Reported'
  BY <1>1, JobListStays DEF Reported
<1>3. \/ /\ phase' = "over" /\ exit' = <<1>> /\ uncaught' /\ argv.json = "unwritable"
      \/ phase' = "gate" /\ exit' = <<>> /\ ~uncaught'
  BY <1>1 DEF Write, Crash, Proceed
<1>4. ReadInv'
  BY <1>1, <1>2, <1>3 DEF CommandInv, ReadInv
<1>5. PhaseInv' /\ ExitInv'
  BY <1>1, <1>2, <1>3 DEF PhaseInv, ExitInv
<1> QED
  BY <1>4, <1>5 DEF RunInv

LEMMA GateInv == ASSUME CommandInv, Gate PROVE RunInv'
<1>1. /\ phase = "gate" /\ discovery = "found" /\ ~uncaught /\ exit = <<>> /\ Reported
      /\ UNCHANGED <<argv, targets, services, discovery, concurrency, jobs, report>>
  BY DEF Gate, CommandInv, PhaseInv, ExitInv, discoveryVars, batchVars
<1>2. /\ JobList' = JobList /\ (Inventoried' <=> Inventoried) /\ Reported'
      /\ Gated' <=> Gated
  BY <1>1, JobListStays, GatedStays
<1>3. /\ phase' = "over" /\ ~uncaught'
      /\ exit' = <<IF ~Inventoried /\ Gated THEN 1 ELSE 0>>
  BY <1>1 DEF Gate, Exit, Gated, Inventoried
<1>4. ReadInv'
  BY <1>1, <1>2, <1>3 DEF CommandInv, ReadInv
<1>5. PhaseInv' /\ ExitInv'
  BY <1>1, <1>2, <1>3 DEF PhaseInv, ExitInv
<1> QED
  BY <1>4, <1>5 DEF RunInv

LEMMA NextCommand == CommandInv /\ [CommandNext]_commandAllVars => CommandInv'
<1> SUFFICES ASSUME CommandInv, [CommandNext]_commandAllVars PROVE CommandInv'
  OBVIOUS
<1>1. ASSUME UNCHANGED commandAllVars PROVE RunInv'
  <2>1. UNCHANGED <<argv, phase, targets, services, exit, uncaught, discovery, concurrency,
                    jobs, report>>
    BY <1>1 DEF commandAllVars, commandVars, discoveryVars, batchVars
  <2>2. /\ JobList' = JobList /\ (Inventoried' <=> Inventoried)
        /\ (Gated' <=> Gated) /\ (Reported' <=> Reported)
    BY <2>1, JobListStays, GatedStays
  <2> QED
    BY <2>1, <2>2 DEF RunInv, CommandInv, ReadInv, PhaseInv, ExitInv
<1>2. RunInv'
  BY <1>1, ParseInv, DiscoverPhaseInv, LoadInv, StartScanInv, ScanInv, WriteInv, GateInv
     DEF CommandNext, Main
<1> QED
  BY <1>2, ComponentsInv DEF CommandInv, RunInv

\* The invariant of the composition holds in every state of every run.
THEOREM CommandInvariant == CommandSpec => []CommandInv
<1>1. CommandInit => CommandInv
  BY InitCommand
<1>2. CommandInv /\ [CommandNext]_commandAllVars => CommandInv'
  BY NextCommand
<1> QED
  BY <1>1, <1>2, PTL DEF CommandSpec

-----------------------------------------------------------------------------
(* What a run promises                                                     *)

\* The types of a run's state, for all of its components at once.
THEOREM CommandTypes == CommandSpec => []CommandTypeOK
<1>1. CommandInv => CommandTypeOK
  <2> SUFFICES ASSUME CommandInv PROVE CommandTypeOK
    OBVIOUS
  <2>1. /\ discovery \in {"idle", "searching", "found", "unusable"}
        /\ tried \in 0 .. Len(candidates)
        /\ client # <<>> <=> discovery = "found"
    BY DEF CommandInv, DiscoveryInv
  <2>2. exit = <<>> \/ exit[1] \in 0 .. 3
    BY DEF CommandInv, ExitInv
  <2>3. /\ phase \in {"parse", "discover", "load", "scan", "gate", "over"}
        /\ phase = "over" <=> exit # <<>>
        /\ BatchTypeOK
    BY DEF CommandInv, PhaseInv, ExitInv, BatchInv
  <2> QED
    BY <2>1, <2>2, <2>3 DEF CommandTypeOK
<1> QED
  BY <1>1, CommandInvariant, PTL

\* discover(): the client a run uses is the first that meets the minimum, and
\* an old one only if it may be used, none meets it and it is the newest.
THEOREM RunsUseTheBestClient == CommandSpec => []BestClient
<1>1. CommandInv => BestClient
  <2> SUFFICES ASSUME CommandInv PROVE BestClient
    OBVIOUS
  <2>1. PICK require \in BOOLEAN : require = ~argv.allow_old
    BY Arguments DEF CommandInv
  <2>2. BestClientIsUsed(require)
    BY <2>1, DiscoveryInvBest DEF CommandInv
  <2> QED
    BY <2>1, <2>2 DEF BestClient
<1> QED
  BY <1>1, CommandInvariant, PTL

\* detect_groups(): a client is never denied a group of the catalog that it
\* can offer, and credited with another only by a trial that timed out.
THEOREM ClientsAreCredited == CommandSpec => []GroupsAreTheClients
<1>1. CommandInv => GroupsAreTheClients
  BY DiscoveryInvGroups DEF CommandInv
<1> QED
  BY <1>1, CommandInvariant, PTL

\* The executor's bookkeeping: a submitted job is in exactly one place, so
\* that no exception of a neighbour loses it or makes it run twice.
THEOREM JobsRunOnce == CommandSpec => []EachJobOnce
<1>1. CommandInv => EachJobOnce
  BY BatchInvOnce DEF CommandInv
<1> QED
  BY <1>1, CommandInvariant, PTL

\* scan_all() and Scanner.scan(): unless two entries share a name, the report
\* has every entry's own result at its own position.
THEOREM ReportsAreOwn == CommandSpec => [](DistinctKeys => ReportIsOwn)
<1>1. CommandInv => (DistinctKeys => ReportIsOwn)
  BY BatchInvOwn DEF CommandInv
<1> QED
  BY <1>1, CommandInvariant, PTL

\* The batch inside a run implements what BatchPromise promises its caller,
\* in every run whose entries have names of their own.
THEOREM BatchKeepsItsPromise == CommandSpec /\ []DistinctKeys => ImplementsPromise
<1>1. CommandInit => Promise!Init
  BY PromiseInit DEF CommandInit
<1>2. CommandInv /\ DistinctKeys /\ [CommandNext]_commandAllVars
        => [Promise!Next]_(Promise!promiseVars)
  <2> SUFFICES ASSUME CommandInv, DistinctKeys, [CommandNext]_commandAllVars
               PROVE  [Promise!Next]_(Promise!promiseVars)
    OBVIOUS
  <2>1. [BatchStep]_batchVars
    BY CommandStep
  <2> QED
    BY <2>1, PromiseStep DEF CommandInv
<1> QED
  BY <1>1, <1>2, CommandInvariant, PTL DEF CommandSpec, ImplementsPromise, Promise!Spec

-----------------------------------------------------------------------------
(* The exit code                                                           *)

\* The ranks of the code are the order of the grades.
LEMMA RanksOrderGrades ==
  ASSUME NEW g \in {"A", "B", "C", "D", "F"}, NEW h \in {"A", "B", "C", "D", "F"}
  PROVE  (\E i, j \in DOMAIN Grades : i < j /\ Grades[i] = g /\ Grades[j] = h)
           <=> GRADE_RANK[h] < GRADE_RANK[g]
<1> DEFINE At == [A |-> 1, B |-> 2, C |-> 3, D |-> 4, F |-> 5]
<1>1. /\ DOMAIN Grades = 1 .. 5
      /\ \A i \in 1 .. 5 : \A x \in {"A", "B", "C", "D", "F"} : Grades[i] = x <=> At[x] = i
  BY DEF Grades
<1>2. \A x \in {"A", "B", "C", "D", "F"} : At[x] \in 1 .. 5 /\ GRADE_RANK[x] = 5 - At[x]
  BY DEF GRADE_RANK
<1> HIDE DEF At
<1> QED
  BY <1>1, <1>2

LEMMA GradesGiven ==
  ASSUME NEW score \in 0 .. 100
  PROVE  _grade(score) \in {"A", "B", "C", "D", "F"}
BY DEF _grade

\* A result fails the gate exactly when it misses a threshold.
LEMMA FailsIfMisses ==
  ASSUME FromRuns, NEW r, r.score \in 0 .. 100, r.grade \in {"A", "B", "C", "D", "F"}
  PROVE  FailsGate(r) <=> Misses(r)
<1>1. /\ argv.min_grade \in {None, "A", "B", "C", "D", "F"}
      /\ argv.min_score \in Seq(Int) /\ Len(argv.min_score) <= 1
  BY Arguments
<1>2. (argv.min_grade # None /\ GRADE_RANK[r.grade] < GRADE_RANK[argv.min_grade])
        <=> \E i, j \in DOMAIN Grades :
              i < j /\ Grades[i] = argv.min_grade /\ Grades[j] = r.grade
  <2>1. CASE argv.min_grade = None
    <3>1. \A i \in DOMAIN Grades : Grades[i] # None
      BY DEF Grades, None
    <3> QED
      BY <2>1, <3>1
  <2>2. CASE argv.min_grade # None
    BY <1>1, <2>2, RanksOrderGrades
  <2> QED
    BY <2>1, <2>2
<1>3. (argv.min_score # <<>> /\ r.score < argv.min_score[1])
        <=> \E least \in ToSet(argv.min_score) : r.score < least
  <2>1. CASE argv.min_score = <<>>
    BY <2>1 DEF ToSet
  <2>2. CASE argv.min_score # <<>>
    <3>1. DOMAIN argv.min_score = {1}
      BY <1>1, <2>2
    <3> QED
      BY <2>2, <3>1 DEF ToSet
  <2> QED
    BY <2>1, <2>2
<1> QED
  BY <1>2, <1>3 DEF FailsGate, Misses

\* What a target's future holds once the batch is reported is a graded score
\* of that target, and the report has it at the target's own position.
LEMMA TargetsOwnResults ==
  ASSUME CommandInv, DistinctKeys, Reported, ~Inventoried, NEW i \in JobIds
  PROVE  /\ JobIds = DOMAIN targets
         /\ report[1][i][2] = OwnResult(i)
         /\ FailsGate(OwnResult(i)) <=> Misses(OwnResult(i))
<1>1. /\ concurrency > 0 /\ collected = JobIds /\ future[i] # <<>>
      /\ \E v \in jobs[i].returns \cup {jobs[i].stand_in} : future[i] = <<v>>
  BY DEF CommandInv, BatchInv, BatchTypeOK, Kept, Reported
<1>2. jobs = [k \in DOMAIN targets |-> TargetJob(targets[k])]
  BY <1>1 DEF CommandInv, ReadInv, JobList, Inventoried
<1>3. JobIds = DOMAIN targets /\ jobs[i] = TargetJob(targets[i])
  BY <1>2 DEF JobIds
<1>4. PICK v \in jobs[i].returns \cup {jobs[i].stand_in} : future[i] = <<v>>
  BY <1>1
<1>5. \E h, p : \E score \in 0 .. 100 : v = TargetResult(h, p, score)
  <2>1. CASE v = jobs[i].stand_in
    <3> DEFINE name == Named(label(targets[i].host, targets[i].port))
    <3>1. TargetJob(targets[i]).stand_in = TargetResult(name.host, name.port, 0)
      BY DEF TargetJob
    <3>2. v = TargetResult(name.host, name.port, 0)
      BY <1>3, <2>1, <3>1
    <3> HIDE DEF name
    <3>3. 0 \in 0 .. 100
      OBVIOUS
    <3> QED
      BY <3>2, <3>3
  <2>2. CASE v \in jobs[i].returns
    <3>1. PICK score \in Scores :
            v = TargetResult(targets[i].host, targets[i].port, score)
      BY <1>3, <2>2 DEF TargetJob
    <3>2. score \in 0 .. 100
      BY CommandAssumption
    <3> QED
      BY <3>1, <3>2
  <2> QED
    BY <2>1, <2>2
<1>6. PICK score \in 0 .. 100 : v.score = score /\ v.grade = _grade(score)
  BY <1>5 DEF TargetResult
<1>7. FailsGate(v) <=> Misses(v)
  BY <1>6, GradesGiven, FailsIfMisses DEF CommandInv
<1>8. OwnResult(i) = v
  BY <1>4 DEF OwnResult
<1>9. report[1][i][2] = OwnResult(i)
  BY BatchInvOwn DEF CommandInv, ReportIsOwn, OwnResult
<1> QED
  BY <1>3, <1>7, <1>8, <1>9

\* The list that is reported has one place per job.
LEMMA ReportLength ==
  ASSUME CommandInv, Reported
  PROVE  Len(report[1]) = Len(IF Inventoried THEN argv.inventory.raw.entries ELSE targets)
<1>1. /\ concurrency > 0 /\ report = << [ i \in JobIds |-> results[jobs[i].key] ] >>
      /\ Len(jobs) \in Nat /\ JobIds = 1 .. Len(jobs)
  BY DEF CommandInv, BatchInv, Kept, Reported
<1>2. PICK list : list = report[1]
  OBVIOUS
<1>3. list = [i \in 1 .. Len(jobs) |-> list[i]]
  BY <1>1, <1>2
<1>4. Len(report[1]) = Len(jobs)
  BY <1>1, <1>2, <1>3, SequenceMade
<1>5. jobs = JobList /\ ReadInv
      /\ (Inventoried => Len(services) = Len(argv.inventory.raw.entries))
  BY <1>1 DEF CommandInv, ReadInv
<1> QED
  BY <1>4, <1>5, JobListIsSequence

\* What main() returns is what its module comment says of the exit codes, in
\* every run whose targets have labels of their own: 0 has scanned all and
\* missed no threshold, 1 has missed one or crashed, 2 has scanned nothing, 3
\* has found no OpenSSL.
THEOREM ExitCodesTellTruth == CommandSpec => [](DistinctKeys => ExitCodeTellsTruth)
<1>1. CommandInv => (DistinctKeys => ExitCodeTellsTruth)
  <2> SUFFICES ASSUME CommandInv, DistinctKeys, exit # <<>> PROVE ExitCodeTellsTruth
    BY DEF ExitCodeTellsTruth
  <2>1. ExitInv
    BY DEF CommandInv
  <2>2. exit \in {<<0>>, <<1>>, <<2>>, <<3>>}
    BY <2>1 DEF ExitInv
  <2>3. Reported /\ ~Inventoried => (Gated <=> \E i \in JobIds : Misses(OwnResult(i)))
    <3> SUFFICES ASSUME Reported, ~Inventoried
                 PROVE  Gated <=> \E i \in JobIds : Misses(OwnResult(i))
      OBVIOUS
    <3>1. ASSUME NEW i \in JobIds PROVE FailsGate(report[1][i][2]) <=> Misses(OwnResult(i))
      <4>1. PICK x : x = report[1][i][2] /\ x = OwnResult(i)
        BY TargetsOwnResults
      <4> QED
        BY <4>1, TargetsOwnResults
    <3> QED
      BY <3>1 DEF Gated
  <2>4. ASSUME exit[1] = 0
        PROVE  /\ Len(report[1]) = Len(IF Inventoried THEN argv.inventory.raw.entries ELSE targets)
               /\ GateIsSound
    <3>1. Reported /\ (~Inventoried => ~Gated)
      BY <2>1, <2>2, <2>4 DEF ExitInv
    <3>2. GateIsSound
      <4> SUFFICES ASSUME ~Inventoried, NEW i \in DOMAIN targets PROVE ~Misses(OwnResult(i))
        BY DEF GateIsSound
      <4>1. JobIds = DOMAIN targets
        <5>1. concurrency > 0
          BY <3>1 DEF CommandInv, BatchInv, Kept, Reported
        <5> QED
          BY <5>1 DEF CommandInv, ReadInv, JobList, JobIds, Inventoried
      <4> QED
        BY <2>3, <3>1, <4>1
    <3> QED
      BY <3>1, <3>2, ReportLength
  <2>5. exit[1] = 1 => uncaught \/ (~Inventoried /\ \E i \in JobIds : Misses(OwnResult(i)))
    BY <2>1, <2>2, <2>3 DEF ExitInv
  <2>6. exit[1] = 2 => jobs = <<>> /\ (Inventoried \/ targets = <<>>)
    BY <2>1, <2>2 DEF ExitInv, CommandInv, BatchInv
  <2>7. /\ exit[1] = 3 <=> discovery = "unusable"
        /\ uncaught /\ Reported => argv.json = "unwritable"
    BY <2>1, <2>2 DEF ExitInv
  <2> QED
    BY <2>4, <2>5, <2>6, <2>7 DEF ExitCodeTellsTruth
<1> QED
  BY <1>1, CommandInvariant, PTL

-----------------------------------------------------------------------------
(* Texts and lists of readings                                             *)

\* A list whose readings all gave a value is one of two such lists.
LEMMA AllReadJoined ==
  ASSUME NEW s, NEW t, IsSequence(s), IsSequence(t), \A i \in 1 .. Len(s \o t) : (s \o t)[i].ok
  PROVE  (\A i \in 1 .. Len(s) : s[i].ok) /\ (\A i \in 1 .. Len(t) : t[i].ok)
<1>1. Len(s) \in Nat /\ Len(t) \in Nat /\ Len(s \o t) = Len(s) + Len(t)
  BY JoinedElements, SequenceShape
<1>2. ASSUME NEW i \in 1 .. Len(s) PROVE s[i].ok
  <2>1. i \in 1 .. Len(s \o t) /\ (s \o t)[i] = s[i]
    BY <1>1, JoinedElements
  <2> QED
    BY <2>1
<1>3. ASSUME NEW i \in 1 .. Len(t) PROVE t[i].ok
  <2>1. Len(s) + i \in 1 .. Len(s \o t) /\ (s \o t)[Len(s) + i] = t[i]
    BY <1>1, JoinedElements
  <2> QED
    BY <2>1
<1> QED
  BY <1>2, <1>3

\* If `or` gives an empty text, every text was empty.
LEMMA NothingGiven ==
  ASSUME NEW texts, Len(texts) \in Nat, FirstGiven(texts) = <<>>
  PROVE  \A i \in 1 .. Len(texts) : texts[i] = <<>>
<1> DEFINE I == { i \in 1 .. Len(texts) : texts[i] # <<>> }
<1>1. I # {} => Min(I) \in I
  <2>1. I \in SUBSET Nat
    OBVIOUS
  <2> HIDE DEF I
  <2>2. I # {} => \E x \in I : \A y \in I : x <= y
    BY <2>1, LeastElement
  <2> QED
    BY <2>2 DEF Min
<1>2. SelectInSeq(texts, LAMBDA t : t # <<>>) = IF I # {} THEN Min(I) ELSE 0
  BY DEF SelectInSeq
<1>3. I = {}
  BY <1>1, <1>2 DEF FirstGiven
<1> QED
  BY <1>3

\* The first place of a delimiter, and the last colon.
LEMMA IndexIs ==
  ASSUME NEW text, Len(text) \in Nat, NEW c, NEW k \in 1 .. Len(text),
         text[k] = c, \A j \in 1 .. k - 1 : text[j] # c
  PROVE  IndexOf(text, c) = k
<1> DEFINE I == { i \in 1 .. Len(text) : text[i] = c }
<1>1. k \in I /\ \A y \in I : k <= y
  OBVIOUS
<1>2. IndexOf(text, c) = IF I # {} THEN Min(I) ELSE 0
  BY DEF SelectInSeq, IndexOf
<1>3. I \subseteq Nat
  OBVIOUS
<1> HIDE DEF I
<1>4. Min(I) \in I /\ \A y \in I : Min(I) <= y
  BY <1>1 DEF Min
<1>6. PICK m : m = Min(I)
  OBVIOUS
<1>7. m \in Nat /\ k \in Nat /\ m <= k /\ k <= m
  BY <1>1, <1>3, <1>4, <1>6
<1>5. Min(I) = k
  BY <1>6, <1>7
<1> QED
  BY <1>1, <1>2, <1>5

LEMMA LastIndexIs ==
  ASSUME NEW text, Len(text) \in Nat, NEW k \in 1 .. Len(text),
         text[k] = ":", \A j \in k + 1 .. Len(text) : text[j] # ":"
  PROVE  SelectLastInSeq(text, LAMBDA c : c = ":") = k
<1> DEFINE I == { i \in 1 .. Len(text) : text[i] = ":" }
<1>1. k \in I /\ \A y \in I : k >= y
  OBVIOUS
<1>2. SelectLastInSeq(text, LAMBDA c : c = ":") = IF I # {} THEN Max(I) ELSE 0
  BY DEF SelectLastInSeq
<1>3. I \subseteq Nat
  OBVIOUS
<1> HIDE DEF I
<1>4. Max(I) \in I /\ \A y \in I : Max(I) >= y
  BY <1>1 DEF Max
<1> QED
  BY <1>1, <1>2, <1>3, <1>4

\* A place that is found is a place of the delimiter.
LEMMA IndexFound ==
  ASSUME NEW text, IsSequence(text), NEW c
  PROVE  /\ IndexOf(text, c) \in 0 .. Len(text)
         /\ IndexOf(text, c) # 0 => text[IndexOf(text, c)] = c
<1> DEFINE I == { i \in 1 .. Len(text) : text[i] = c }
<1>1. Len(text) \in Nat
  BY SequenceShape
<1>2. I # {} => Min(I) \in I
  <2>1. I \in SUBSET Nat
    BY <1>1
  <2> HIDE DEF I
  <2>2. I # {} => \E x \in I : \A y \in I : x <= y
    BY <2>1, LeastElement
  <2> QED
    BY <2>2 DEF Min
<1>3. IndexOf(text, c) = IF I # {} THEN Min(I) ELSE 0
  BY DEF SelectInSeq, IndexOf
<1>4. PICK k : k = IndexOf(text, c)
  OBVIOUS
<1>5. k = 0 \/ k \in I
  BY <1>2, <1>3, <1>4
<1>6. \A i \in I : i \in 0 .. Len(text) /\ i # 0 /\ text[i] = c
  BY <1>1
<1>7. 0 \in 0 .. Len(text)
  BY <1>1
<1> HIDE DEF I
<1> QED
  BY <1>4, <1>5, <1>6, <1>7

\* What precedes a delimiter is a text.
LEMMA PartitionIs ==
  ASSUME NEW text, IsSequence(text), NEW c
  PROVE  IsSequence(Partition(text, c)[1])
<1>1. PICK k : k = IndexOf(text, c)
  OBVIOUS
<1>2. k \in 0 .. Len(text) /\ Len(text) \in Nat
  BY <1>1, IndexFound, SequenceShape
<1>3. CASE k = 0
  BY <1>1, <1>3 DEF Partition
<1>4. CASE k # 0
  <2>1. 1 \in Int /\ k - 1 \in Int /\ 1 <= 1 /\ 1 <= (k - 1) + 1 /\ k - 1 <= Len(text)
    BY <1>2, <1>4
  <2>2. IsSequence(Cut(text, 1, k - 1))
    BY <2>1, CutIs
  <2> QED
    BY <1>1, <1>4, <2>2 DEF Partition, Before, Cut
<1> QED
  BY <1>3, <1>4

-----------------------------------------------------------------------------
(* Addresses                                                               *)

\* A port that is written is read, and is no delimiter.
LEMMA NumeralsRead ==
  ASSUME NEW p \in Numerals
  PROVE  int(<<p>>) = Gives(p) /\ p \notin {":", "[", "]"}
BY DEF Numerals, int, Null

\* Whatever int() reads is a number.
LEMMA PortsAreNumerals ==
  ASSUME NEW text, int(text).ok
  PROVE  int(text).value \in Numerals
BY DEF int, Gives, Raises

\* What follows a host in a text.
LEMMA HostAndPort ==
  ASSUME NEW h, IsSequence(h), NEW p
  PROVE  LET t == h \o <<":", p>> IN
         /\ IsSequence(t) /\ Len(h) \in Nat /\ Len(t) = Len(h) + 2
         /\ \A i \in 1 .. Len(h) : t[i] = h[i]
         /\ t[Len(h) + 1] = ":" /\ t[Len(h) + 2] = p
         /\ SubSeq(t, 1, Len(h)) = h
         /\ SubSeq(t, Len(h) + 2, Len(h) + 2) = <<p>>
<1>1. PICK q : q = <<":", p>>
  OBVIOUS
<1>2. IsSequence(q) /\ Len(q) = 2 /\ q[1] = ":" /\ q[2] = p
  BY <1>1, ShortSequences
<1>3. PICK t : t = Join(h, q)
  OBVIOUS
<1>4. IsSequence(q)
  BY <1>2
<1>5. /\ IsSequence(t) /\ Len(t) = Len(h) + Len(q)
      /\ \A i \in 1 .. Len(h) : t[i] = h[i]
      /\ \A i \in 1 .. Len(q) : t[Len(h) + i] = q[i]
  BY <1>3, <1>4, JoinIs
<1>6. PICK n \in Nat : n = Len(h)
  BY SequenceShape
<1>7. /\ Len(t) = n + 2 /\ t[n + 1] = ":" /\ t[n + 2] = p
      /\ \A i \in 1 .. n : t[i] = h[i]
  BY <1>2, <1>5, <1>6
<1>8. IsSequence(t)
  BY <1>5
<1>9. Cut(t, 1, n) = h
  <2>1. 1 \in Int /\ n \in Int /\ 1 <= 1 /\ 1 <= n + 1 /\ n <= Len(t) /\ n + 1 - 1 = n
        /\ \A i \in 1 .. n : 1 + i - 1 = i
    BY <1>6, <1>7
  <2>2. PICK u : u = Cut(t, 1, n)
    OBVIOUS
  <2>3. /\ IsSequence(u) /\ Len(u) = n + 1 - 1
        /\ \A i \in 1 .. n + 1 - 1 : u[i] = t[1 + i - 1]
    BY <1>8, <2>1, <2>2, CutIs
  <2>4. Len(u) = Len(h) /\ \A i \in 1 .. Len(u) : u[i] = h[i]
    BY <1>6, <1>7, <2>1, <2>3
  <2>5. IsSequence(u)
    BY <2>3
  <2> QED
    BY <2>2, <2>4, <2>5, SameSequence
<1>10. Cut(t, n + 2, n + 2) = <<p>>
  <2>1. /\ n + 2 \in Int /\ 1 <= n + 2 /\ n + 2 <= (n + 2) + 1 /\ n + 2 <= Len(t)
        /\ (n + 2) + 1 - (n + 2) = 1 /\ (n + 2) + 1 - 1 = n + 2
    BY <1>6, <1>7
  <2>2. PICK u : u = Cut(t, n + 2, n + 2)
    OBVIOUS
  <2>3. /\ IsSequence(u) /\ Len(u) = (n + 2) + 1 - (n + 2)
        /\ \A i \in 1 .. (n + 2) + 1 - (n + 2) : u[i] = t[(n + 2) + i - 1]
    BY <1>8, <2>1, <2>2, CutIs
  <2>4. Len(u) = 1 /\ u[1] = p
    BY <1>7, <2>1, <2>3
  <2>5. PICK v : v = <<p>>
    OBVIOUS
  <2>6. IsSequence(v) /\ Len(v) = 1 /\ v[1] = p
    BY <2>5, ShortSequences
  <2>7. \A i \in 1 .. 1 : i = 1
    OBVIOUS
  <2>8. \A i \in 1 .. Len(u) : u[i] = v[i]
    BY <2>4, <2>6, <2>7
  <2>9. IsSequence(u) /\ IsSequence(v) /\ Len(u) = Len(v)
    BY <2>3, <2>4, <2>6
  <2>10. u = v
    BY <2>8, <2>9, SameSequence
  <2> QED
    BY <2>2, <2>5, <2>10
<1> QED
  BY <1>1, <1>3, <1>6, <1>7, <1>8, <1>9, <1>10 DEF Join, Cut

\* A label names its host and its port, whatever the host looks like.
LEMMA LabelsName ==
  ASSUME NEW h, IsSequence(h), NEW p \in Numerals
  PROVE  Named(label(h, p)) = [host |-> h, port |-> p]
<1>1. PICK t : t = h \o <<":", p>>
  OBVIOUS
<1>2. /\ IsSequence(t) /\ Len(h) \in Nat /\ Len(t) = Len(h) + 2
      /\ t[Len(h) + 1] = ":" /\ t[Len(h) + 2] = p /\ SubSeq(t, 1, Len(h)) = h
  BY <1>1, HostAndPort
<1>3. \A j \in Len(h) + 2 .. Len(t) : t[j] # ":"
  <2>1. p # ":"
    BY NumeralsRead
  <2>2. \A j \in Len(h) + 2 .. Len(t) : j = Len(h) + 2
    BY <1>2
  <2> QED
    BY <1>2, <2>1, <2>2
<1>4. SelectLastInSeq(t, LAMBDA c : c = ":") = Len(h) + 1
  <2>1. Len(t) \in Nat /\ Len(h) + 1 \in 1 .. Len(t) /\ (Len(h) + 1) + 1 = Len(h) + 2
    BY <1>2
  <2> QED
    BY <1>2, <1>3, <2>1, LastIndexIs
<1>5. Before(t, Len(h) + 1) = h /\ t[(Len(h) + 1) + 1] = p
  <2>1. (Len(h) + 1) - 1 = Len(h) /\ (Len(h) + 1) + 1 = Len(h) + 2
    BY <1>2
  <2> QED
    BY <1>2, <2>1 DEF Before
<1> QED
  BY <1>1, <1>4, <1>5 DEF Named, label

\* A host as an operator writes one: a name or an address without brackets,
\* or an IPv6 address within them.
Unbracketed(h) == IsSequence(h) /\ \A i \in DOMAIN h : h[i] \notin {"[", "]"}
IsHost(h) ==
  \/ Unbracketed(h)
  \/ LET w == SubSeq(h, 2, Len(h) - 1)
     IN  /\ Unbracketed(w) /\ \E i \in DOMAIN w : w[i] = ":"
         /\ h = <<"[">> \o w \o <<"]">>

\* Its address is read back as a host with the same address.
ReadsBack(h, p) ==
  LET r == _split_host_port(address(h, p), "80")
  IN  r.ok /\ r.value.port = p /\ address(r.value.host, r.value.port) = address(h, p)

\* A host without a colon is read up to its port.
LEMMA PlainReadsBack ==
  ASSUME NEW h, IsSequence(h), NEW p \in Numerals,
         \A i \in DOMAIN h : h[i] \notin {"[", "]", ":"}
  PROVE  ReadsBack(h, p)
<1>1. PICK t : t = h \o <<":", p>>
  OBVIOUS
<1>2. /\ IsSequence(t) /\ Len(h) \in Nat /\ Len(t) = Len(h) + 2
      /\ \A i \in 1 .. Len(h) : t[i] = h[i]
      /\ t[Len(h) + 1] = ":" /\ t[Len(h) + 2] = p
      /\ SubSeq(t, 1, Len(h)) = h /\ SubSeq(t, Len(h) + 2, Len(h) + 2) = <<p>>
  BY <1>1, HostAndPort
<1>3. DOMAIN h = 1 .. Len(h) /\ DOMAIN t = 1 .. Len(t) /\ t \in Seq(ToSet(t))
  BY <1>2, SequenceShape
<1>4. address(h, p) = t
  BY <1>1 DEF address
<1>5. ~IsFirst(t, "[")
  <2>1. t # <<>> => Head(t) = t[1]
    BY <1>3
  <2>2. t[1] # "["
    BY <1>2, <1>3
  <2> QED
    BY <2>1, <2>2 DEF IsFirst
<1>6. { i \in DOMAIN t : t[i] = ":" } = {Len(h) + 1}
  <2>1. \A i \in 1 .. Len(h) + 2 : t[i] = ":" <=> i = Len(h) + 1
    <3>1. p # ":"
      BY NumeralsRead
    <3>2. \A i \in 1 .. Len(h) + 2 : i \in 1 .. Len(h) \/ i = Len(h) + 1 \/ i = Len(h) + 2
      BY <1>2
    <3>3. \A i \in 1 .. Len(h) : t[i] # ":"
      BY <1>2, <1>3
    <3>4. Len(h) + 1 \notin 1 .. Len(h) /\ Len(h) + 2 # Len(h) + 1
      BY <1>2
    <3> QED
      BY <1>2, <3>1, <3>2, <3>3, <3>4
  <2> QED
    BY <1>2, <1>3, <2>1
<1>7. Partition(t, ":") = <<h, <<p>>>>
  <2>1. IndexOf(t, ":") = Len(h) + 1
    <3>1. Len(t) \in Nat /\ Len(h) + 1 \in 1 .. Len(t) /\ (Len(h) + 1) - 1 = Len(h)
      BY <1>2
    <3>2. \A j \in 1 .. (Len(h) + 1) - 1 : t[j] # ":"
      BY <1>2, <1>3, <3>1
    <3> QED
      BY <1>2, <3>1, <3>2, IndexIs
  <2>2. (Len(h) + 1) - 1 = Len(h) /\ (Len(h) + 1) + 1 = Len(h) + 2 /\ Len(h) + 1 # 0
    BY <1>2
  <2> QED
    BY <1>2, <2>1, <2>2 DEF Partition, Before, After
<1>8. _split_host_port(t, "80") = Gives([host |-> h, port |-> p])
  <2>1. \E i \in { j \in DOMAIN t : t[j] = ":" } : { j \in DOMAIN t : t[j] = ":" } = {i}
    BY <1>6
  <2>2. _split_host_port(t, "80") = WithPort(Partition(t, ":")[1], int(Partition(t, ":")[2]))
    BY <1>5, <2>1 DEF _split_host_port
  <2>3. int(<<p>>) = Gives(p)
    BY NumeralsRead
  <2> QED
    BY <1>7, <2>2, <2>3 DEF WithPort, Gives
<1> QED
  BY <1>4, <1>8 DEF ReadsBack, Gives

\* Behind a bracket that is closed before it, a port is read as it is.
LEMMA BracketedReadsBack ==
  ASSUME NEW w, IsSequence(w), NEW p \in Numerals, \A i \in DOMAIN w : w[i] # "]"
  PROVE  _split_host_port(<<"[">> \o w \o <<"]", ":", p>>, "80") = Gives([host |-> w, port |-> p])
<1>1. PICK a : a = <<"[">>
  OBVIOUS
<1>2. PICK b : b = <<"]", ":", p>>
  OBVIOUS
<1>3. IsSequence(a) /\ IsSequence(b)
  BY <1>1, <1>2, ShortSequences
<1>4. Len(a) = 1 /\ a[1] = "["
  BY <1>1
<1>5. Len(b) = 3 /\ b[1] = "]" /\ b[2] = ":" /\ b[3] = p
  BY <1>2
<1>6. PICK u : u = Join(a, w)
  OBVIOUS
<1>7. PICK t : t = Join(u, b)
  OBVIOUS
<1>8. t = <<"[">> \o w \o <<"]", ":", p>>
  BY <1>1, <1>2, <1>6, <1>7 DEF Join
<1>9. /\ IsSequence(u) /\ Len(u) = Len(a) + Len(w)
      /\ \A i \in 1 .. Len(a) : u[i] = a[i]
      /\ \A i \in 1 .. Len(w) : u[Len(a) + i] = w[i]
  BY <1>3, <1>6, JoinIs
<1>10. IsSequence(u)
  BY <1>9
<1>11. /\ IsSequence(t) /\ Len(t) = Len(u) + Len(b)
       /\ \A i \in 1 .. Len(u) : t[i] = u[i]
       /\ \A i \in 1 .. Len(b) : t[Len(u) + i] = b[i]
  BY <1>3, <1>7, <1>10, JoinIs
<1>12. PICK n \in Nat : n = Len(w)
  BY SequenceShape
<1>13. DOMAIN w = 1 .. n
  BY <1>12, SequenceShape
<1>14. Len(u) = n + 1 /\ u[1] = "[" /\ \A i \in 1 .. n : u[1 + i] = w[i]
  BY <1>4, <1>9, <1>12
<1>15. Len(t) = n + 4 /\ t[n + 2] = "]" /\ t[n + 3] = ":" /\ t[n + 4] = p
  <2>1. /\ Len(t) = n + 4
        /\ t[n + 1 + 1] = "]" /\ t[n + 1 + 2] = ":" /\ t[n + 1 + 3] = p
    BY <1>5, <1>11, <1>12, <1>14
  <2>2. n + 1 + 1 = n + 2 /\ n + 1 + 2 = n + 3 /\ n + 1 + 3 = n + 4
    BY <1>12
  <2> QED
    BY <2>1, <2>2
<1>16. t[1] = "[" /\ \A i \in 1 .. n : t[1 + i] = w[i]
  <2>1. 1 \in 1 .. Len(u) /\ \A i \in 1 .. n : 1 + i \in 1 .. Len(u)
    BY <1>12, <1>14
  <2> QED
    BY <1>11, <1>14, <2>1
<1>17. IsSequence(t)
  BY <1>11
<1>18. IsFirst(t, "[")
  <2>1. t \in Seq(ToSet(t)) /\ Len(t) \in Nat /\ Len(t) # 0
    BY <1>12, <1>15, <1>17, SequenceShape
  <2>2. t # <<>> /\ Head(t) = t[1]
    BY <2>1
  <2> QED
    BY <1>16, <2>2 DEF IsFirst
<1>19. IndexOf(t, "]") = n + 2
  <2>1. Len(t) \in Nat /\ n + 2 \in 1 .. Len(t)
    BY <1>12, <1>15
  <2>2. ASSUME NEW j \in 1 .. (n + 2) - 1 PROVE t[j] # "]"
    <3>1. j = 1 \/ (j - 1 \in 1 .. n /\ j = 1 + (j - 1))
      BY <1>12
    <3>2. t[1] # "]"
      BY <1>16
    <3>3. \A i \in 1 .. n : t[1 + i] # "]"
      BY <1>13, <1>16
    <3>4. j - 1 \in 1 .. n => t[1 + (j - 1)] # "]"
      BY <3>3
    <3> QED
      BY <3>1, <3>2, <3>4
  <2>3. \A j \in 1 .. (n + 2) - 1 : t[j] # "]"
    BY <2>2
  <2>4. t[n + 2] = "]"
    BY <1>15
  <2> QED
    BY <2>1, <2>3, <2>4, IndexIs
<1>20. Cut(t, 2, n + 1) = w
  <2>1. /\ 2 \in Int /\ n + 1 \in Int /\ 1 <= 2 /\ 2 <= (n + 1) + 1 /\ n + 1 <= Len(t)
        /\ (n + 1) + 1 - 2 = n /\ \A i \in 1 .. n : 2 + i - 1 = 1 + i
    BY <1>12, <1>15
  <2>2. PICK x : x = Cut(t, 2, n + 1)
    OBVIOUS
  <2>3. /\ IsSequence(x) /\ Len(x) = (n + 1) + 1 - 2
        /\ \A i \in 1 .. (n + 1) + 1 - 2 : x[i] = t[2 + i - 1]
    BY <1>17, <2>1, <2>2, CutIs
  <2>4. Len(x) = Len(w) /\ \A i \in 1 .. Len(x) : x[i] = w[i]
    BY <1>12, <1>16, <2>1, <2>3
  <2>5. IsSequence(x)
    BY <2>3
  <2> QED
    BY <2>2, <2>4, <2>5, SameSequence
<1>21. Cut(t, n + 2 + 1, Len(t)) = <<":", p>>
  <2>1. /\ n + 2 + 1 \in Int /\ n + 4 \in Int /\ 1 <= n + 2 + 1
        /\ n + 2 + 1 <= (n + 4) + 1 /\ n + 4 <= Len(t)
        /\ (n + 4) + 1 - (n + 2 + 1) = 2
        /\ n + 2 + 1 + 1 - 1 = n + 3 /\ n + 2 + 1 + 2 - 1 = n + 4
    BY <1>12, <1>15
  <2>2. PICK x : x = Cut(t, n + 2 + 1, n + 4)
    OBVIOUS
  <2>3. /\ IsSequence(x) /\ Len(x) = (n + 4) + 1 - (n + 2 + 1)
        /\ \A i \in 1 .. (n + 4) + 1 - (n + 2 + 1) : x[i] = t[n + 2 + 1 + i - 1]
    BY <1>17, <2>1, <2>2, CutIs
  <2>4. Len(x) = 2 /\ x[1] = ":" /\ x[2] = p
    BY <1>15, <2>1, <2>3
  <2>5. PICK v : v = <<":", p>>
    OBVIOUS
  <2>6. IsSequence(v)
    BY <2>5, ShortSequences
  <2>7. Len(v) = 2 /\ v[1] = ":" /\ v[2] = p
    BY <2>5
  <2>8. \A i \in 1 .. 2 : i = 1 \/ i = 2
    OBVIOUS
  <2>9. Len(x) = Len(v) /\ \A i \in 1 .. Len(x) : x[i] = v[i]
    BY <2>4, <2>7, <2>8
  <2>10. IsSequence(x)
    BY <2>3
  <2>11. x = v
    BY <2>6, <2>9, <2>10, SameSequence
  <2> QED
    BY <1>15, <2>2, <2>5, <2>11
<1>22. SubSeq(t, 2, IndexOf(t, "]") - 1) = w /\ After(t, IndexOf(t, "]")) = <<":", p>>
  <2>1. (n + 2) - 1 = n + 1
    BY <1>12
  <2>2. Cut(t, 2, IndexOf(t, "]") - 1) = w /\ Cut(t, IndexOf(t, "]") + 1, Len(t)) = <<":", p>>
    BY <1>19, <1>20, <1>21, <2>1
  <2> QED
    BY <2>2 DEF Cut, After
<1>23. IsFirst(<<":", p>>, ":") /\ Tail(<<":", p>>) = <<p>>
  BY DEF IsFirst
<1>24. IndexOf(t, "]") # 0
  BY <1>12, <1>19
<1>25. _split_host_port(t, "80")
         = WithPort(SubSeq(t, 2, IndexOf(t, "]") - 1),
                    IF IsFirst(After(t, IndexOf(t, "]")), ":")
                    THEN int(Tail(After(t, IndexOf(t, "]")))) ELSE Gives("80"))
  BY <1>18, <1>24 DEF _split_host_port
<1>26. _split_host_port(t, "80") = WithPort(w, int(<<p>>))
  BY <1>22, <1>23, <1>25
<1>27. int(<<p>>) = Gives(p)
  BY NumeralsRead
<1>28. _split_host_port(t, "80") = Gives([host |-> w, port |-> p])
  BY <1>26, <1>27 DEF WithPort, Gives
<1> QED
  BY <1>8, <1>28

\* The address of a host, plain, bare IPv6 or bracketed, is read back.
LEMMA AddressReadsBack ==
  ASSUME NEW h, IsHost(h), NEW p \in Numerals
  PROVE  ReadsBack(h, p)
<1>1. ASSUME NEW w, Unbracketed(w) PROVE ~IsFirst(w, "[")
  <2>1. w \in Seq(ToSet(w)) /\ DOMAIN w = 1 .. Len(w) /\ Len(w) \in Nat
    BY <1>1, SequenceShape DEF Unbracketed
  <2>2. w # <<>> => Head(w) = w[1] /\ 1 \in DOMAIN w
    BY <2>1
  <2> QED
    BY <1>1, <2>2 DEF IsFirst, Unbracketed
<1>2. ASSUME NEW w, Unbracketed(w), \E i \in DOMAIN w : w[i] = ":"
      PROVE  /\ address(w, p) = <<"[">> \o w \o <<"]", ":", p>>
             /\ _split_host_port(address(w, p), "80") = Gives([host |-> w, port |-> p])
  <2>1. address(w, p) = <<"[">> \o w \o <<"]", ":", p>>
    BY <1>1, <1>2 DEF address
  <2>2. _split_host_port(<<"[">> \o w \o <<"]", ":", p>>, "80")
          = Gives([host |-> w, port |-> p])
    BY <1>2, BracketedReadsBack DEF Unbracketed
  <2> QED
    BY <2>1, <2>2
<1>3. CASE Unbracketed(h) /\ \A i \in DOMAIN h : h[i] # ":"
  BY <1>3, PlainReadsBack DEF Unbracketed
<1>4. CASE Unbracketed(h) /\ \E i \in DOMAIN h : h[i] = ":"
  BY <1>2, <1>4 DEF ReadsBack, Gives
<1>5. ASSUME NEW w, Unbracketed(w), \E i \in DOMAIN w : w[i] = ":",
             h = <<"[">> \o w \o <<"]">>
      PROVE  ReadsBack(h, p)
  <2>1. PICK S : w \in Seq(S) /\ "[" \in S /\ "]" \in S /\ ":" \in S /\ p \in S
    <3>1. w \in Seq(ToSet(w) \cup {"[", "]", ":", p})
      BY <1>5, SequenceShape DEF Unbracketed
    <3> QED
      BY <3>1
  <2>2. IsFirst(h, "[")
    <3>1. h # <<>> /\ Head(h) = "["
      BY <1>5, <2>1
    <3> QED
      BY <3>1 DEF IsFirst
  <2>3. address(h, p) = h \o <<":", p>>
    BY <2>2 DEF address
  <2>4. h \o <<":", p>> = <<"[">> \o w \o <<"]", ":", p>>
    <3>1. \A a, b, c, d \in Seq(S) : a \o b \o c \o d = a \o b \o (c \o d)
      OBVIOUS
    <3>2. <<"[">> \in Seq(S) /\ <<"]">> \in Seq(S) /\ <<":", p>> \in Seq(S)
      BY <2>1
    <3>3. <<"]">> \o <<":", p>> = <<"]", ":", p>>
      <4>1. PICK a, b, c : a = <<"]">> /\ b = <<":", p>> /\ c = <<"]", ":", p>>
        OBVIOUS
      <4>2. IsSequence(a) /\ IsSequence(b) /\ IsSequence(c)
        BY <4>1, ShortSequences
      <4>3. /\ Len(a) = 1 /\ a[1] = "]" /\ Len(b) = 2 /\ b[1] = ":" /\ b[2] = p
            /\ Len(c) = 3 /\ c[1] = "]" /\ c[2] = ":" /\ c[3] = p
        BY <4>1
      <4>4. PICK d : d = Join(a, b)
        OBVIOUS
      <4>5. /\ IsSequence(d) /\ Len(d) = Len(a) + Len(b)
            /\ \A i \in 1 .. Len(a) : d[i] = a[i]
            /\ \A i \in 1 .. Len(b) : d[Len(a) + i] = b[i]
        BY <4>2, <4>4, JoinIs
      <4>6. Len(d) = 3 /\ d[1] = "]" /\ d[1 + 1] = ":" /\ d[1 + 2] = p
        BY <4>3, <4>5
      <4>7. \A i \in 1 .. 3 : i = 1 \/ i = 1 + 1 \/ i = 1 + 2
        OBVIOUS
      <4>8. IsSequence(d) /\ Len(d) = Len(c) /\ \A i \in 1 .. Len(d) : d[i] = c[i]
        BY <4>3, <4>5, <4>6, <4>7
      <4>9. d = c
        BY <4>2, <4>8, SameSequence
      <4> QED
        BY <4>1, <4>4, <4>9 DEF Join
    <3> QED
      BY <1>5, <2>1, <3>1, <3>2, <3>3
  <2>5. address(h, p) = address(w, p)
    BY <1>2, <1>5, <2>3, <2>4
  <2> QED
    BY <1>2, <1>5, <2>5 DEF ReadsBack, Gives
<1> QED
  BY <1>3, <1>4, <1>5 DEF IsHost

\* A host that is read from a text is a text, and its port is a number.
LEMMA HostsAreTexts ==
  ASSUME NEW text, IsSequence(text), NEW port \in Numerals, _split_host_port(text, port).ok
  PROVE  /\ IsSequence(_split_host_port(text, port).value.host)
         /\ _split_host_port(text, port).value.port \in Numerals
<1>1. PICK r : r = _split_host_port(text, port)
  OBVIOUS
<1>2. \A host : \A p : WithPort(host, p).ok =>
        p.ok /\ WithPort(host, p).value.port = p.value /\ WithPort(host, p).value.host = host
  BY DEF WithPort, Gives
<1>3. \A t : int(t).ok => int(t).value \in Numerals
  BY PortsAreNumerals
<1>4. Gives(port).value \in Numerals
  BY DEF Gives
<1>5. PICK close : close = IndexOf(text, "]")
  OBVIOUS
<1>6. CASE IsFirst(text, "[") /\ close # 0
  <2>1. PICK p : p = IF IsFirst(After(text, close), ":") THEN int(Tail(After(text, close)))
                     ELSE Gives(port)
    OBVIOUS
  <2>2. PICK h : h = SubSeq(text, 2, close - 1)
    OBVIOUS
  <2>3. p.ok /\ r.value.port = p.value /\ r.value.host = h
    <3>1. r = WithPort(h, p)
      BY <1>1, <1>5, <1>6, <2>1, <2>2 DEF _split_host_port
    <3>2. WithPort(h, p).ok
      BY <1>1, <3>1
    <3> QED
      BY <1>2, <3>1, <3>2
  <2>4. IsSequence(SubSeq(text, 2, close - 1))
    <3>1. close \in 0 .. Len(text) /\ text[close] = "]"
      BY <1>5, <1>6, IndexFound
    <3>2. text[1] = "["
      <4>1. text \in Seq(ToSet(text))
        BY SequenceShape
      <4> QED
        BY <1>6, <4>1 DEF IsFirst
    <3>3. Len(text) \in Nat
      BY SequenceShape
    <3>4. /\ 2 \in Int /\ close - 1 \in Int /\ 1 <= 2 /\ 2 <= (close - 1) + 1
          /\ close - 1 <= Len(text)
      <4>1. close # 1
        BY <3>1, <3>2
      <4> QED
        BY <1>6, <3>1, <3>3, <4>1
    <3>5. IsSequence(Cut(text, 2, close - 1))
      BY <3>4, CutIs
    <3> QED
      BY <3>5 DEF Cut
  <2>5. p.value \in Numerals
    BY <1>3, <1>4, <2>1, <2>3
  <2> QED
    BY <1>1, <2>2, <2>3, <2>4, <2>5
<1>7. CASE IsFirst(text, "[") /\ close = 0
  BY <1>1, <1>5, <1>7 DEF _split_host_port, Raises
<1>8. CASE ~IsFirst(text, "[")
  <2>1. PICK p : p = int(Partition(text, ":")[2])
    OBVIOUS
  <2>2. \/ r = WithPort(Partition(text, ":")[1], p)
        \/ r = Gives([host |-> text, port |-> port])
    BY <1>1, <1>8, <2>1 DEF _split_host_port
  <2>3. CASE r = WithPort(Partition(text, ":")[1], p)
    <3>1. p.ok /\ r.value.port = p.value /\ r.value.host = Partition(text, ":")[1]
      BY <1>1, <1>2, <2>3
    <3> QED
      BY <1>1, <1>3, <2>1, <3>1, PartitionIs
  <2>4. CASE r = Gives([host |-> text, port |-> port])
    BY <1>1, <2>4 DEF Gives
  <2> QED
    BY <2>2, <2>3, <2>4
<1> QED
  BY <1>6, <1>7, <1>8

\* What the reading of a target gives.
TargetIsRead(t) == IsSequence(t.host) /\ t.port \in Numerals

LEMMA TargetParsed ==
  ASSUME NEW text, IsSequence(text), parse_target(text).ok
  PROVE  TargetIsRead(parse_target(text).value)
<1>1. PICK h : h = Partition(text, "@")[1]
  OBVIOUS
<1>2. PICK r : r = _split_host_port(h, "443")
  OBVIOUS
<1>3. parse_target(text) = IF r.ok THEN Gives([host |-> r.value.host, port |-> r.value.port,
                                               sni |-> Partition(text, "@")[2]]) ELSE r
  BY <1>1, <1>2 DEF parse_target
<1>4. r.ok
  BY <1>3
<1>5. IsSequence(h)
  BY <1>1, PartitionIs
<1>6. "443" \in Numerals
  BY DEF Numerals
<1>7. IsSequence(r.value.host) /\ r.value.port \in Numerals
  BY <1>2, <1>4, <1>5, <1>6, HostsAreTexts
<1> QED
  BY <1>3, <1>4, <1>7 DEF Gives, TargetIsRead

LEMMA LinesParsed ==
  ASSUME NEW file, IsSequence(file.lines), \A l \in ToSet(file.lines) : IsSequence(l),
         NEW i \in DOMAIN load_targets(file), load_targets(file)[i].ok
  PROVE  TargetIsRead(load_targets(file)[i].value)
<1>1. PICK T : /\ T = { parse_target(Uncommented(file.lines[n])) : n \in 1 .. Len(file.lines) }
               /\ load_targets(file) \in Seq(T)
  BY LoadedFromLines
<1>2. load_targets(file)[i] \in T
  BY <1>1
<1>3. PICK n \in 1 .. Len(file.lines) :
        load_targets(file)[i] = parse_target(Uncommented(file.lines[n]))
  BY <1>1, <1>2
<1>4. IsSequence(file.lines[n])
  <2>1. n \in DOMAIN file.lines
    BY SequenceShape
  <2> QED
    BY <2>1 DEF ToSet
<1>5. IsSequence(Uncommented(file.lines[n]))
  BY <1>4, PartitionIs DEF Uncommented
<1> QED
  BY <1>3, <1>5, TargetParsed

-----------------------------------------------------------------------------
(* Endpoints and services                                                  *)

\* What the reading of an endpoint keeps: a port that is a number, and a
\* count below 1 only if it is the default's.
EndpointIsRead(e, default_repeat) ==
  /\ e.port \in Numerals
  /\ "repeat" \in DOMAIN e /\ e.repeat \in Int /\ (e.repeat >= 1 \/ e.repeat = default_repeat)

\* An endpoint is read from a text or from an object.
LEMMA EndpointParsed ==
  ASSUME NEW raw, NEW port \in Numerals, NEW sni, NEW repeat \in Int, NEW role,
         raw.kind = "object" => CountsAreRead(raw.fields),
         _parse_endpoint(raw, port, sni, repeat, role).ok
  PROVE  EndpointIsRead(_parse_endpoint(raw, port, sni, repeat, role).value, repeat)
<1>1. CASE raw.kind = "text"
  <2>1. PICK r : r = _split_host_port(raw.text, port)
    OBVIOUS
  <2>2. _parse_endpoint(raw, port, sni, repeat, role)
          = IF r.ok THEN Gives(Endpoint(r.value.host, r.value.port, sni, repeat, role)) ELSE r
    BY <1>1, <2>1 DEF _parse_endpoint
  <2>3. r.ok
    BY <2>2
  <2>4. r.value.port \in Numerals
    <3>1. \A host : \A p : WithPort(host, p).ok => p.ok /\ WithPort(host, p).value.port = p.value
      BY DEF WithPort, Gives
    <3>2. \A text : int(text).ok => int(text).value \in Numerals
      BY PortsAreNumerals
    <3>3. Gives(port).value \in Numerals
      BY DEF Gives
    <3>4. CASE IsFirst(raw.text, "[") /\ IndexOf(raw.text, "]") # 0
      <4>1. PICK p : p = IF IsFirst(After(raw.text, IndexOf(raw.text, "]")), ":")
                         THEN int(Tail(After(raw.text, IndexOf(raw.text, "]")))) ELSE Gives(port)
        OBVIOUS
      <4>2. r = WithPort(SubSeq(raw.text, 2, IndexOf(raw.text, "]") - 1), p)
        BY <2>1, <3>4, <4>1 DEF _split_host_port
      <4>3. p.ok /\ r.value.port = p.value
        BY <2>3, <3>1, <4>2
      <4> QED
        BY <3>2, <3>3, <4>1, <4>3
    <3>5. CASE IsFirst(raw.text, "[") /\ IndexOf(raw.text, "]") = 0
      BY <2>1, <2>3, <3>5 DEF _split_host_port, Raises
    <3>6. CASE ~IsFirst(raw.text, "[")
      <4>1. PICK p : p = int(Partition(raw.text, ":")[2])
        OBVIOUS
      <4>2. \/ r = WithPort(Partition(raw.text, ":")[1], p)
            \/ r = Gives([host |-> raw.text, port |-> port])
        BY <2>1, <3>6, <4>1 DEF _split_host_port
      <4>3. CASE r = WithPort(Partition(raw.text, ":")[1], p)
        <5>1. p.ok /\ r.value.port = p.value
          BY <2>3, <3>1, <4>3
        <5> QED
          BY <3>2, <4>1, <5>1
      <4>4. CASE r = Gives([host |-> raw.text, port |-> port])
        BY <4>4 DEF Gives
      <4> QED
        BY <4>2, <4>3, <4>4
    <3> QED
      BY <3>4, <3>5, <3>6
  <2> QED
    BY <2>2, <2>3, <2>4 DEF Gives, Endpoint, EndpointIsRead
<1>2. CASE raw.kind = "object"
  <2>1. PICK o : o = raw.fields
    OBVIOUS
  <2>2. PICK host : host = FirstGiven(<<get(o, "ip", <<>>), get(o, "host", <<>>), get(o, "address", <<>>)>>)
    OBVIOUS
  <2>3. PICK p : p = int(get(o, "port", <<port>>))
    OBVIOUS
  <2>4. PICK n : n = get(o, "repeat", repeat)
    OBVIOUS
  <2>5. PICK all : all = <<Valid(host # <<>>, "InventoryError"), p, Valid(n >= 1, "InventoryError")>>
    OBVIOUS
  <2>6. PICK e : e = Endpoint(host, ValueOf(p, port), get(o, "sni", sni), n, role)
    OBVIOUS
  <2>7. _parse_endpoint(raw, port, sni, repeat, role) = Unless(all, e)
    BY <1>2, <2>1, <2>2, <2>3, <2>4, <2>5, <2>6 DEF _parse_endpoint
  <2>8. Len(all) = 3 /\ all[2] = p /\ all[3] = Valid(n >= 1, "InventoryError")
    BY <2>5
  <2>9. Unless(all, e) = Gives(e) /\ \A i \in 1 .. 3 : all[i].ok
    <3>1. Unless(all, e).ok
      BY <2>7
    <3>2. Len(all) \in Nat
      BY <2>8
    <3>3. Unless(all, e) = Gives(e) /\ \A i \in 1 .. Len(all) : all[i].ok
      BY <3>1, <3>2, UnlessAll
    <3> QED
      BY <2>8, <3>3
  <2>10. p.ok /\ Valid(n >= 1, "InventoryError").ok
    BY <2>8, <2>9
  <2>11. p.value \in Numerals
    BY <2>3, <2>10, PortsAreNumerals
  <2>12. n >= 1
    BY <2>10 DEF Valid, Raises
  <2>13. n \in Int
    BY <1>2, <2>1, <2>4 DEF CountsAreRead, get
  <2>14. e.port = p.value /\ e.repeat = n /\ "repeat" \in DOMAIN e
    BY <2>6, <2>10 DEF Endpoint, ValueOf
  <2> QED
    BY <2>7, <2>9, <2>11, <2>12, <2>13, <2>14 DEF Gives, EndpointIsRead
<1>3. CASE raw.kind \notin {"text", "object"}
  BY <1>3 DEF _parse_endpoint, Raises
<1> QED
  BY <1>1, <1>2, <1>3

\* A count of a JSON object is a number, given or not.
LEMMA CountRead ==
  ASSUME NEW o, CountsAreRead(o), NEW key \in {"repeat", "frontend_repeat"}, NEW d \in Int
  PROVE  get(o, key, d) \in Int
BY DEF CountsAreRead, get

\* What a reading gives.
LEMMA GivesValue == \A v : Gives(v).ok /\ Gives(v).value = v
BY DEF Gives

LEMMA Coerced ==
  ASSUME NEW word, NEW aliases, NEW values, Coerce(word, aliases, values).ok
  PROVE  Coerce(word, aliases, values) = Gives(Coerce(word, aliases, values).value)
BY DEF Coerce, Gives, Raises

\* A service as it is read: every address from a block of its entry, with the
\* default counts of the file, and the context from the words it declares.
ServiceIsRead(s, o, defaults) ==
  LET repeat == get(defaults, "repeat", 1)
      frontend_repeat == get(defaults, "frontend_repeat", repeat)
  IN  /\ DOMAIN s = {"name", "sni", "frontend", "backends", "data_classification",
                     "sensitivity_horizon"}
      /\ \E name : name # <<>> /\ s.sni = get(o, "sni", name)
      /\ IsSequence(s.frontend) /\ IsSequence(s.backends)
      /\ \A i \in DOMAIN s.frontend :
           /\ "endpoint" \in DOMAIN s.frontend[i]
           /\ EndpointIsRead(s.frontend[i].endpoint, frontend_repeat)
      /\ \A i \in DOMAIN s.backends : EndpointIsRead(s.backends[i], repeat)
      /\ _coerce_classification(Declared(o, defaults, "data_classification"))
           = Gives(s.data_classification)
      /\ _coerce_horizon(Declared(o, defaults, "sensitivity_horizon"))
           = Gives(s.sensitivity_horizon)

\* An entry that is read without an exception gives a service.
LEMMA ServiceParsed ==
  ASSUME NEW raw, NEW defaults, EntryIsJson(raw), CountsAreRead(defaults),
         parse_service(raw, defaults).ok
  PROVE  /\ raw.kind = "object"
         /\ ServiceIsRead(parse_service(raw, defaults).value, raw.fields, defaults)
<1>1. raw.kind = "object"
  BY DEF parse_service, Raises
<1>2. PICK o : o = raw.fields
  OBVIOUS
<1> DEFINE port == int(get(defaults, "port", <<"443">>))
           default_port == ValueOf(port, "443")
           repeat == get(defaults, "repeat", 1)
           frontend_repeat == get(defaults, "frontend_repeat", repeat)
           name == FirstGiven(<<get(o, "service", <<>>), get(o, "name", <<>>)>>)
           sni == get(o, "sni", name)
           f == get(o, "frontend", get(o, "vip", NotGiven))
           block == IF f.kind = "object" THEN f.fields ELSE [k \in {} |-> {}]
           type == _coerce_frontend_type(get(block, "type", Absent))
           endpoint == _parse_endpoint(f, default_port, sni, frontend_repeat, "frontend")
           mode == _coerce_tls_mode(get(block, "tls_mode", Absent))
           list == get(o, "backends", <<>>)
           backends == [ i \in DOMAIN list |->
                           _parse_endpoint(o.backends[i], default_port, sni, repeat, "backend") ]
           classification == _coerce_classification(Declared(o, defaults, "data_classification"))
           horizon == _coerce_horizon(Declared(o, defaults, "sensitivity_horizon"))
           A == <<port, Valid(name # <<>>, "InventoryError")>>
           F == IF f.kind = "null" THEN <<>> ELSE <<type, endpoint, mode>>
           C == <<Valid(f.kind # "null" \/ backends # <<>>, "InventoryError"),
                  classification, horizon>>
           service ==
             [ name |-> name, sni |-> sni,
               frontend |-> IF f.kind = "null" THEN <<>>
                            ELSE <<[ endpoint |-> endpoint.value, type |-> type.value,
                                     tls_mode |-> mode.value ]>>,
               backends |-> [i \in DOMAIN backends |-> backends[i].value],
               data_classification |-> classification.value,
               sensitivity_horizon |-> horizon.value ]
<1>3. parse_service(raw, defaults) = Unless(A \o F \o backends \o C, service)
  BY <1>1, <1>2 DEF parse_service
<1>4. /\ IsSequence(list)
      /\ \A b \in ToSet(list) \cup {f} : b.kind = "object" => CountsAreRead(b.fields)
  BY <1>1, <1>2 DEF EntryIsJson
<1>5. repeat \in Int /\ frontend_repeat \in Int
  <2>1. repeat \in Int
    BY CountRead
  <2> HIDE DEF repeat
  <2> QED
    BY <2>1, CountRead
<1>6. /\ service.sni = sni
      /\ DOMAIN service = {"name", "sni", "frontend", "backends", "data_classification",
                           "sensitivity_horizon"}
      /\ service.frontend = IF f.kind = "null" THEN <<>>
                            ELSE <<[ endpoint |-> endpoint.value, type |-> type.value,
                                     tls_mode |-> mode.value ]>>
      /\ service.backends = [i \in DOMAIN backends |-> backends[i].value]
      /\ service.data_classification = classification.value
      /\ service.sensitivity_horizon = horizon.value
  OBVIOUS
<1>7. /\ DOMAIN backends = DOMAIN list
      /\ \A i \in DOMAIN list :
           backends[i] = _parse_endpoint(list[i], default_port, sni, repeat, "backend")
  <2>1. \A i \in DOMAIN list : o.backends[i] = list[i]
    BY DEF get
  <2> QED
    BY <2>1
<1>8. backends = [i \in DOMAIN list |-> backends[i]]
  OBVIOUS
<1>9. /\ A[1] = port /\ A[2] = Valid(name # <<>>, "InventoryError") /\ Len(A) = 2 /\ IsSequence(A)
  BY ShortSequences
<1>10. /\ IsSequence(F)
       /\ f.kind # "null" => Len(F) = 3 /\ F[2] = endpoint
  <2>1. IsSequence(<<>>)
    BY DEF IsSequence
  <2> HIDE DEF type, endpoint, mode, f
  <2> QED
    BY <2>1, ShortSequences
<1>11. IsSequence(C) /\ Len(C) = 3 /\ C[2] = classification /\ C[3] = horizon
  <2> HIDE DEF classification, horizon, backends, f
  <2> QED
    BY ShortSequences
<1>12. /\ classification.ok => classification = Gives(classification.value)
       /\ horizon.ok => horizon = Gives(horizon.value)
  BY Coerced DEF _coerce_classification, _coerce_horizon
<1>13. IsSequence(backends) /\ Len(backends) = Len(list)
  <2>1. Len(list) \in Nat /\ DOMAIN list = 1 .. Len(list)
    BY <1>4, SequenceShape
  <2> HIDE DEF backends, list
  <2>2. backends = [i \in 1 .. Len(list) |-> backends[i]]
    BY <1>8, <2>1
  <2> QED
    BY <2>1, <2>2, SequenceMade
<1>14. port.ok => default_port \in Numerals
  BY PortsAreNumerals DEF ValueOf
<1>15. ASSUME NEW b, b.kind = "object" => CountsAreRead(b.fields), default_port \in Numerals,
              NEW n \in Int, NEW role, _parse_endpoint(b, default_port, sni, n, role).ok
       PROVE  EndpointIsRead(_parse_endpoint(b, default_port, sni, n, role).value, n)
  <2> HIDE DEF default_port, sni
  <2> QED
    BY <1>15, EndpointParsed
<1>16. endpoint = _parse_endpoint(f, default_port, sni, frontend_repeat, "frontend")
  OBVIOUS
<1>17. classification = _coerce_classification(Declared(o, defaults, "data_classification"))
       /\ horizon = _coerce_horizon(Declared(o, defaults, "sensitivity_horizon"))
       /\ sni = get(o, "sni", name)
       /\ repeat = get(defaults, "repeat", 1)
       /\ frontend_repeat = get(defaults, "frontend_repeat", repeat)
  OBVIOUS
<1> HIDE DEF port, default_port, repeat, frontend_repeat, name, sni, f, block, type, endpoint,
             mode, list, backends, classification, horizon, A, F, C, service
<1>18. PICK all : all = Join(Join(Join(A, F), backends), C)
  OBVIOUS
<1>19. parse_service(raw, defaults) = Unless(all, service)
  BY <1>3, <1>18 DEF Join
<1>20. IsSequence(Join(A, F))
  BY <1>9, <1>10, JoinIs
<1>21. IsSequence(Join(Join(A, F), backends))
  BY <1>13, <1>20, JoinIs
<1>22. IsSequence(all)
  BY <1>11, <1>18, <1>21, JoinIs
<1>23. Len(all) \in Nat
  BY <1>22, SequenceShape
<1>24. Unless(all, service) = Gives(service) /\ \A i \in 1 .. Len(all) : all[i].ok
  BY <1>19, <1>23, UnlessAll
<1>25. /\ \A i \in 1 .. Len(Join(Join(A, F), backends)) : Join(Join(A, F), backends)[i].ok
       /\ \A i \in 1 .. Len(C) : C[i].ok
  <2>1. PICK u : u = Join(Join(A, F), backends)
    OBVIOUS
  <2>2. IsSequence(u) /\ all = u \o C
    BY <1>18, <1>21, <2>1 DEF Join
  <2> QED
    BY <1>11, <1>24, <2>1, <2>2, AllReadJoined
<1>26. /\ \A i \in 1 .. Len(Join(A, F)) : Join(A, F)[i].ok
       /\ \A i \in 1 .. Len(backends) : backends[i].ok
  <2>1. PICK u : u = Join(A, F)
    OBVIOUS
  <2>2. IsSequence(u) /\ Join(u, backends) = u \o backends
    BY <1>20, <2>1 DEF Join
  <2>3. \A i \in 1 .. Len(u \o backends) : (u \o backends)[i].ok
    BY <1>25, <2>1, <2>2
  <2> QED
    BY <1>13, <2>1, <2>2, <2>3, AllReadJoined
<1>27. (\A i \in 1 .. Len(A) : A[i].ok) /\ (\A i \in 1 .. Len(F) : F[i].ok)
  <2>1. \A i \in 1 .. Len(A \o F) : (A \o F)[i].ok
    BY <1>26 DEF Join
  <2> QED
    BY <1>9, <1>10, <2>1, AllReadJoined
<1>28. port.ok /\ name # <<>>
  <2>1. A[1].ok /\ A[2].ok
    BY <1>9, <1>27
  <2>2. port.ok /\ Valid(name # <<>>, "InventoryError").ok
    BY <1>9, <2>1
  <2>3. name = <<>> => ~Valid(name # <<>>, "InventoryError").ok
    BY DEF Valid, Raises
  <2> QED
    BY <2>2, <2>3
<1>29. classification.ok /\ horizon.ok
  <2>1. C[2].ok /\ C[3].ok
    BY <1>11, <1>25
  <2> QED
    BY <1>11, <2>1
<1>30. parse_service(raw, defaults).value = service
  BY <1>19, <1>24, GivesValue
<1>31. IsSequence(service.frontend) /\ \A i \in DOMAIN service.frontend :
         /\ "endpoint" \in DOMAIN service.frontend[i]
         /\ EndpointIsRead(service.frontend[i].endpoint, frontend_repeat)
  <2>1. CASE f.kind = "null"
    BY <1>6, <2>1 DEF IsSequence
  <2>2. CASE f.kind # "null"
    <3>1. PICK g : g = [endpoint |-> endpoint.value, type |-> type.value, tls_mode |-> mode.value]
      OBVIOUS
    <3>2. service.frontend = <<g>> /\ g.endpoint = endpoint.value /\ "endpoint" \in DOMAIN g
      BY <1>6, <2>2, <3>1
    <3>3. endpoint.ok
      <4>1. F[2].ok
        BY <1>10, <1>27, <2>2
      <4> QED
        BY <1>10, <2>2, <4>1
    <3>4. EndpointIsRead(endpoint.value, frontend_repeat)
      BY <1>4, <1>5, <1>14, <1>15, <1>16, <1>28, <3>3
    <3>5. IsSequence(<<g>>)
      BY ShortSequences
    <3>6. DOMAIN <<g>> = {1} /\ <<g>>[1] = g
      OBVIOUS
    <3> QED
      BY <3>2, <3>4, <3>5, <3>6
  <2> QED
    BY <2>1, <2>2
<1>32. IsSequence(service.backends) /\ \A i \in DOMAIN service.backends :
         EndpointIsRead(service.backends[i], repeat)
  <2>1. Len(backends) \in Nat /\ DOMAIN backends = 1 .. Len(backends)
    BY <1>13, SequenceShape
  <2>2. PICK u : u = service.backends
    OBVIOUS
  <2>3. u = [i \in 1 .. Len(backends) |-> backends[i].value]
    BY <1>6, <2>1, <2>2
  <2>4. u = [i \in 1 .. Len(backends) |-> u[i]]
    BY <2>3
  <2>5. IsSequence(u) /\ DOMAIN u = 1 .. Len(backends)
    BY <2>1, <2>4, SequenceMade
  <2>6. ASSUME NEW i \in 1 .. Len(backends) PROVE EndpointIsRead(u[i], repeat)
    <3>1. u[i] = backends[i].value /\ backends[i].ok
      BY <1>26, <2>3
    <3>2. i \in DOMAIN list /\ list[i] \in ToSet(list)
      BY <1>7, <2>1 DEF ToSet
    <3>3. backends[i] = _parse_endpoint(list[i], default_port, sni, repeat, "backend")
      BY <1>7, <3>2
    <3> QED
      BY <1>4, <1>5, <1>14, <1>15, <1>28, <3>1, <3>2, <3>3
  <2> QED
    BY <2>2, <2>5, <2>6
<1>33. /\ _coerce_classification(Declared(o, defaults, "data_classification"))
            = Gives(service.data_classification)
       /\ _coerce_horizon(Declared(o, defaults, "sensitivity_horizon"))
            = Gives(service.sensitivity_horizon)
  BY <1>6, <1>12, <1>17, <1>29
<1>34. name # <<>> /\ service.sni = get(o, "sni", name)
  BY <1>6, <1>17, <1>28
<1> QED
  BY <1>1, <1>2, <1>6, <1>17, <1>30, <1>31, <1>32, <1>33, <1>34 DEF ServiceIsRead

LEMMA DefaultsAreJson ==
  ASSUME NEW raw, InventoryIsJson(raw)
  PROVE  CountsAreRead(IF raw.shape = "services" THEN raw.defaults ELSE [k \in {} |-> {}])
BY DEF InventoryIsJson, CountsAreRead

\* Each service of an inventory is read from the entry at its place.
LEMMA EntriesRead ==
  ASSUME NEW raw, InventoryIsJson(raw), load_inventory(raw).ok,
         NEW i \in DOMAIN load_inventory(raw).value,
         NEW defaults, defaults = IF raw.shape = "services" THEN raw.defaults
                                  ELSE [k \in {} |-> {}]
  PROVE  ServiceIsRead(load_inventory(raw).value[i], raw.entries[i].fields, defaults)
<1> DEFINE n == Len(raw.entries)
<1>1. IsSequence(raw.entries) /\ n \in Nat /\ DOMAIN raw.entries = 1 .. n
  BY SequenceShape DEF InventoryIsJson
<1>2. PICK all : all = [ k \in 1 .. n |-> parse_service(raw.entries[k], defaults) ]
  OBVIOUS
<1>3. PICK v : v = [k \in DOMAIN all |-> all[k].value]
  OBVIOUS
<1>4. load_inventory(raw) = Unless(all, v)
  BY <1>1, <1>2, <1>3 DEF load_inventory
<1> HIDE DEF n
<1>5. IsSequence(all) /\ Len(all) = n
  <2>1. all = [k \in 1 .. n |-> all[k]]
    BY <1>2
  <2> QED
    BY <1>1, <2>1, SequenceMade
<1>6. Unless(all, v) = Gives(v) /\ \A k \in 1 .. Len(all) : all[k].ok
  BY <1>1, <1>4, <1>5, UnlessAll
<1>7. load_inventory(raw).value = v
  BY <1>4, <1>6, GivesValue
<1>8. i \in 1 .. n /\ v[i] = all[i].value /\ all[i].ok
  <2>1. DOMAIN all = 1 .. n /\ DOMAIN v = DOMAIN all /\ i \in DOMAIN v
    BY <1>2, <1>3, <1>7
  <2>2. v[i] = all[i].value
    BY <1>3, <2>1
  <2> QED
    BY <1>5, <1>6, <2>1, <2>2
<1>9. all[i] = parse_service(raw.entries[i], defaults)
  BY <1>2, <1>8
<1>10. EntryIsJson(raw.entries[i])
  BY <1>1, <1>8 DEF InventoryIsJson
<1>11. CountsAreRead(defaults)
  BY DefaultsAreJson
<1> QED
  BY <1>7, <1>8, <1>9, <1>10, <1>11, ServiceParsed

\* The counts that the defaults of a file give its addresses.
DefaultRepeats(defaults) ==
  { get(defaults, "repeat", 1),
    get(defaults, "frontend_repeat", get(defaults, "repeat", 1)) }

\* Every address of a service, with --repeat applied, comes from one that
\* was read.
LEMMA AddressesRead ==
  ASSUME NEW s, NEW o, NEW defaults, ServiceIsRead(s, o, defaults), NEW r,
         NEW k \in DOMAIN all_endpoints(Overridden(s, r))
  PROVE  \E e : \E d \in DefaultRepeats(defaults) :
           EndpointIsRead(e, d) /\ all_endpoints(Overridden(s, r))[k] = WithRepeat(e, r)
<1>1. PICK t : t = Overridden(s, r)
  OBVIOUS
<1>2. PICK d : d = get(defaults, "frontend_repeat", get(defaults, "repeat", 1))
  OBVIOUS
<1>3. PICK c : c = get(defaults, "repeat", 1)
  OBVIOUS
<1>4. /\ DOMAIN s = {"name", "sni", "frontend", "backends", "data_classification",
                     "sensitivity_horizon"}
      /\ IsSequence(s.frontend) /\ IsSequence(s.backends)
      /\ \A i \in DOMAIN s.frontend :
           /\ "endpoint" \in DOMAIN s.frontend[i]
           /\ EndpointIsRead(s.frontend[i].endpoint, d)
      /\ \A i \in DOMAIN s.backends : EndpointIsRead(s.backends[i], c)
  BY <1>2, <1>3 DEF ServiceIsRead
<1>5. /\ t.frontend = [ i \in DOMAIN s.frontend |->
                          [s.frontend[i] EXCEPT !.endpoint = WithRepeat(@, r)] ]
      /\ t.backends = [ i \in DOMAIN s.backends |-> WithRepeat(s.backends[i], r) ]
  <2>1. PICK f : f = [ i \in DOMAIN s.frontend |->
                         [s.frontend[i] EXCEPT !.endpoint = WithRepeat(@, r)] ]
    OBVIOUS
  <2>2. PICK b : b = [ i \in DOMAIN s.backends |-> WithRepeat(s.backends[i], r) ]
    OBVIOUS
  <2>3. t = [s EXCEPT !.frontend = f, !.backends = b]
    BY <1>1, <2>1, <2>2 DEF Overridden
  <2>4. t.frontend = f /\ t.backends = b
    BY <1>4, <2>3
  <2> QED
    BY <2>1, <2>2, <2>4
<1>6. PICK fs : fs = [i \in DOMAIN t.frontend |-> t.frontend[i].endpoint]
  OBVIOUS
<1>7. /\ DOMAIN fs = DOMAIN s.frontend
      /\ \A i \in DOMAIN s.frontend : fs[i] = WithRepeat(s.frontend[i].endpoint, r)
  <2>1. DOMAIN t.frontend = DOMAIN s.frontend
    BY <1>5
  <2>2. ASSUME NEW i \in DOMAIN s.frontend PROVE fs[i] = WithRepeat(s.frontend[i].endpoint, r)
    <3>1. t.frontend[i] = [s.frontend[i] EXCEPT !.endpoint = WithRepeat(@, r)]
      BY <1>5
    <3>2. t.frontend[i].endpoint = WithRepeat(s.frontend[i].endpoint, r)
      BY <1>4, <3>1
    <3> QED
      BY <1>6, <2>1, <3>2
  <2> QED
    BY <1>6, <2>1, <2>2
<1>8. PICK bs : bs = t.backends
  OBVIOUS
<1>9. /\ DOMAIN bs = DOMAIN s.backends
      /\ \A i \in DOMAIN s.backends : bs[i] = WithRepeat(s.backends[i], r)
  BY <1>5, <1>8
<1>10. /\ Len(s.frontend) \in Nat /\ DOMAIN s.frontend = 1 .. Len(s.frontend)
       /\ Len(s.backends) \in Nat /\ DOMAIN s.backends = 1 .. Len(s.backends)
  BY <1>4, SequenceShape
<1>11. IsSequence(fs) /\ Len(fs) = Len(s.frontend)
  <2>1. fs = [i \in 1 .. Len(s.frontend) |-> fs[i]]
    BY <1>6, <1>7, <1>10
  <2> QED
    BY <1>10, <2>1, SequenceMade
<1>12. IsSequence(bs) /\ Len(bs) = Len(s.backends)
  <2>1. bs = [i \in 1 .. Len(s.backends) |-> bs[i]]
    BY <1>5, <1>8, <1>9, <1>10
  <2> QED
    BY <1>10, <2>1, SequenceMade
<1>13. PICK all : all = Join(fs, bs)
  OBVIOUS
<1>14. all = all_endpoints(t)
  BY <1>6, <1>8, <1>13 DEF all_endpoints, Join
<1>15. /\ IsSequence(all) /\ Len(all) = Len(fs) + Len(bs)
       /\ \A i \in 1 .. Len(fs) : all[i] = fs[i]
       /\ \A i \in 1 .. Len(bs) : all[Len(fs) + i] = bs[i]
  <2>1. IsSequence(fs)
    BY <1>11
  <2>2. IsSequence(bs)
    BY <1>12
  <2> QED
    BY <1>13, <2>1, <2>2, JoinIs
<1>16. DOMAIN all = 1 .. Len(all)
  BY <1>15, SequenceShape
<1>17. k \in 1 .. Len(fs) \/ (k - Len(fs) \in 1 .. Len(bs) /\ k = Len(fs) + (k - Len(fs)))
  <2>1. PICK n \in Nat : n = Len(fs)
    BY <1>10, <1>11
  <2>2. PICK m \in Nat : m = Len(bs)
    BY <1>10, <1>12
  <2>3. Len(all) = n + m
    BY <1>15, <2>1, <2>2
  <2>4. k \in 1 .. n + m
    BY <1>1, <1>14, <1>16, <2>3
  <2>5. k \in 1 .. n \/ (k - n \in 1 .. m /\ k = n + (k - n))
    BY <2>4
  <2> QED
    BY <2>1, <2>2, <2>5
<1>18. CASE k \in 1 .. Len(fs)
  <2>1. k \in DOMAIN s.frontend /\ all[k] = fs[k]
    BY <1>10, <1>11, <1>15, <1>18
  <2> QED
    BY <1>1, <1>2, <1>4, <1>7, <1>14, <2>1 DEF DefaultRepeats
<1>19. CASE k - Len(fs) \in 1 .. Len(bs) /\ k = Len(fs) + (k - Len(fs))
  <2>1. k - Len(fs) \in DOMAIN s.backends /\ all[k] = bs[k - Len(fs)]
    BY <1>10, <1>12, <1>15, <1>19
  <2> QED
    BY <1>1, <1>3, <1>4, <1>9, <1>14, <2>1 DEF DefaultRepeats
<1> QED
  BY <1>17, <1>18, <1>19

\* --repeat leaves alone the name a service is probed for and its context.
LEMMA OverrideKeeps ==
  ASSUME NEW s, NEW o, NEW defaults, ServiceIsRead(s, o, defaults), NEW r
  PROVE  /\ Overridden(s, r).sni = s.sni
         /\ Overridden(s, r).data_classification = s.data_classification
         /\ Overridden(s, r).sensitivity_horizon = s.sensitivity_horizon
<1>1. PICK f : f = [ i \in DOMAIN s.frontend |->
                       [s.frontend[i] EXCEPT !.endpoint = WithRepeat(@, r)] ]
  OBVIOUS
<1>2. PICK b : b = [ i \in DOMAIN s.backends |-> WithRepeat(s.backends[i], r) ]
  OBVIOUS
<1>3. Overridden(s, r) = [s EXCEPT !.frontend = f, !.backends = b]
  BY <1>1, <1>2 DEF Overridden
<1>4. DOMAIN s = {"name", "sni", "frontend", "backends", "data_classification",
                  "sensitivity_horizon"}
  BY DEF ServiceIsRead
<1> QED
  BY <1>3, <1>4

\* An address that goes without a sweep, and one without a name.
LEMMA SweepsAsked ==
  ASSUME NEW s, NEW o, NEW defaults, ServiceIsRead(s, o, defaults), NEW r \in Int,
         NEW k \in DOMAIN all_endpoints(Overridden(s, r)),
         NEW e, e = all_endpoints(Overridden(s, r))[k]
  PROVE  /\ e.port \in Numerals
         /\ e.repeat < 1 =>
              \/ r < 0
              \/ r = 0 /\ \E key \in {"repeat", "frontend_repeat"} : get(defaults, key, 1) < 1
         /\ effective_sni(e, Overridden(s, r)) = <<>> => "sni" \in DOMAIN o /\ o.sni = <<>>
<1>1. PICK a, d : /\ d \in DefaultRepeats(defaults) /\ EndpointIsRead(a, d)
                  /\ e = WithRepeat(a, r)
  BY AddressesRead
<1>2. /\ e.port = a.port
      /\ r = 0 => e = a
      /\ r # 0 => e.repeat = r
  <2>1. CASE r = 0
    BY <1>1, <2>1 DEF WithRepeat
  <2>2. CASE r # 0
    BY <1>1, <2>2 DEF WithRepeat, EndpointIsRead
  <2> QED
    BY <2>1, <2>2
<1>3. e.port \in Numerals
  BY <1>1, <1>2 DEF EndpointIsRead
<1>4. ASSUME e.repeat < 1, ~(r < 0)
      PROVE  r = 0 /\ \E key \in {"repeat", "frontend_repeat"} : get(defaults, key, 1) < 1
  <2>1. r = 0
    BY <1>2, <1>4
  <2>2. a.repeat = d /\ d < 1
    <3>1. a.repeat \in Int /\ (a.repeat >= 1 \/ a.repeat = d) /\ a.repeat < 1
      BY <1>1, <1>2, <1>4, <2>1 DEF EndpointIsRead
    <3> QED
      BY <3>1
  <2>3. d = get(defaults, "repeat", 1) \/ d = get(defaults, "frontend_repeat", 1)
    BY <1>1 DEF DefaultRepeats, get
  <2> QED
    BY <2>1, <2>2, <2>3
<1>5. ASSUME effective_sni(e, Overridden(s, r)) = <<>> PROVE "sni" \in DOMAIN o /\ o.sni = <<>>
  <2>1. PICK texts : texts = <<e.sni, Overridden(s, r).sni>>
    OBVIOUS
  <2>2. Len(texts) = 2 /\ texts[2] = s.sni
    BY <2>1, OverrideKeeps
  <2>3. FirstGiven(texts) = <<>>
    BY <1>5, <2>1 DEF effective_sni
  <2>4. s.sni = <<>>
    BY <2>2, <2>3, NothingGiven
  <2>5. PICK name : name # <<>> /\ s.sni = get(o, "sni", name)
    BY DEF ServiceIsRead
  <2> QED
    BY <2>4, <2>5 DEF get
<1> QED
  BY <1>3, <1>4, <1>5

-----------------------------------------------------------------------------
(* What a run has read                                                     *)

\* The services are those of the inventory, --repeat applied.
LoadedInv ==
  services # <<>> =>
    LET loaded == load_inventory(argv.inventory.raw) IN
    /\ argv.inventory.kind = "json" /\ loaded.ok
    /\ services = [i \in DOMAIN loaded.value |-> Overridden(loaded.value[i], argv.repeat)]

\* A target has a host and the number of a port.
ParsedInv ==
  \A i \in DOMAIN targets : IsSequence(targets[i].host) /\ targets[i].port \in Numerals

EntriesInv == LoadedInv /\ ParsedInv

\* Each service is one that was read from the entry at its place.
LEMMA ServicesRead ==
  ASSUME CommandInv, LoadedInv, NEW i \in DOMAIN services
  PROVE  \E s : ServiceIsRead(s, Entry(i), Defaults) /\ services[i] = Overridden(s, argv.repeat)
<1>1. services # <<>>
  OBVIOUS
<1>2. PICK raw : raw = argv.inventory.raw
  OBVIOUS
<1>3. PICK loaded : loaded = load_inventory(raw)
  OBVIOUS
<1>4. /\ argv.inventory.kind = "json" /\ loaded.ok
      /\ services = [k \in DOMAIN loaded.value |-> Overridden(loaded.value[k], argv.repeat)]
  BY <1>1, <1>2, <1>3 DEF LoadedInv
<1>5. InventoryIsJson(raw)
  BY <1>2, <1>4, Arguments DEF CommandInv
<1>6. i \in DOMAIN loaded.value /\ services[i] = Overridden(loaded.value[i], argv.repeat)
  BY <1>4
<1>7. ServiceIsRead(loaded.value[i], Entry(i), Defaults)
  BY <1>2, <1>3, <1>4, <1>5, <1>6, EntriesRead DEF Entry, Defaults
<1> QED
  BY <1>6, <1>7

\* The two steps that read: parse and load.
LEMMA ParseReads == ASSUME CommandInv, EntriesInv, Parse PROVE EntriesInv'
<1>1. PICK given : given = [i \in DOMAIN argv.targets |-> parse_target(argv.targets[i])]
  OBVIOUS
<1>2. PICK more : more = IF argv.file.kind = "lines" THEN load_targets(argv.file) ELSE <<>>
  OBVIOUS
<1>3. PICK read : read = Join(given, more)
  OBVIOUS
<1>4. PICK v : v = [i \in DOMAIN read |-> read[i].value]
  OBVIOUS
<1>5. \/ targets' = targets
      \/ Unless(read, v).ok /\ targets' = Unless(read, v).value
  BY <1>1, <1>2, <1>3, <1>4 DEF Parse, Join
<1>6. UNCHANGED <<argv, services>>
  BY DEF Parse
<1>7. IsSequence(given) /\ Len(given) = Len(argv.targets)
  <2>1. Len(argv.targets) \in Nat /\ DOMAIN argv.targets = 1 .. Len(argv.targets)
    BY Arguments, SequenceShape DEF CommandInv
  <2>2. given = [i \in 1 .. Len(argv.targets) |-> given[i]]
    BY <1>1, <2>1
  <2> QED
    BY <2>1, <2>2, SequenceMade
<1>8. IsSequence(more)
  <2>1. CASE argv.file.kind = "lines"
    BY <1>2, <2>1, Arguments, LoadedTargets DEF CommandInv
  <2>2. CASE argv.file.kind # "lines"
    BY <1>2, <2>2 DEF IsSequence
  <2> QED
    BY <2>1, <2>2
<1>9. IsSequence(given)
  BY <1>7
<1>10. /\ IsSequence(read) /\ Len(read) = Len(given) + Len(more)
       /\ \A i \in 1 .. Len(given) : read[i] = given[i]
       /\ \A i \in 1 .. Len(more) : read[Len(given) + i] = more[i]
  BY <1>3, <1>8, <1>9, JoinIs
<1>11. ASSUME NEW i \in 1 .. Len(given), given[i].ok PROVE TargetIsRead(given[i].value)
  <2>1. i \in DOMAIN argv.targets
    BY <1>7, Arguments, SequenceShape DEF CommandInv
  <2>2. given[i] = parse_target(argv.targets[i])
    BY <1>1, <2>1
  <2>3. IsSequence(argv.targets[i])
    BY <2>1, Arguments DEF CommandInv, ToSet
  <2> QED
    BY <1>11, <2>2, <2>3, TargetParsed
<1>12. ASSUME NEW i \in 1 .. Len(more), more[i].ok PROVE TargetIsRead(more[i].value)
  <2>1. i \in DOMAIN more
    BY <1>8, SequenceShape
  <2>2. CASE argv.file.kind = "lines"
    BY <1>2, <1>12, <2>1, <2>2, Arguments, LinesParsed DEF CommandInv
  <2>3. CASE argv.file.kind # "lines"
    BY <1>2, <2>1, <2>3
  <2> QED
    BY <2>2, <2>3
<1>13. Len(given) \in Nat /\ Len(more) \in Nat
  BY <1>8, <1>9, SequenceShape
<1>14. ASSUME NEW i \in 1 .. Len(read), read[i].ok PROVE TargetIsRead(read[i].value)
  <2>1. PICK n \in Nat : n = Len(given)
    BY <1>13
  <2>2. PICK m \in Nat : m = Len(more)
    BY <1>13
  <2>3. i \in 1 .. n + m
    BY <1>10, <2>1, <2>2
  <2>4. i \in 1 .. n \/ (i - n \in 1 .. m /\ i = n + (i - n))
    BY <2>3
  <2>5. CASE i \in 1 .. n
    BY <1>10, <1>11, <1>14, <2>1, <2>5
  <2>6. CASE i - n \in 1 .. m /\ i = n + (i - n)
    <3>1. read[i] = more[i - n]
      BY <1>10, <2>1, <2>2, <2>6
    <3> QED
      BY <1>12, <1>14, <2>2, <2>6, <3>1
  <2> QED
    BY <2>4, <2>5, <2>6
<1>15. ParsedInv'
  <2>1. CASE targets' = targets
    BY <2>1 DEF EntriesInv, ParsedInv
  <2>2. CASE Unless(read, v).ok /\ targets' = Unless(read, v).value
    <3>1. Len(read) \in Nat /\ DOMAIN read = 1 .. Len(read)
      BY <1>10, SequenceShape
    <3>2. Unless(read, v) = Gives(v) /\ \A i \in 1 .. Len(read) : read[i].ok
      BY <2>2, <3>1, UnlessAll
    <3>3. targets' = v
      BY <2>2, <3>2, GivesValue
    <3>4. \A i \in DOMAIN v : i \in 1 .. Len(read) /\ v[i] = read[i].value
      BY <1>4, <3>1
    <3>5. \A i \in DOMAIN v : TargetIsRead(v[i])
      BY <1>14, <3>2, <3>4
    <3> QED
      BY <3>3, <3>5 DEF ParsedInv, TargetIsRead
  <2> QED
    BY <1>5, <2>1, <2>2
<1>16. LoadedInv'
  BY <1>6 DEF EntriesInv, LoadedInv
<1> QED
  BY <1>15, <1>16 DEF EntriesInv

LEMMA LoadReads == ASSUME CommandInv, EntriesInv, Load PROVE EntriesInv'
<1>1. UNCHANGED <<argv, targets>> /\ phase = "load"
  BY DEF Load
<1>2. PICK loaded :
        /\ loaded = CASE argv.inventory.kind = "unreadable" -> Raises("OSError")
                      [] argv.inventory.kind = "not_json" -> Raises("ValueError")
                      [] argv.inventory.kind = "json" -> load_inventory(argv.inventory.raw)
        /\ IF loaded.ok
           THEN services' = [ i \in DOMAIN loaded.value |->
                                Overridden(loaded.value[i], argv.repeat) ]
           ELSE UNCHANGED services
  BY DEF Load
<1>3. LoadedInv'
  <2>1. CASE loaded.ok
    <3>1. argv.inventory.kind = "json" /\ loaded = load_inventory(argv.inventory.raw)
      BY <1>1, <1>2, <2>1, Arguments DEF CommandInv, PhaseInv, Inventoried, Raises
    <3> QED
      BY <1>1, <1>2, <2>1, <3>1 DEF LoadedInv
  <2>2. CASE ~loaded.ok
    BY <1>1, <1>2, <2>2 DEF EntriesInv, LoadedInv
  <2> QED
    BY <2>1, <2>2
<1>4. ParsedInv'
  BY <1>1 DEF EntriesInv, ParsedInv
<1> QED
  BY <1>3, <1>4 DEF EntriesInv

LEMMA NextEntries ==
  ASSUME CommandInv, EntriesInv, [CommandNext]_commandAllVars
  PROVE  EntriesInv'
<1>1. CASE UNCHANGED <<argv, targets, services>>
  BY <1>1 DEF EntriesInv, LoadedInv, ParsedInv
<1>2. \/ Parse \/ Load
      \/ UNCHANGED <<argv, targets, services>>
  BY DEF CommandNext, Main, Search, NotUsable, Choose, StartScan, Scan, Write, Gate, PoolWork,
         commandVars, commandAllVars
<1> QED
  BY <1>1, <1>2, ParseReads, LoadReads

\* What a run has read is what its arguments and its inventory say.
THEOREM EntriesAreRead == CommandSpec => []EntriesInv
<1>1. CommandInit => EntriesInv
  BY DEF CommandInit, EntriesInv, LoadedInv, ParsedInv
<1>2. CommandInv /\ EntriesInv /\ [CommandNext]_commandAllVars => EntriesInv'
  BY NextEntries
<1> QED
  BY <1>1, <1>2, CommandInvariant, PTL DEF CommandSpec

-----------------------------------------------------------------------------
(* Which addresses are dialled, and how they are printed                   *)

\* --repeat and the defaults of the file are the only ways to an address that
\* is never swept, and an entry's own empty SNI the only one to a probe
\* without a name: for every inventory, however it was written.
THEOREM SweepsAreAsked == CommandSpec => []SweepsAreAskedFor
<1>1. CommandInv /\ EntriesInv => SweepsAreAskedFor
  <2> SUFFICES ASSUME CommandInv, EntriesInv, NEW i \in DOMAIN services,
                      NEW k \in DOMAIN all_endpoints(services[i]),
                      NEW e, e = all_endpoints(services[i])[k]
               PROVE  /\ e.repeat < 1 =>
                           \/ argv.repeat < 0
                           \/ argv.repeat = 0 /\ \E key \in {"repeat", "frontend_repeat"} :
                                                   get(Defaults, key, 1) < 1
                      /\ effective_sni(e, services[i]) = <<>> =>
                           "sni" \in DOMAIN Entry(i) /\ Entry(i).sni = <<>>
    BY DEF SweepsAreAskedFor
  <2>1. PICK s : ServiceIsRead(s, Entry(i), Defaults) /\ services[i] = Overridden(s, argv.repeat)
    BY ServicesRead DEF EntriesInv
  <2>2. argv.repeat \in Int
    BY Arguments DEF CommandInv
  <2> QED
    BY <2>1, <2>2, SweepsAsked
<1> QED
  BY <1>1, CommandInvariant, EntriesAreRead, PTL

\* Every address that is dialled has the host of a name or of an address, not
\* a text with brackets of its own.
HostsAreAddresses ==
  \A i \in DOMAIN services : \A k \in DOMAIN all_endpoints(services[i]) :
    IsHost(all_endpoints(services[i])[k].host)

\* What address() prints is read back by _split_host_port() as what was
\* dialled, and a target's label names it, whatever its host.
THEOREM AddressesAreReadBack == CommandSpec => [](HostsAreAddresses => AddressesReadBack)
<1>1. CommandInv /\ EntriesInv => (HostsAreAddresses => AddressesReadBack)
  <2> SUFFICES ASSUME CommandInv, EntriesInv, HostsAreAddresses PROVE AddressesReadBack
    OBVIOUS
  <2>1. ASSUME NEW i \in DOMAIN services, NEW k \in DOMAIN all_endpoints(services[i])
        PROVE  ReadsBack(all_endpoints(services[i])[k].host, all_endpoints(services[i])[k].port)
    <3>1. PICK s : ServiceIsRead(s, Entry(i), Defaults) /\ services[i] = Overridden(s, argv.repeat)
      BY ServicesRead DEF EntriesInv
    <3>2. argv.repeat \in Int
      BY Arguments DEF CommandInv
    <3>3. all_endpoints(services[i])[k].port \in Numerals
      BY <3>1, <3>2, SweepsAsked
    <3>4. IsHost(all_endpoints(services[i])[k].host)
      BY DEF HostsAreAddresses
    <3> QED
      BY <3>3, <3>4, AddressReadsBack
  <2>2. ASSUME NEW i \in DOMAIN targets
        PROVE  Named(label(targets[i].host, targets[i].port))
                 = [host |-> targets[i].host, port |-> targets[i].port]
    BY LabelsName DEF EntriesInv, ParsedInv
  <2> QED
    BY <2>1, <2>2 DEF AddressesReadBack, ReadsBack
<1> QED
  BY <1>1, CommandInvariant, EntriesAreRead, PTL

-----------------------------------------------------------------------------
(* The context in the report                                               *)

\* A future of a job that has not raised holds what the job has returned.
Returned ==
  \A j \in JobIds \ raised : future[j] # <<>> => \E v \in jobs[j].returns : future[j] = <<v>>

LEMMA NextReturned ==
  ASSUME CommandInv, Returned, [CommandNext]_commandAllVars
  PROVE  Returned'
<1>1. [BatchStep]_batchVars
  BY CommandStep
<1>2. DOMAIN future = JobIds
  BY DEF CommandInv, BatchInv, BatchTypeOK
<1>3. CASE UNCHANGED <<jobs, future, raised>>
  BY <1>3 DEF Returned, JobIds
<1>4. CASE \E entries, n : Start(entries, n)
  BY <1>4 DEF Start, Returned, JobIds
<1>5. ASSUME NEW t \in Threads, Return(t) PROVE Returned'
  BY <1>2, <1>5 DEF Return, Returned, JobIds
<1>6. ASSUME NEW t \in Threads, Raise(t) PROVE Returned'
  BY <1>2, <1>6 DEF Raise, Returned, JobIds
<1>7. \/ UNCHANGED <<jobs, future, raised>>
      \/ \E entries, n : Start(entries, n)
      \/ \E t \in Threads : Return(t) \/ Raise(t)
  BY <1>1 DEF BatchStep, Work, Gather, Take, Submit, Collect, Report, batchVars
<1> QED
  BY <1>3, <1>4, <1>5, <1>6, <1>7

THEOREM FuturesHoldReturns == CommandSpec => []Returned
<1>1. CommandInit => Returned
  BY DEF CommandInit, BatchInit, Returned, JobIds
<1>2. CommandInv /\ Returned /\ [CommandNext]_commandAllVars => Returned'
  BY NextReturned
<1> QED
  BY <1>1, <1>2, CommandInvariant, PTL DEF CommandSpec

\* A value other than "unknown" is what the word means.
LEMMA CoerceMeans ==
  ASSUME NEW word, NEW aliases, NEW values, NEW v,
         Coerce(word, aliases, values) = Gives(v), v # "unknown"
  PROVE  word # Absent /\ word \in {v} \cup get(aliases, v, {})
<1> DEFINE meant == { x \in values : word = x \/ word \in get(aliases, x, {}) }
<1>1. Coerce(word, aliases, values)
        = CASE word = Absent -> Gives("unknown")
            [] word # Absent /\ meant # {} -> Gives(CHOOSE x \in meant : TRUE)
            [] OTHER -> Raises("InventoryError")
  BY DEF Coerce
<1>2. \A x : Gives(v) = Gives(x) => v = x
  BY GivesValue
<1>3. Gives(v) # Raises("InventoryError")
  BY DEF Gives, Raises
<1>4. word # Absent
  BY <1>1, <1>2
<1>5. meant # {} /\ v = CHOOSE x \in meant : TRUE
  <2> HIDE DEF meant
  <2> QED
    BY <1>1, <1>2, <1>3, <1>4
<1>6. v \in meant
  <2> HIDE DEF meant
  <2> QED
    BY <1>5
<1> QED
  BY <1>4, <1>6

\* A word that stands for another value is not taken for "unknown".
LEMMA CoerceKeeps ==
  ASSUME NEW word, NEW aliases, NEW values, NEW v,
         Coerce(word, aliases, values) = Gives(v),
         word # Absent, word # "unknown", word \notin get(aliases, "unknown", {})
  PROVE  v # "unknown"
<1> DEFINE meant == { x \in values : word = x \/ word \in get(aliases, x, {}) }
<1>1. Coerce(word, aliases, values)
        = IF meant # {} THEN Gives(CHOOSE x \in meant : TRUE) ELSE Raises("InventoryError")
  BY DEF Coerce
<1>2. \A x : Gives(v) = Gives(x) => v = x
  BY GivesValue
<1>3. Gives(v) # Raises("InventoryError")
  BY DEF Gives, Raises
<1>4. v \in meant
  <2> HIDE DEF meant
  <2> QED
    BY <1>1, <1>2, <1>3
<1> QED
  BY <1>4

\* What an entry says is the word that is coerced.
LEMMA SaysDeclared ==
  ASSUME NEW i, NEW key, NEW word
  PROVE  /\ Says(i, key, word) => word = Declared(Entry(i), Defaults, key)
         /\ word = Declared(Entry(i), Defaults, key) /\ word # Absent => Says(i, key, word)
BY DEF Says, Declared, get

LEMMA KnownWords ==
  ASSUME NEW aliases \in {_CLASSIFICATION_ALIASES, _HORIZON_ALIASES},
         NEW v \in DOMAIN aliases \ {"unknown"}, NEW word \in {v} \cup aliases[v]
  PROVE  word # Absent /\ word # "unknown" /\ word \notin get(aliases, "unknown", {})
<1>1. CASE aliases = _CLASSIFICATION_ALIASES
  <2>1. v \in {"public", "internal", "confidential", "regulated"}
    BY <1>1 DEF _CLASSIFICATION_ALIASES
  <2>2. word \in { "public", "internal", "confidential", "regulated", "open", "unclassified",
                   "staff", "private", "restricted", "sensitive", "pci", "phi", "phipa", "pii",
                   "hipaa", "classified", "protected-b" }
    <3>1. /\ aliases["public"] = {"open", "unclassified"} /\ aliases["internal"] = {"staff"}
          /\ aliases["confidential"] = {"private", "restricted", "sensitive"}
          /\ aliases["regulated"] = {"pci", "phi", "phipa", "pii", "hipaa", "classified",
                                     "protected-b"}
      BY <1>1 DEF _CLASSIFICATION_ALIASES
    <3>2. word = v \/ word \in aliases[v]
      OBVIOUS
    <3> QED
      BY <2>1, <3>1, <3>2
  <2>3. get(aliases, "unknown", {}) = {""}
    BY <1>1 DEF _CLASSIFICATION_ALIASES, get
  <2> QED
    BY <2>2, <2>3 DEF Absent
<1>2. CASE aliases = _HORIZON_ALIASES
  <2>1. v \in {"ephemeral", "short", "medium", "long"}
    BY <1>2 DEF _HORIZON_ALIASES
  <2>2. word \in { "ephemeral", "short", "medium", "long", "session", "transient", "days",
                   "weeks", "operational", "years", "decades", "permanent", "indefinite" }
    <3>1. /\ aliases["ephemeral"] = {"session", "transient", "days", "weeks"}
          /\ aliases["short"] = {"operational"} /\ aliases["medium"] = {"years"}
          /\ aliases["long"] = {"decades", "permanent", "indefinite"}
      BY <1>2 DEF _HORIZON_ALIASES
    <3>2. word = v \/ word \in aliases[v]
      OBVIOUS
    <3> QED
      BY <2>1, <3>1, <3>2
  <2>3. get(aliases, "unknown", {}) = {""}
    BY <1>2 DEF _HORIZON_ALIASES, get
  <2> QED
    BY <2>2, <2>3 DEF Absent
<1> QED
  BY <1>1, <1>2

\* The context that is reported is one that the entry or the defaults declare,
\* and one that they declare is reported unless the scan raised: what the
\* coercions read, --repeat leaves alone, and the pool gives back in place.
THEOREM ContextsAreDeclared == CommandSpec => [](DistinctKeys => ContextIsDeclared)
<1>1. CommandInv /\ EntriesInv /\ Returned => (DistinctKeys => ContextIsDeclared)
  <2> SUFFICES ASSUME CommandInv, EntriesInv, Returned, DistinctKeys, Reported, Inventoried,
                      NEW i \in DOMAIN services, NEW r, r = report[1][i][2]
               PROVE  /\ r.data_classification # "unknown" =>
                           \E word \in {r.data_classification}
                                \cup get(_CLASSIFICATION_ALIASES, r.data_classification, {}) :
                             Says(i, "data_classification", word)
                      /\ r.sensitivity_horizon # "unknown" =>
                           \E word \in {r.sensitivity_horizon}
                                \cup get(_HORIZON_ALIASES, r.sensitivity_horizon, {}) :
                             Says(i, "sensitivity_horizon", word)
                      /\ i \notin raised =>
                           /\ (\E v \in DOMAIN _CLASSIFICATION_ALIASES \ {"unknown"} :
                                 \E word \in {v} \cup _CLASSIFICATION_ALIASES[v] :
                                   Says(i, "data_classification", word))
                                => r.data_classification # "unknown"
                           /\ (\E v \in DOMAIN _HORIZON_ALIASES \ {"unknown"} :
                                 \E word \in {v} \cup _HORIZON_ALIASES[v] :
                                   Says(i, "sensitivity_horizon", word))
                                => r.sensitivity_horizon # "unknown"
    BY DEF ContextIsDeclared
  <2>1. concurrency > 0 /\ collected = JobIds
    BY DEF CommandInv, BatchInv, Kept, Reported
  <2>2. jobs = [k \in DOMAIN services |-> ServiceJob(services[k])]
    BY <2>1 DEF CommandInv, ReadInv, JobList, Inventoried
  <2>3. i \in JobIds /\ jobs[i] = ServiceJob(services[i])
    BY <2>2 DEF JobIds
  <2>4. future[i] # <<>> /\ r = future[i][1]
    BY <2>1, <2>3, BatchInvOwn DEF CommandInv, BatchInv, Kept, ReportIsOwn
  <2>5. PICK s : ServiceIsRead(s, Entry(i), Defaults) /\ services[i] = Overridden(s, argv.repeat)
    BY ServicesRead DEF EntriesInv
  <2>6. /\ services[i].data_classification = s.data_classification
        /\ services[i].sensitivity_horizon = s.sensitivity_horizon
    BY <2>5, OverrideKeeps
  <2>7. PICK own : own = ServiceResult(services[i].name, s.data_classification, s.sensitivity_horizon)
    OBVIOUS
  <2>8. jobs[i].returns = {own}
        /\ jobs[i].stand_in = ServiceResult(services[i].name, "unknown", "unknown")
    BY <2>3, <2>6, <2>7 DEF ServiceJob
  <2>9. /\ r = own \/ r = ServiceResult(services[i].name, "unknown", "unknown")
        /\ i \notin raised => r = own
    <3>1. \E v \in jobs[i].returns \cup {jobs[i].stand_in} : future[i] = <<v>>
      BY <2>3, <2>4 DEF CommandInv, BatchInv, BatchTypeOK
    <3>2. i \notin raised => \E v \in jobs[i].returns : future[i] = <<v>>
      BY <2>3, <2>4 DEF Returned
    <3> QED
      BY <2>4, <2>8, <3>1, <3>2
  <2>10. /\ r.data_classification \in {s.data_classification, "unknown"}
         /\ r.sensitivity_horizon \in {s.sensitivity_horizon, "unknown"}
         /\ i \notin raised => /\ r.data_classification = s.data_classification
                               /\ r.sensitivity_horizon = s.sensitivity_horizon
    BY <2>7, <2>9 DEF ServiceResult
  <2>11. PICK c : c = Declared(Entry(i), Defaults, "data_classification")
    OBVIOUS
  <2>12. PICK h : h = Declared(Entry(i), Defaults, "sensitivity_horizon")
    OBVIOUS
  <2>13. /\ Coerce(c, _CLASSIFICATION_ALIASES, DataClassification) = Gives(s.data_classification)
         /\ Coerce(h, _HORIZON_ALIASES, SensitivityHorizon) = Gives(s.sensitivity_horizon)
    BY <2>5, <2>11, <2>12 DEF ServiceIsRead, _coerce_classification, _coerce_horizon
  <2>14. ASSUME r.data_classification # "unknown"
         PROVE  \E word \in {r.data_classification}
                     \cup get(_CLASSIFICATION_ALIASES, r.data_classification, {}) :
                  Says(i, "data_classification", word)
    <3>1. r.data_classification = s.data_classification
      BY <2>10, <2>14
    <3>2. c # Absent /\ c \in {r.data_classification}
                                \cup get(_CLASSIFICATION_ALIASES, r.data_classification, {})
      BY <2>13, <2>14, <3>1, CoerceMeans
    <3>3. Says(i, "data_classification", c)
      BY <2>11, <3>2, SaysDeclared
    <3> QED
      BY <3>2, <3>3
  <2>15. ASSUME r.sensitivity_horizon # "unknown"
         PROVE  \E word \in {r.sensitivity_horizon}
                     \cup get(_HORIZON_ALIASES, r.sensitivity_horizon, {}) :
                  Says(i, "sensitivity_horizon", word)
    <3>1. r.sensitivity_horizon = s.sensitivity_horizon
      BY <2>10, <2>15
    <3>2. h # Absent /\ h \in {r.sensitivity_horizon}
                                \cup get(_HORIZON_ALIASES, r.sensitivity_horizon, {})
      BY <2>13, <2>15, <3>1, CoerceMeans
    <3>3. Says(i, "sensitivity_horizon", h)
      BY <2>12, <3>2, SaysDeclared
    <3> QED
      BY <3>2, <3>3
  <2>16. ASSUME i \notin raised, NEW v \in DOMAIN _CLASSIFICATION_ALIASES \ {"unknown"},
                NEW word \in {v} \cup _CLASSIFICATION_ALIASES[v],
                Says(i, "data_classification", word)
         PROVE  r.data_classification # "unknown"
    <3>1. word = c
      BY <2>11, <2>16, SaysDeclared
    <3>2. c # Absent /\ c # "unknown" /\ c \notin get(_CLASSIFICATION_ALIASES, "unknown", {})
      BY <3>1, KnownWords
    <3> QED
      BY <2>10, <2>13, <2>16, <3>2, CoerceKeeps
  <2>17. ASSUME i \notin raised, NEW v \in DOMAIN _HORIZON_ALIASES \ {"unknown"},
                NEW word \in {v} \cup _HORIZON_ALIASES[v],
                Says(i, "sensitivity_horizon", word)
         PROVE  r.sensitivity_horizon # "unknown"
    <3>1. word = h
      BY <2>12, <2>17, SaysDeclared
    <3>2. h # Absent /\ h # "unknown" /\ h \notin get(_HORIZON_ALIASES, "unknown", {})
      BY <3>1, KnownWords
    <3> QED
      BY <2>10, <2>13, <2>17, <3>2, CoerceKeeps
  <2> QED
    BY <2>14, <2>15, <2>16, <2>17
<1> QED
  BY <1>1, CommandInvariant, EntriesAreRead, FuturesHoldReturns, PTL
=============================================================================
