------------------------------- MODULE Batch -------------------------------
(***************************************************************************)
(* A batch of scans on a thread pool.  ServiceScanner.scan_all and         *)
(* Scanner.scan have the same shape: submit one job per entry, collect the *)
(* futures as they complete into a dict keyed by the entry's name (a       *)
(* service's name, a target's label), and read the dict back in input      *)
(* order.  What a job does is abstracted to the values it may return, or   *)
(* to its raising an exception, for which its stand-in is recorded.        *)
(*                                                                         *)
(* The executor is external: `concurrency` threads share one FIFO queue.   *)
(* as_completed hands out every finished future once; those that finished  *)
(* before it was called come in the arbitrary order of a set.              *)
(***************************************************************************)
EXTENDS Integers, Sequences, FiniteSets

VARIABLES
  jobs,         \* the entries: [key, returns, stand_in]
  concurrency,  \* max_workers; 0 until the pool is there
  submitted,    \* jobs submitted so far: a prefix of the input
  queue,        \* the executor's work queue
  running,      \* thread -> 0 when idle, else the job it runs
  future,       \* job -> <<>> until it is done, then <<value>>
  raised,       \* the jobs whose future holds an exception
  collected,    \* the futures as_completed has yielded
  results,      \* the dict: key -> <<job, value>>
  report        \* <<>> until returned, then << position -> <<job, value>> >>

batchVars == <<jobs, concurrency, submitted, queue, running, future, raised, collected,
               results, report>>

JobIds == DOMAIN jobs
Threads == 1 .. concurrency

max_workers(n) == IF n > 1 THEN n ELSE 1

BatchInit ==
  /\ jobs = <<>> /\ concurrency = 0
  /\ submitted = 0 /\ queue = <<>> /\ running = <<>>
  /\ future = <<>> /\ raised = {} /\ collected = {}
  /\ results = [k \in {} |-> <<>>]
  /\ report = <<>>

\* The scanner is made for --concurrency n and given its entries.
Start(entries, n) ==
  /\ concurrency = 0
  /\ jobs' = entries
  /\ concurrency' = max_workers(n)
  /\ running' = [t \in 1 .. max_workers(n) |-> 0]
  /\ future' = [j \in DOMAIN entries |-> <<>>]
  /\ UNCHANGED <<submitted, queue, raised, collected, results, report>>

-----------------------------------------------------------------------------
(* The pool's threads                                                      *)

Take(t) ==
  /\ running[t] = 0 /\ queue # <<>>
  /\ running' = [running EXCEPT ![t] = Head(queue)]
  /\ queue' = Tail(queue)
  /\ UNCHANGED <<jobs, concurrency, submitted, future, raised, collected, results, report>>

Return(t) ==
  /\ running[t] # 0
  /\ \E v \in jobs[running[t]].returns :
       future' = [future EXCEPT ![running[t]] = <<v>>]
  /\ running' = [running EXCEPT ![t] = 0]
  /\ UNCHANGED <<jobs, concurrency, submitted, queue, raised, collected, results, report>>

\* Mutant of Raise: a job that raised is queued again.
Raise_Requeues(t) ==
  /\ running[t] # 0
  /\ running[t] \notin raised
  /\ future' = [future EXCEPT ![running[t]] = <<jobs[running[t]].stand_in>>]
  /\ raised' = raised \cup {running[t]}
  /\ running' = [running EXCEPT ![t] = 0]
  /\ queue' = Append(queue, running[t])
  /\ UNCHANGED <<jobs, concurrency, submitted, collected, results, report>>

\* The executor stores the exception in the future, which is read as the
\* stand-in; the thread lives on.
Raise(t) ==
  /\ running[t] # 0
  /\ future' = [future EXCEPT ![running[t]] = <<jobs[running[t]].stand_in>>]
  /\ raised' = raised \cup {running[t]}
  /\ running' = [running EXCEPT ![t] = 0]
  /\ UNCHANGED <<jobs, concurrency, submitted, queue, collected, results, report>>

-----------------------------------------------------------------------------
(* The caller's thread                                                     *)

\* Mutant of Submit: the loop starts at the second entry.
Submit_OffByOne ==
  /\ submitted < Len(jobs)
  /\ submitted' = submitted + 1
  /\ queue' = Append(queue, submitted + 2)
  /\ UNCHANGED <<jobs, concurrency, running, future, raised, collected, results, report>>

Submit ==
  /\ submitted < Len(jobs)
  /\ submitted' = submitted + 1
  /\ queue' = Append(queue, submitted + 1)
  /\ UNCHANGED <<jobs, concurrency, running, future, raised, collected, results, report>>

\* Mutant of Collect: once one job has raised, every result is its stand-in.
Collect_OneCrashFailsAll(j) ==
  /\ submitted = Len(jobs)
  /\ future[j] # <<>> /\ j \notin collected
  /\ collected' = collected \cup {j}
  /\ results' = [ k \in DOMAIN results \cup {jobs[j].key} |->
                    IF k = jobs[j].key
                    THEN <<j, IF raised # {} THEN jobs[j].stand_in ELSE future[j][1]>>
                    ELSE results[k] ]
  /\ UNCHANGED <<jobs, concurrency, submitted, queue, running, future, raised, report>>

\* results[name] = future.result(), or the stand-in when it raised.
Collect(j) ==
  /\ submitted = Len(jobs)
  /\ future[j] # <<>> /\ j \notin collected
  /\ collected' = collected \cup {j}
  /\ results' = [ k \in DOMAIN results \cup {jobs[j].key} |->
                    IF k = jobs[j].key THEN <<j, future[j][1]>> ELSE results[k] ]
  /\ UNCHANGED <<jobs, concurrency, submitted, queue, running, future, raised, report>>

\* Mutant of Report: published before the last future has been collected, with
\* the stand-in for what is missing.
Report_TooEarly ==
  /\ concurrency > 0 /\ submitted = Len(jobs)
  /\ collected # {}
  /\ report = <<>>
  /\ report' = << [ i \in JobIds |-> IF jobs[i].key \in DOMAIN results
                                    THEN results[jobs[i].key]
                                    ELSE <<i, jobs[i].stand_in>> ] >>
  /\ UNCHANGED <<jobs, concurrency, submitted, queue, running, future, raised, collected,
                 results>>

\* The comprehension's `if name in results` is dead: all have been collected.
Report ==
  /\ concurrency > 0 /\ submitted = Len(jobs)
  /\ collected = JobIds
  /\ report = <<>>
  /\ report' = << [ i \in JobIds |-> results[jobs[i].key] ] >>
  /\ UNCHANGED <<jobs, concurrency, submitted, queue, running, future, raised, collected,
                 results>>

Work == \E t \in Threads : Take(t) \/ Return(t) \/ Raise(t)
Gather == Submit \/ Report \/ \E j \in JobIds : Collect(j)

-----------------------------------------------------------------------------
(* What the batch promises                                                 *)

BatchTypeOK ==
  /\ concurrency \in Nat
  /\ submitted \in 0 .. Len(jobs)
  /\ queue \in Seq(JobIds)
  /\ running \in [Threads -> JobIds \cup {0}]
  /\ DOMAIN future = JobIds
  /\ \A j \in JobIds :
       future[j] = <<>> \/ \E v \in jobs[j].returns \cup {jobs[j].stand_in} : future[j] = <<v>>
  /\ raised \subseteq JobIds
  /\ collected \subseteq JobIds
  /\ DOMAIN results = { jobs[j].key : j \in collected }
  /\ report = <<>> \/ DOMAIN report[1] = JobIds

Reported == report # <<>>

\* The report lists every entry's own result at the entry's own position, a
\* stand-in exactly where the job raised, in whatever order jobs finished.
ReportIsOwn ==
  Reported =>
    \A i \in JobIds :
      /\ report[1][i][1] = i
      /\ report[1][i][2] = future[i][1]

\* A job is queued, running or done, and in one of those places only: a crash
\* of a neighbour neither loses it nor makes it run twice.
EachJobOnce ==
  \A j \in 1 .. submitted :
    Cardinality({ i \in DOMAIN queue : queue[i] = j })
      + Cardinality({ t \in Threads : running[t] = j })
      + (IF future[j] # <<>> THEN 1 ELSE 0) = 1

\* The batch implements the promise: position i settles on job i's value.
Promise == INSTANCE BatchPromise WITH
  given <- IF concurrency = 0 THEN <<>>
           ELSE << [j \in JobIds |-> jobs[j].returns \cup {jobs[j].stand_in}] >>,
  settled <- future,
  published <- IF Reported THEN << [ i \in JobIds |-> report[1][i][2] ] >> ELSE <<>>

ImplementsPromise == Promise!Spec
=============================================================================
