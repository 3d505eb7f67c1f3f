---------------------------- MODULE Batch_proofs ----------------------------
(***************************************************************************)
(* Proofs about a batch of scans on a thread pool, for every list of       *)
(* entries, every number of threads and every order in which they finish.  *)
(* They are about the steps of Batch; CommandLine_proofs applies them to a *)
(* run of the command.                                                     *)
(***************************************************************************)
EXTENDS Batch, TLAPS, FiniteSetTheorems

\* A step of the batch, whoever takes it.
BatchStep ==
  \/ \E entries : \E n \in Int :
       /\ Len(entries) \in Nat /\ DOMAIN entries = 1 .. Len(entries)
       /\ Start(entries, n)
  \/ Gather
  \/ Work

-----------------------------------------------------------------------------
(* The invariant                                                           *)

\* A submitted job has one home: a place in the queue, a thread, or its
\* finished future.  (EachJobOnce counts; this says the same by position.)
OneHome ==
  /\ \A a, b \in DOMAIN queue : queue[a] = queue[b] => a = b
  /\ \A t, u \in Threads : running[t] = running[u] /\ running[t] # 0 => t = u
  /\ \A a \in DOMAIN queue :
       /\ queue[a] <= submitted /\ future[queue[a]] = <<>>
       /\ \A t \in Threads : running[t] # queue[a]
  /\ \A t \in Threads :
       running[t] # 0 => running[t] <= submitted /\ future[running[t]] = <<>>
  /\ \A j \in 1 .. submitted :
       \/ future[j] # <<>>
       \/ \E a \in DOMAIN queue : queue[a] = j
       \/ \E t \in Threads : running[t] = j
  /\ \A j \in JobIds : future[j] # <<>> => j <= submitted

\* What has been collected is the future of a job of that name, and what is
\* reported is what has been collected.
Kept ==
  /\ \A j \in collected : future[j] # <<>>
  /\ \A k \in DOMAIN results :
       \E j \in collected : jobs[j].key = k /\ results[k] = <<j, future[j][1]>>
  /\ report # <<>> =>
       /\ concurrency > 0 /\ collected = JobIds
       /\ report = << [ i \in JobIds |-> results[jobs[i].key] ] >>

BatchInv ==
  /\ Len(jobs) \in Nat /\ JobIds = 1 .. Len(jobs)
  /\ concurrency = 0 => jobs = <<>>
  /\ BatchTypeOK
  /\ OneHome
  /\ Kept

LEMMA BatchInitInv == BatchInit => BatchInv
<1> SUFFICES ASSUME BatchInit PROVE BatchInv
  OBVIOUS
<1>1. /\ jobs = <<>> /\ concurrency = 0 /\ JobIds = {} /\ Threads = {} /\ submitted = 0
      /\ queue = <<>> /\ running = <<>> /\ future = <<>> /\ raised = {} /\ collected = {}
      /\ DOMAIN results = {} /\ report = <<>>
  BY DEF BatchInit, JobIds, Threads
<1>2. BatchTypeOK
  BY <1>1 DEF BatchTypeOK
<1>3. OneHome
  BY <1>1 DEF OneHome
<1>4. Kept
  BY <1>1 DEF Kept
<1> QED
  BY <1>1, <1>2, <1>3, <1>4 DEF BatchInv

-----------------------------------------------------------------------------
(* The steps                                                               *)

LEMMA StartInv ==
  ASSUME BatchInv, NEW entries, NEW n \in Int, Len(entries) \in Nat,
         DOMAIN entries = 1 .. Len(entries), Start(entries, n)
  PROVE  BatchInv'
<1>1. /\ jobs = <<>> /\ JobIds = {} /\ submitted = 0 /\ queue = <<>>
      /\ raised = {} /\ collected = {} /\ DOMAIN results = {} /\ report = <<>>
  <2>1. concurrency = 0 /\ jobs = <<>> /\ JobIds = {} /\ Len(jobs) = 0
    BY DEF Start, BatchInv, JobIds
  <2>2. submitted = 0 /\ raised = {} /\ collected = {} /\ DOMAIN results = {}
    <3>1. submitted \in 0 .. 0 /\ raised \subseteq {} /\ collected \subseteq {}
      BY <2>1 DEF BatchInv, BatchTypeOK
    <3>2. collected = {} /\ DOMAIN results = { jobs[j].key : j \in collected }
      BY <3>1 DEF BatchInv, BatchTypeOK
    <3> QED
      BY <3>1, <3>2
  <2>3. queue = <<>>
    BY <2>1 DEF BatchInv, BatchTypeOK
  <2>4. report = <<>>
    BY <2>1 DEF BatchInv, Kept
  <2> QED
    BY <2>1, <2>2, <2>3, <2>4
<1>2. /\ jobs' = entries /\ JobIds' = 1 .. Len(entries)
      /\ concurrency' \in Nat /\ concurrency' > 0
      /\ running' = [t \in Threads' |-> 0]
      /\ future' = [j \in JobIds' |-> <<>>]
      /\ submitted' = 0 /\ queue' = <<>> /\ raised' = {} /\ collected' = {}
      /\ DOMAIN results' = {} /\ report' = <<>>
  BY <1>1 DEF Start, JobIds, Threads, max_workers
<1>3. BatchTypeOK'
  BY <1>2 DEF BatchTypeOK
<1>4. OneHome'
  BY <1>2 DEF OneHome
<1>5. Kept'
  BY <1>2 DEF Kept
<1> QED
  BY <1>2, <1>3, <1>4, <1>5 DEF BatchInv

LEMMA SubmitInv == BatchInv /\ Submit => BatchInv'
<1> SUFFICES ASSUME BatchInv, Submit PROVE BatchInv'
  OBVIOUS
<1> DEFINE j == submitted + 1
<1>1. UNCHANGED <<jobs, concurrency, running, future, raised, collected, results, report,
                  JobIds, Threads>>
  BY DEF Submit, JobIds, Threads
<1>2. /\ submitted \in Nat /\ j \in JobIds /\ j \in 0 .. Len(jobs)
      /\ submitted' = j /\ queue' = Append(queue, j) /\ queue \in Seq(JobIds)
      /\ JobIds \subseteq Nat /\ running \in [Threads -> JobIds \cup {0}]
  BY DEF Submit, BatchInv, BatchTypeOK
<1> HIDE DEF j
<1>3. /\ queue' \in Seq(JobIds)
      /\ \A a \in DOMAIN queue' : (a \in DOMAIN queue /\ queue'[a] = queue[a])
                                  \/ (a = Len(queue) + 1 /\ queue'[a] = j)
      /\ \A a \in DOMAIN queue : a \in DOMAIN queue' /\ queue'[a] = queue[a]
      /\ Len(queue) + 1 \in DOMAIN queue' /\ queue'[Len(queue) + 1] = j
  BY <1>2
<1>4. \A a \in DOMAIN queue : queue[a] \in JobIds /\ queue[a] < j
  BY <1>2 DEF BatchInv, OneHome, j
<1>5. future[j] = <<>> /\ \A t \in Threads : running[t] # j
  BY <1>2 DEF BatchInv, OneHome, j
<1>6. BatchTypeOK'
  BY <1>1, <1>2, <1>3 DEF BatchInv, BatchTypeOK
<1>7. OneHome'
  <2>1. \A a, b \in DOMAIN queue' : queue'[a] = queue'[b] => a = b
    BY <1>2, <1>3, <1>4 DEF BatchInv, OneHome
  <2>2. \A a \in DOMAIN queue' :
          /\ queue'[a] <= j /\ future[queue'[a]] = <<>>
          /\ \A t \in Threads : running[t] # queue'[a]
    BY <1>2, <1>3, <1>4, <1>5 DEF BatchInv, OneHome
  <2>3. \A i \in 1 .. j : i \in 1 .. submitted \/ i = j
    BY <1>2 DEF j
  <2>4. \A i \in 1 .. j :
          future[i] # <<>> \/ (\E a \in DOMAIN queue' : queue'[a] = i)
            \/ \E t \in Threads : running[t] = i
    BY <1>3, <2>3 DEF BatchInv, OneHome
  <2>5. \A t \in Threads : running[t] # 0 => running[t] <= j /\ future[running[t]] = <<>>
    BY <1>2 DEF BatchInv, OneHome, j
  <2>6. \A i \in JobIds : future[i] # <<>> => i <= j
    BY <1>2 DEF BatchInv, OneHome, j
  <2>7. \A t, u \in Threads : running[t] = running[u] /\ running[t] # 0 => t = u
    BY DEF BatchInv, OneHome
  <2> QED
    BY <1>1, <1>2, <2>1, <2>2, <2>4, <2>5, <2>6, <2>7 DEF OneHome
<1>8. Kept'
  BY <1>1 DEF BatchInv, Kept
<1> QED
  BY <1>1, <1>6, <1>7, <1>8 DEF BatchInv

LEMMA TakeInv == ASSUME BatchInv, NEW t \in Threads, Take(t) PROVE BatchInv'
<1> DEFINE j == Head(queue)
<1>1. UNCHANGED <<jobs, concurrency, submitted, future, raised, collected, results, report,
                  JobIds, Threads>>
  BY DEF Take, JobIds, Threads
<1>2. /\ queue \in Seq(JobIds) /\ queue # <<>> /\ JobIds \subseteq Nat \ {0}
      /\ running \in [Threads -> JobIds \cup {0}] /\ running[t] = 0
      /\ running' = [running EXCEPT ![t] = j] /\ queue' = Tail(queue)
  BY DEF Take, BatchInv, BatchTypeOK
<1>3. /\ queue' \in Seq(JobIds) /\ 1 \in DOMAIN queue /\ j = queue[1] /\ j \in JobIds
      /\ \A a \in DOMAIN queue' :
           a \in Nat /\ a + 1 \in DOMAIN queue /\ queue'[a] = queue[a + 1] /\ a + 1 # 1
      /\ \A a \in DOMAIN queue : a # 1 => a - 1 \in DOMAIN queue' /\ queue'[a - 1] = queue[a]
  BY <1>2
<1> HIDE DEF j
<1>4. /\ running' \in [Threads -> JobIds \cup {0}] /\ running'[t] = j
      /\ \A u \in Threads : u # t => running'[u] = running[u]
  BY <1>2, <1>3
<1>5. j # 0 /\ j <= submitted /\ future[j] = <<>> /\ \A u \in Threads : running[u] # j
  BY <1>2, <1>3 DEF BatchInv, OneHome
<1>6. BatchTypeOK'
  BY <1>1, <1>3, <1>4 DEF BatchInv, BatchTypeOK
<1>7. OneHome'
  <2>1. \A a, b \in DOMAIN queue' : queue'[a] = queue'[b] => a = b
    <3>1. ASSUME NEW a \in DOMAIN queue', NEW b \in DOMAIN queue', queue'[a] = queue'[b]
          PROVE  a = b
      <4>1. a + 1 = b + 1
        BY <1>3, <3>1 DEF BatchInv, OneHome
      <4> QED
        BY <1>3, <4>1
    <3> QED
      BY <3>1
  <2>2. \A a \in DOMAIN queue' : queue'[a] # j
    BY <1>3 DEF BatchInv, OneHome
  <2>3. \A a \in DOMAIN queue' :
          /\ queue'[a] <= submitted /\ future[queue'[a]] = <<>>
          /\ \A u \in Threads : running'[u] # queue'[a]
    <3>1. ASSUME NEW a \in DOMAIN queue'
          PROVE  /\ queue'[a] <= submitted /\ future[queue'[a]] = <<>>
                 /\ \A u \in Threads : running[u] # queue'[a]
      BY <1>3 DEF BatchInv, OneHome
    <3> QED
      BY <1>4, <2>2, <3>1
  <2>4. \A u \in Threads : running'[u] # 0 =>
          running'[u] <= submitted /\ future[running'[u]] = <<>>
    BY <1>4, <1>5 DEF BatchInv, OneHome
  <2>5. \A u, w \in Threads : running'[u] = running'[w] /\ running'[u] # 0 => u = w
    BY <1>4, <1>5 DEF BatchInv, OneHome
  <2>6. \A i \in 1 .. submitted :
          future[i] # <<>> \/ (\E a \in DOMAIN queue' : queue'[a] = i)
            \/ \E u \in Threads : running'[u] = i
    <3>1. ASSUME NEW a \in DOMAIN queue
          PROVE  queue[a] = j \/ \E b \in DOMAIN queue' : queue'[b] = queue[a]
      BY <1>3
    <3>2. ASSUME NEW u \in Threads, running[u] # 0
          PROVE  running'[u] = running[u]
      BY <1>2, <1>4, <3>2
    <3>3. \A i \in 1 .. submitted : i # 0
      OBVIOUS
    <3> QED
      BY <1>4, <3>1, <3>2, <3>3 DEF BatchInv, OneHome
  <2>7. \A i \in JobIds : future[i] # <<>> => i <= submitted
    BY DEF BatchInv, OneHome
  <2> QED
    BY <1>1, <2>1, <2>3, <2>4, <2>5, <2>6, <2>7 DEF OneHome
<1>8. Kept'
  BY <1>1 DEF BatchInv, Kept
<1> QED
  BY <1>1, <1>6, <1>7, <1>8 DEF BatchInv

\* Return and Raise: the thread's job settles on a value, its future or its
\* stand-in.
Finish(t, v) ==
  /\ running[t] # 0
  /\ v \in jobs[running[t]].returns \cup {jobs[running[t]].stand_in}
  /\ future' = [future EXCEPT ![running[t]] = <<v>>]
  /\ raised' \in {raised, raised \cup {running[t]}}
  /\ running' = [running EXCEPT ![t] = 0]
  /\ UNCHANGED <<jobs, concurrency, submitted, queue, collected, results, report>>

LEMMA Finishes == ASSUME NEW t, Return(t) \/ Raise(t) PROVE \E v : Finish(t, v)
BY DEF Return, Raise, Finish

LEMMA FinishInv ==
  ASSUME BatchInv, NEW t \in Threads, NEW v, Finish(t, v)
  PROVE  BatchInv'
<1> DEFINE j == running[t]
<1>1. UNCHANGED <<jobs, concurrency, submitted, queue, collected, results, report,
                  JobIds, Threads>>
  BY DEF Finish, JobIds, Threads
<1>2. /\ queue \in Seq(JobIds) /\ JobIds \subseteq Nat \ {0}
      /\ running \in [Threads -> JobIds \cup {0}] /\ j \in JobIds /\ j # 0
      /\ DOMAIN future = JobIds
  BY DEF Finish, BatchInv, BatchTypeOK
<1>3. /\ future' = [future EXCEPT ![j] = <<v>>] /\ running' = [running EXCEPT ![t] = 0]
      /\ raised' \in {raised, raised \cup {j}}
      /\ v \in jobs[j].returns \cup {jobs[j].stand_in}
  BY DEF Finish
<1>4. future[j] = <<>> /\ j <= submitted /\ <<v>> # <<>>
  BY <1>2 DEF BatchInv, OneHome
<1> HIDE DEF j
<1>5. /\ DOMAIN future' = JobIds /\ future'[j] = <<v>>
      /\ \A i \in JobIds : i # j => future'[i] = future[i]
      /\ running' \in [Threads -> JobIds \cup {0}] /\ running'[t] = 0
      /\ \A u \in Threads : u # t => running'[u] = running[u]
  BY <1>2, <1>3
<1>6. \A u \in Threads : running'[u] # 0 => u # t /\ running'[u] = running[u] /\ running[u] # j
  BY <1>2, <1>5 DEF BatchInv, OneHome, j
<1>7. \A a \in DOMAIN queue : queue[a] \in JobIds /\ queue[a] # j
  BY <1>2 DEF BatchInv, OneHome, j
<1>8. BatchTypeOK'
  <2>1. \A i \in JobIds :
          future'[i] = <<>> \/ \E w \in jobs[i].returns \cup {jobs[i].stand_in} : future'[i] = <<w>>
    BY <1>3, <1>5 DEF BatchInv, BatchTypeOK
  <2>2. raised' \subseteq JobIds
    BY <1>2, <1>3 DEF BatchInv, BatchTypeOK
  <2> QED
    BY <1>1, <1>5, <2>1, <2>2 DEF BatchInv, BatchTypeOK
<1>9. OneHome'
  <2>1. \A a, b \in DOMAIN queue : queue[a] = queue[b] => a = b
    BY DEF BatchInv, OneHome
  <2>2. \A u, w \in Threads : running'[u] = running'[w] /\ running'[u] # 0 => u = w
    BY <1>6 DEF BatchInv, OneHome
  <2>3. \A a \in DOMAIN queue :
          /\ queue[a] <= submitted /\ future'[queue[a]] = <<>>
          /\ \A u \in Threads : running'[u] # queue[a]
    BY <1>2, <1>5, <1>6, <1>7 DEF BatchInv, OneHome
  <2>4. \A u \in Threads : running'[u] # 0 =>
          running'[u] <= submitted /\ future'[running'[u]] = <<>>
    BY <1>2, <1>5, <1>6 DEF BatchInv, OneHome
  <2>5. \A i \in 1 .. submitted :
          future'[i] # <<>> \/ (\E a \in DOMAIN queue : queue[a] = i)
            \/ \E u \in Threads : running'[u] = i
    <3>1. 1 .. submitted \subseteq JobIds
      BY DEF BatchInv, BatchTypeOK
    <3>2. \A i \in 1 .. submitted : 
            i # j /\ (\E u \in Threads : running[u] = i) => \E u \in Threads : running'[u] = i
      BY <1>5 DEF j
    <3> QED
      BY <1>4, <1>5, <3>1, <3>2 DEF BatchInv, OneHome
  <2>6. \A i \in JobIds : future'[i] # <<>> => i <= submitted
    BY <1>4, <1>5 DEF BatchInv, OneHome
  <2> QED
    BY <1>1, <2>1, <2>2, <2>3, <2>4, <2>5, <2>6 DEF OneHome
<1>10. Kept'
  <2>1. collected \subseteq JobIds /\ \A i \in collected : i # j /\ future'[i] = future[i]
    BY <1>4, <1>5 DEF BatchInv, BatchTypeOK, Kept
  <2> QED
    BY <1>1, <2>1 DEF BatchInv, Kept
<1> QED
  BY <1>1, <1>8, <1>9, <1>10 DEF BatchInv

LEMMA CollectInv == ASSUME BatchInv, NEW j \in JobIds, Collect(j) PROVE BatchInv'
<1>1. UNCHANGED <<jobs, concurrency, submitted, queue, running, future, raised, report,
                  JobIds, Threads>>
  BY DEF Collect, JobIds, Threads
<1>2. /\ future[j] # <<>> /\ j \notin collected /\ collected' = collected \cup {j}
      /\ DOMAIN results' = DOMAIN results \cup {jobs[j].key}
      /\ results'[jobs[j].key] = <<j, future[j][1]>>
      /\ \A k \in DOMAIN results : k # jobs[j].key => results'[k] = results[k]
  BY DEF Collect
<1>3. BatchTypeOK'
  BY <1>1, <1>2 DEF BatchInv, BatchTypeOK
<1>4. OneHome'
  BY <1>1 DEF BatchInv, OneHome
<1>5. Kept'
  <2>1. report = <<>>
    BY <1>2 DEF BatchInv, Kept
  <2>2. \A i \in collected' : future[i] # <<>>
    BY <1>2 DEF BatchInv, Kept
  <2>3. ASSUME NEW k \in DOMAIN results'
        PROVE  \E i \in collected' : jobs[i].key = k /\ results'[k] = <<i, future[i][1]>>
    <3>1. CASE k = jobs[j].key
      BY <1>2, <3>1
    <3>2. CASE k # jobs[j].key
      BY <1>2, <2>3, <3>2 DEF BatchInv, Kept
    <3> QED
      BY <3>1, <3>2
  <2> QED
    BY <1>1, <2>1, <2>2, <2>3 DEF Kept
<1> QED
  BY <1>1, <1>3, <1>4, <1>5 DEF BatchInv

LEMMA PublishInv == BatchInv /\ Report => BatchInv'
<1> SUFFICES ASSUME BatchInv, Report PROVE BatchInv'
  OBVIOUS
<1>1. UNCHANGED <<jobs, concurrency, submitted, queue, running, future, raised, collected,
                  results, JobIds, Threads>>
  BY DEF Report, JobIds, Threads
<1>2. /\ concurrency > 0 /\ collected = JobIds
      /\ report' = << [ i \in JobIds |-> results[jobs[i].key] ] >>
  BY DEF Report
<1>3. BatchTypeOK'
  BY <1>1, <1>2 DEF BatchInv, BatchTypeOK
<1>4. OneHome'
  BY <1>1 DEF BatchInv, OneHome
<1>5. Kept'
  BY <1>1, <1>2 DEF BatchInv, Kept
<1> QED
  BY <1>1, <1>3, <1>4, <1>5 DEF BatchInv

\* Every step of the batch preserves its invariant.
LEMMA BatchStepInv == BatchInv /\ [BatchStep]_batchVars => BatchInv'
<1> SUFFICES ASSUME BatchInv, [BatchStep]_batchVars PROVE BatchInv'
  OBVIOUS
<1>1. CASE UNCHANGED batchVars
  <2>1. /\ UNCHANGED <<jobs, concurrency, submitted, queue, running, future, raised, collected,
                       results, report>>
        /\ UNCHANGED <<JobIds, Threads>>
    BY <1>1 DEF batchVars, JobIds, Threads
  <2>2. BatchTypeOK'
    BY <2>1 DEF BatchInv, BatchTypeOK
  <2>3. OneHome'
    BY <2>1 DEF BatchInv, OneHome
  <2>4. Kept'
    BY <2>1 DEF BatchInv, Kept
  <2> QED
    BY <2>1, <2>2, <2>3, <2>4 DEF BatchInv
<1>2. ASSUME NEW entries, NEW n \in Int, Len(entries) \in Nat,
             DOMAIN entries = 1 .. Len(entries), Start(entries, n)
      PROVE  BatchInv'
  BY <1>2, StartInv
<1>3. CASE Gather
  BY <1>3, SubmitInv, PublishInv, CollectInv DEF Gather
<1>4. CASE Work
  <2>1. PICK t \in Threads : Take(t) \/ Return(t) \/ Raise(t)
    BY <1>4 DEF Work
  <2> QED
    BY <2>1, TakeInv, Finishes, FinishInv
<1> QED
  BY <1>1, <1>2, <1>3, <1>4 DEF BatchStep

-----------------------------------------------------------------------------
(* What the invariant says of the batch                                    *)

LEMMA AtMostOne ==
  ASSUME NEW S, \A x, y \in S : x = y
  PROVE  IsFiniteSet(S) /\ Cardinality(S) = IF S = {} THEN 0 ELSE 1
<1>1. CASE S = {}
  BY <1>1, FS_EmptySet
<1>2. CASE S # {}
  <2>1. PICK x : S = {x}
    BY <1>2
  <2> QED
    BY <1>2, <2>1, FS_Singleton
<1> QED
  BY <1>1, <1>2

LEMMA BatchInvOnce == BatchInv => EachJobOnce
<1> SUFFICES ASSUME BatchInv, NEW j \in 1 .. submitted
             PROVE  Cardinality({ i \in DOMAIN queue : queue[i] = j })
                      + Cardinality({ t \in Threads : running[t] = j })
                      + (IF future[j] # <<>> THEN 1 ELSE 0) = 1
  BY DEF EachJobOnce
<1> DEFINE Q == { i \in DOMAIN queue : queue[i] = j }
           R == { t \in Threads : running[t] = j }
<1>1. j # 0
  OBVIOUS
<1>2. /\ \A x, y \in Q : x = y
      /\ \A x, y \in R : x = y
  BY <1>1 DEF BatchInv, OneHome
<1>3. /\ Q # {} => R = {} /\ future[j] = <<>>
      /\ R # {} => future[j] = <<>>
      /\ future[j] # <<>> \/ Q # {} \/ R # {}
  BY <1>1 DEF BatchInv, OneHome
<1> HIDE DEF Q, R
<1>4. /\ Cardinality(Q) = IF Q = {} THEN 0 ELSE 1
      /\ Cardinality(R) = IF R = {} THEN 0 ELSE 1
  BY <1>2, AtMostOne
<1>5. Cardinality(Q) + Cardinality(R) + (IF future[j] # <<>> THEN 1 ELSE 0) = 1
  BY <1>3, <1>4
<1> QED
  BY <1>5 DEF Q, R

\* No two entries share a name: services do by their declarations, targets
\* unless one host and port is given twice (with two SNIs).
DistinctKeys == \A i, j \in JobIds : jobs[i].key = jobs[j].key => i = j

\* With distinct names, the slot of a name holds the future of its job.
LEMMA OwnSlot ==
  ASSUME BatchInv, DistinctKeys, collected = JobIds, NEW i \in JobIds
  PROVE  future[i] # <<>> /\ results[jobs[i].key] = <<i, future[i][1]>>
<1>1. jobs[i].key \in DOMAIN results
  BY DEF BatchInv, BatchTypeOK
<1>2. PICK j \in collected : /\ jobs[j].key = jobs[i].key
                             /\ results[jobs[i].key] = <<j, future[j][1]>>
  BY <1>1 DEF BatchInv, Kept
<1>3. j = i
  BY <1>2 DEF DistinctKeys
<1> QED
  BY <1>2, <1>3 DEF BatchInv, Kept

LEMMA BatchInvOwn == BatchInv => (DistinctKeys => ReportIsOwn)
<1> SUFFICES ASSUME BatchInv, DistinctKeys, Reported, NEW i \in JobIds
             PROVE  report[1][i][1] = i /\ report[1][i][2] = future[i][1]
  BY DEF ReportIsOwn
<1>1. /\ collected = JobIds
      /\ report = << [ k \in JobIds |-> results[jobs[k].key] ] >>
  BY DEF Reported, BatchInv, Kept
<1>2. report[1][i] = results[jobs[i].key]
  BY <1>1
<1>3. results[jobs[i].key] = <<i, future[i][1]>>
  BY <1>1, OwnSlot
<1> QED
  BY <1>2, <1>3

-----------------------------------------------------------------------------
(* The batch implements its promise                                        *)

Offered == << [j \in JobIds |-> jobs[j].returns \cup {jobs[j].stand_in}] >>
Published == << [ i \in JobIds |-> report[1][i][2] ] >>

LEMMA PromiseInit == BatchInit => Promise!Init
BY DEF BatchInit, Promise!Init, Reported

LEMMA PromiseStep ==
  BatchInv /\ DistinctKeys /\ [BatchStep]_batchVars => [Promise!Next]_(Promise!promiseVars)
<1> SUFFICES ASSUME BatchInv, DistinctKeys, [BatchStep]_batchVars
             PROVE  [Promise!Next]_(Promise!promiseVars)
  OBVIOUS
<1>1. ASSUME UNCHANGED <<jobs, concurrency, future, report>>
      PROVE  UNCHANGED Promise!promiseVars
  BY <1>1 DEF Promise!promiseVars, JobIds, Reported
<1>2. ASSUME NEW entries, NEW n \in Int, Len(entries) \in Nat,
             DOMAIN entries = 1 .. Len(entries), Start(entries, n)
      PROVE  Promise!Next
  <2>1. /\ concurrency = 0 /\ concurrency' \in Nat /\ concurrency' # 0
        /\ future' = [j \in JobIds' |-> <<>>] /\ report = <<>> /\ report' = <<>>
    BY <1>2 DEF Start, max_workers, JobIds, BatchInv, Kept
  <2>2. ~Reported /\ ~Reported'
    BY <2>1 DEF Reported
  <2>3. DOMAIN Offered[1]' = JobIds'
    BY DEF Offered
  <2> QED
    BY <2>1, <2>2, <2>3 DEF Promise!Next, Promise!Accept, Offered
<1>3. ASSUME NEW t \in Threads, NEW v, Finish(t, v)
      PROVE  Promise!Next
  <2> DEFINE j == running[t]
  <2>1. /\ j \in JobIds /\ future[j] = <<>> /\ concurrency # 0 /\ DOMAIN future = JobIds
        /\ concurrency \in Nat
    BY <1>3 DEF Finish, BatchInv, BatchTypeOK, OneHome, Threads
  <2>2. /\ v \in Offered[1][j] /\ future' = [future EXCEPT ![j] = <<v>>]
        /\ UNCHANGED <<jobs, concurrency, report>>
    BY <1>3, <2>1 DEF Finish, Offered
  <2>3. UNCHANGED <<JobIds, Reported>>
    BY <2>2 DEF JobIds, Reported
  <2> HIDE DEF j
  <2>4. Promise!Settle(j)
    BY <2>1, <2>2, <2>3 DEF Promise!Settle, Offered
  <2> QED
    BY <2>1, <2>4 DEF Promise!Next
<1>4. CASE Report
  <2>1. /\ concurrency # 0 /\ collected = JobIds /\ report = <<>>
        /\ report' = << [ i \in JobIds |-> results[jobs[i].key] ] >>
        /\ UNCHANGED <<jobs, concurrency, future, JobIds>>
    BY <1>4 DEF Report, JobIds, BatchInv, BatchTypeOK
  <2>2. ~Reported /\ Reported'
    BY <2>1 DEF Reported
  <2>3. /\ \A j \in JobIds : future[j] # <<>>
        /\ \A j \in JobIds : report'[1][j][2] = future[j][1]
    BY <2>1, OwnSlot
  <2>4. Published' = << [ j \in JobIds |-> future[j][1] ] >>
    BY <2>1, <2>3 DEF Published
  <2>5. DOMAIN Offered[1] = JobIds
    BY DEF Offered
  <2> QED
    BY <2>1, <2>2, <2>3, <2>4, <2>5 DEF Promise!Next, Promise!Publish, Offered, Published
<1>5. CASE Submit \/ \E j \in JobIds : Collect(j)
  BY <1>1, <1>5 DEF Submit, Collect
<1>6. CASE Work
  <2>1. PICK t \in Threads : Take(t) \/ Return(t) \/ Raise(t)
    BY <1>6 DEF Work
  <2> QED
    BY <1>1, <1>3, <2>1, Finishes DEF Take
<1>7. CASE UNCHANGED batchVars
  BY <1>1, <1>7 DEF batchVars
<1> QED
  BY <1>2, <1>4, <1>5, <1>6, <1>7 DEF BatchStep, Gather
=============================================================================
