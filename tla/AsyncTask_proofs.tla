--------------------------- MODULE AsyncTask_proofs ---------------------------
(***************************************************************************)
(* Proofs about AsyncTask for any number of owners, any set of addresses   *)
(* and any pool size: the inductive invariant IInv, the safety invariants  *)
(* that follow from it, and that the server keeps the promise of AsyncWork.*)
(***************************************************************************)
EXTENDS AsyncTask, CollectionFacts, FiniteSetTheorems, SequenceTheorems, TLAPS

JobState == {"none", "running", "posted", "exited"}

-----------------------------------------------------------------------------
(* The pool.                                                               *)

\* A queue q, a set of threads ts and the states jb of the jobs fit together.
Pool(q, ts, jb) ==
  /\ q \in Seq(Task) /\ IsInjective(q)
  /\ ts \in SUBSET Task /\ IsFiniteSet(ts) /\ Cardinality(ts) <= Size
  /\ Range(q) \cap ts = {}
  /\ jb \in [Task -> JobState]
  /\ \A p \in ts : jb[p] # "none"
  /\ \A p \in Task \ ts : jb[p] \in {"none", "exited"}

\* Server::Update keeps them so; it moves at most the head of the queue, whose
\* thread it starts, and leaves a task waiting only when the pool is full.
LEMMA UpdateFacts ==
  ASSUME NEW q, NEW ts, NEW jb, Pool(q, ts, jb), Update(q, ts, jb)
  PROVE  /\ Pool(tasks', threads', job')
         /\ Range(tasks') \cup threads' = Range(q) \cup ts
         /\ Range(tasks') \subseteq Range(q)
         /\ ts \subseteq threads'
         /\ \A p \in Task : p \in threads' \ ts => p \in Range(q) /\ job'[p] = "running"
         /\ \A p \in Task : p \notin threads' \ ts => job'[p] = jb[p]
         /\ q = <<>> => tasks' = <<>>
         /\ (q # <<>> /\ Tail(q) # <<>> => Cardinality(ts) >= Size - 1)
              => (tasks' # <<>> => Cardinality(threads') = Size)
<1> USE SizeAssumption DEF Pool, JobState
<1>1. CASE q = <<>> \/ Cardinality(ts) = Size
  <2>1. tasks' = q /\ threads' = ts /\ job' = jb  BY <1>1 DEF Update
  <2> QED BY <2>1, <1>1
<1>2. CASE ~(q = <<>> \/ Cardinality(ts) = Size)
  <2>1. /\ tasks' = Tail(q) /\ threads' = ts \cup {Head(q)}
        /\ job' = [jb EXCEPT ![Head(q)] = "running"]
    BY <1>2 DEF Update
  <2>2. /\ Tail(q) \in Seq(Task) /\ Head(q) \in Task
        /\ Range(q) = Range(Tail(q)) \cup {Head(q)}
        /\ Head(q) \notin Range(Tail(q))
        /\ IsInjective(Tail(q))
    BY <1>2, PopFacts
  <2>3. Head(q) \notin ts  BY <2>2
  <2>4. /\ IsFiniteSet(threads')
        /\ Cardinality(threads') = Cardinality(ts) + 1
        /\ Cardinality(ts) \in Nat
    BY <2>1, <2>3, FS_AddElement, FS_CardinalityType
  <2>5. Cardinality(threads') <= Size  BY <2>4, <1>2
  <2>6. Pool(tasks', threads', job')
    BY <2>1, <2>2, <2>3, <2>4, <2>5
  <2>7. (q # <<>> /\ Tail(q) # <<>> => Cardinality(ts) >= Size - 1)
              => (tasks' # <<>> => Cardinality(threads') = Size)
    BY <2>1, <2>4, <2>5, <1>2
  <2> QED BY <2>1, <2>2, <2>3, <2>6, <2>7, <1>2
<1> QED BY <1>1, <1>2

-----------------------------------------------------------------------------
(* The inductive invariant.                                                *)

\* Every task the server or the running handler holds belongs to the Work its
\* handler is bound to, and a Work points only to its own task.
OwnInv == /\ NoOrphan
          /\ \A o \in Owner : work[o] # NoTask =>
                work[o] \in Live /\ handler[work[o]] = o

\* What the main thread is doing fits the state of the server.
MainInv == /\ cur # NoTask <=> pc = "handler"
           /\ cur # NoTask => handler[cur] \in Owner
           /\ cur \notin Queued \cup threads
           /\ joining # NoTask => joining \in threads \cap aborted
           /\ pc \in {"shutdown", "stopped"} => tasks = <<>>
           /\ pc = "stopped" => joining = NoTask /\ threads \subseteq aborted

\* Only running tasks are aborted, and the main thread waits for each of them.
AbortInv == /\ Queued \cap aborted = {}
            /\ \A p \in aborted \cap threads : p = joining \/ job[p] = "exited"

\* A completion is in the io_service exactly when its thread has posted it and
\* Complete has not been entered.
PostedInv == /\ IsInjective(posted)
             /\ Range(posted) = {p \in threads : job[p] \in {"posted", "exited"}}

\* A task waits only while the pool is full, but for the slot that a running
\* handler has given back.
ConserveInv == /\ WorkConserving
               /\ pc = "handler" /\ tasks # <<>> => Cardinality(threads) >= Size - 1

IInv == /\ TypeOK
        /\ Pool(tasks, threads, job)
        /\ OwnInv
        /\ MainInv
        /\ AbortInv
        /\ PostedInv
        /\ ConserveInv

-----------------------------------------------------------------------------
(* Every step keeps the invariant: one lemma per action that moves tasks,  *)
(* one for the actions that only move the main thread or a worker.         *)

\* Work::Run.
LEMMA RunStep ==
  ASSUME IInv, NEW o \in Owner, NEW p \in Task, Run(o, p)
  PROVE  IInv'
<1> DEFINE q == Append(tasks, p)
           jb == [job EXCEPT ![p] = "none"]
<1> USE SizeAssumption, TaskAssumption
<1>1. p \notin Range(tasks) /\ p \notin threads /\ p # cur
  BY DEF Run, Live, Queued, IInv, TypeOK
<1>2. /\ q \in Seq(Task) /\ q # <<>> /\ Range(q) = Range(tasks) \cup {p}
      /\ IsInjective(q) /\ (Tail(q) # <<>> => tasks # <<>>)
  BY <1>1, PushFacts DEF IInv, TypeOK, Pool
<1>3. Pool(q, threads, jb)
  BY <1>1, <1>2 DEF IInv, Pool, JobState
<1>4. Update(q, threads, jb)  BY DEF Run
<1> DEFINE new == threads' \ threads
<1>5. /\ Pool(tasks', threads', job')
      /\ Range(tasks') \cup threads' = Range(tasks) \cup threads \cup {p}
      /\ Range(tasks') \subseteq Range(tasks) \cup {p}
      /\ threads \subseteq threads'
      /\ \A x \in Task : x \in new => x \in Range(tasks) \cup {p} /\ job'[x] = "running"
      /\ \A x \in Task : x \notin new => job'[x] = jb[x]
      /\ (q # <<>> /\ Tail(q) # <<>> => Cardinality(threads) >= Size - 1)
              => (tasks' # <<>> => Cardinality(threads') = Size)
  <2> HIDE DEF q, jb
  <2> QED BY <1>2, <1>3, <1>4, UpdateFacts
<1> HIDE DEF q
<1>6. /\ work' = [work EXCEPT ![o] = p] /\ handler' = [handler EXCEPT ![p] = o]
      /\ aborted' = aborted \ {p}
      /\ UNCHANGED <<posted, pc, cur, joining>>
      /\ pc \in {"loop", "handler"} /\ joining = NoTask
  BY DEF Run, MainRuns
<1>7. TypeOK'
  BY <1>5, <1>6 DEF IInv, TypeOK, Pool, JobState
<1>8. OwnInv'
  <2>1. ~(work[o] \in threads \/ work[o] \in Range(tasks))
    BY DEF Run, Busy, Has, Queued
  <2>2. NoOrphan'
    BY <1>1, <1>5, <1>6, <2>1 DEF IInv, TypeOK, OwnInv, NoOrphan, Queued
  <2>3. \A r \in Owner : work'[r] # NoTask => work'[r] \in Live' /\ handler'[work'[r]] = r
    BY <1>1, <1>5, <1>6 DEF IInv, TypeOK, OwnInv, Live, Queued
  <2> QED BY <2>2, <2>3 DEF OwnInv
<1>9. MainInv'
  BY <1>1, <1>5, <1>6 DEF IInv, TypeOK, MainInv, Queued
<1>10. AbortInv'
  BY <1>1, <1>5, <1>6 DEF IInv, TypeOK, AbortInv, Queued
<1>11. PostedInv'
  <2>1. {x \in threads' : job'[x] \in {"posted", "exited"}}
           = {x \in threads : job[x] \in {"posted", "exited"}}
    <3>1. threads' \subseteq Task /\ threads \subseteq Task /\ job \in [Task -> JobState]
      BY <1>5 DEF IInv, Pool
    <3>2. \A x \in threads : x \in threads' /\ job'[x] = job[x]
      BY <3>1, <1>1, <1>5 DEF JobState
    <3>3. \A x \in threads' : x \notin threads => job'[x] = "running"
      BY <3>1, <1>5
    <3> QED BY <3>2, <3>3
  <2> QED BY <2>1, <1>6 DEF IInv, PostedInv
<1>12. ConserveInv'
  <2>1. tasks # <<>> => Cardinality(threads) >= Size - 1
    BY <1>6 DEF IInv, ConserveInv, WorkConserving
  <2>2. tasks' # <<>> => Cardinality(threads') = Size
    BY <2>1, <1>2, <1>5
  <2> QED BY <2>2 DEF ConserveInv, WorkConserving
<1> QED BY <1>5, <1>7, <1>8, <1>9, <1>10, <1>11, <1>12 DEF IInv

\* Server::Abort of a queued task.
LEMMA AbortQueuedStep ==
  ASSUME IInv, NEW o \in Owner, AbortQueued(o)
  PROVE  IInv'
<1> USE SizeAssumption, TaskAssumption
<1>1. PICK i \in DOMAIN tasks : tasks[i] = work[o] /\ tasks' = RemoveAt(tasks, i)
  BY DEF AbortQueued
<1>2. /\ tasks' \in Seq(Task) /\ IsInjective(tasks')
      /\ Range(tasks') = Range(tasks) \ {work[o]}
      /\ tasks' # <<>> => tasks # <<>>
      /\ work[o] \in Range(tasks)
  <2>1. tasks \in Seq(Task) /\ IsInjective(tasks)  BY DEF IInv, Pool
  <2>2. work[o] \in Range(tasks)  BY <1>1 DEF Range
  <2> QED BY <1>1, <2>1, <2>2, RemoveAtFacts
<1>3. /\ work' = [r \in Owner |-> IF work[r] = work[o] THEN NoTask ELSE work[r]]
      /\ UNCHANGED <<threads, aborted, handler, job, posted, pc, cur, joining>>
      /\ pc \in {"loop", "handler"} /\ joining = NoTask
  BY DEF AbortQueued, Expire, MainRuns
<1>4. TypeOK'  BY <1>2, <1>3 DEF IInv, TypeOK
<1>5. Pool(tasks, threads, job)'  BY <1>2, <1>3 DEF IInv, Pool
<1>6. OwnInv'
  <2>1. NoOrphan'
    BY <1>2, <1>3 DEF IInv, OwnInv, NoOrphan, Queued, Pool
  <2>2. \A r \in Owner : work'[r] # NoTask => work'[r] \in Live' /\ handler'[work'[r]] = r
    BY <1>2, <1>3 DEF IInv, OwnInv, Live, Queued
  <2> QED BY <2>1, <2>2 DEF OwnInv
<1>7. MainInv'  BY <1>2, <1>3 DEF IInv, MainInv, Queued
<1>8. AbortInv'  BY <1>2, <1>3 DEF IInv, AbortInv, Queued
<1>9. PostedInv'  BY <1>3 DEF IInv, PostedInv
<1>10. ConserveInv'  BY <1>2, <1>3 DEF IInv, ConserveInv, WorkConserving
<1> QED BY <1>4, <1>5, <1>6, <1>7, <1>8, <1>9, <1>10 DEF IInv

\* Server::Complete up to the call of the handler.
LEMMA CompleteStep ==
  ASSUME IInv, NEW p \in Task, Complete(p)
  PROVE  IInv'
<1> USE SizeAssumption, TaskAssumption
<1>1. /\ posted' \in Seq(Task) /\ IsInjective(posted')
      /\ Range(posted) = Range(posted') \cup {p} /\ p \notin Range(posted')
  BY PopFacts DEF Complete, IInv, TypeOK, PostedInv
<1>2. /\ threads' = threads \ {p} /\ pc' = "handler" /\ cur' = p
      /\ UNCHANGED <<tasks, aborted, handler, job, work, joining>>
      /\ pc = "loop" /\ joining = NoTask /\ job[p] = "exited" /\ p \notin aborted
  BY DEF Complete
<1>3. p \in threads /\ p \notin Queued
  BY <1>1 DEF IInv, PostedInv, Pool, Queued
<1>4. /\ IsFiniteSet(threads') /\ Cardinality(threads') = Cardinality(threads) - 1
      /\ Cardinality(threads) \in Nat
  BY <1>2, <1>3, FS_RemoveElement, FS_CardinalityType DEF IInv, Pool
<1>5. TypeOK'  BY <1>1, <1>2 DEF IInv, TypeOK
<1>6. Pool(tasks, threads, job)'  BY <1>2, <1>4 DEF IInv, Pool, JobState
<1>7. OwnInv'
  BY <1>2, <1>3 DEF IInv, TypeOK, OwnInv, MainInv, NoOrphan, Live, Queued
<1>8. MainInv'
  BY <1>2, <1>3 DEF IInv, TypeOK, MainInv, OwnInv, NoOrphan, Queued
<1>9. AbortInv'  BY <1>2 DEF IInv, AbortInv, Queued
<1>10. PostedInv'  BY <1>1, <1>2 DEF IInv, PostedInv
<1>11. ConserveInv'  BY <1>2, <1>4 DEF IInv, ConserveInv, WorkConserving
<1> QED BY <1>5, <1>6, <1>7, <1>8, <1>9, <1>10, <1>11 DEF IInv

\* Server::Complete after the handler.
LEMMA HandlerReturnStep ==
  ASSUME IInv, HandlerReturn
  PROVE  IInv'
<1> USE SizeAssumption, TaskAssumption
<1>1. /\ Update(tasks, threads, job)
      /\ work' = [r \in Owner |-> IF work[r] = cur THEN NoTask ELSE work[r]]
      /\ cur' = NoTask /\ pc' = "loop"
      /\ UNCHANGED <<aborted, handler, posted, joining>>
      /\ pc = "handler" /\ joining = NoTask
  BY DEF HandlerReturn, Expire
<1> DEFINE new == threads' \ threads
<1>2. /\ Pool(tasks', threads', job')
      /\ Range(tasks') \cup threads' = Range(tasks) \cup threads
      /\ Range(tasks') \subseteq Range(tasks)
      /\ threads \subseteq threads'
      /\ \A x \in Task : x \in new => x \in Range(tasks) /\ job'[x] = "running"
      /\ \A x \in Task : x \notin new => job'[x] = job[x]
      /\ (tasks # <<>> /\ Tail(tasks) # <<>> => Cardinality(threads) >= Size - 1)
              => (tasks' # <<>> => Cardinality(threads') = Size)
  BY <1>1, UpdateFacts DEF IInv
<1>3. TypeOK'  BY <1>1, <1>2 DEF IInv, TypeOK, Pool, JobState
<1>4. OwnInv'
  BY <1>1, <1>2 DEF IInv, TypeOK, OwnInv, MainInv, NoOrphan, Live, Queued
<1>5. MainInv'
  <2>1. Range(tasks') \subseteq Task /\ threads' \subseteq Task
    BY <1>2, RangeOfSeq DEF Pool
  <2> QED BY <1>1, <2>1 DEF IInv, TypeOK, MainInv, Queued
<1>6. AbortInv'
  BY <1>1, <1>2 DEF IInv, TypeOK, AbortInv, Queued
<1>7. PostedInv'  BY <1>1, <1>2 DEF IInv, TypeOK, PostedInv, Pool
<1>8. ConserveInv'  BY <1>1, <1>2 DEF IInv, ConserveInv, WorkConserving
<1> QED BY <1>2, <1>3, <1>4, <1>5, <1>6, <1>7, <1>8 DEF IInv

\* Server::Complete of an aborted task.
LEMMA CompleteAbortedStep ==
  ASSUME IInv, NEW p \in Task, CompleteAborted(p)
  PROVE  IInv'
<1> USE SizeAssumption, TaskAssumption
<1> DEFINE ts == threads \ {p}
<1>1. /\ posted' \in Seq(Task) /\ IsInjective(posted')
      /\ Range(posted) = Range(posted') \cup {p} /\ p \notin Range(posted')
  BY PopFacts DEF CompleteAborted, IInv, TypeOK, PostedInv
<1>2. /\ Update(tasks, ts, job)
      /\ work' = [r \in Owner |-> IF work[r] = p THEN NoTask ELSE work[r]]
      /\ UNCHANGED <<aborted, handler, pc, cur, joining>>
      /\ pc = "loop" /\ joining = NoTask /\ job[p] = "exited" /\ p \in aborted
  BY DEF CompleteAborted, Expire
<1>3. p \in threads /\ p \notin Range(tasks)
  BY <1>1 DEF IInv, PostedInv, Pool
<1>4. /\ IsFiniteSet(ts) /\ Cardinality(ts) = Cardinality(threads) - 1
      /\ Cardinality(threads) \in Nat
  BY <1>3, FS_RemoveElement, FS_CardinalityType DEF IInv, Pool
<1>5. Pool(tasks, ts, job)  BY <1>2, <1>4 DEF IInv, Pool, JobState
<1> DEFINE new == threads' \ ts
<1>6. /\ Pool(tasks', threads', job')
      /\ Range(tasks') \cup threads' = Range(tasks) \cup ts
      /\ Range(tasks') \subseteq Range(tasks)
      /\ ts \subseteq threads'
      /\ \A x \in Task : x \in new => x \in Range(tasks) /\ job'[x] = "running"
      /\ \A x \in Task : x \notin new => job'[x] = job[x]
      /\ (tasks # <<>> /\ Tail(tasks) # <<>> => Cardinality(ts) >= Size - 1)
              => (tasks' # <<>> => Cardinality(threads') = Size)
  <2> HIDE DEF ts
  <2> QED BY <1>2, <1>5, UpdateFacts
<1>7. p \notin threads'  BY <1>3, <1>6
<1>8. TypeOK'  BY <1>1, <1>2, <1>6 DEF IInv, TypeOK, Pool, JobState
<1>9. OwnInv'
  BY <1>2, <1>3, <1>6 DEF IInv, TypeOK, OwnInv, NoOrphan, Live, Queued
<1>10. MainInv'
  BY <1>2, <1>6 DEF IInv, TypeOK, MainInv, Queued
<1>11. AbortInv'
  BY <1>2, <1>6 DEF IInv, TypeOK, AbortInv, Queued
<1>12. PostedInv'  BY <1>1, <1>2, <1>3, <1>6, <1>7 DEF IInv, TypeOK, PostedInv, Pool
<1>13. ConserveInv'  BY <1>2, <1>4, <1>6 DEF IInv, ConserveInv, WorkConserving
<1> QED BY <1>6, <1>8, <1>9, <1>10, <1>11, <1>12, <1>13 DEF IInv

\* The steps of the workers.
LEMMA DoneStep ==
  ASSUME IInv, NEW p \in Task, Done(p)
  PROVE  IInv'
<1>1. /\ job[p] = "running" /\ job' = [job EXCEPT ![p] = "posted"]
      /\ posted' = Append(posted, p)
      /\ UNCHANGED <<tasks, threads, aborted, handler, work, pc, cur, joining>>
  BY DEF Done
<1>2. p \in threads  BY <1>1 DEF IInv, Pool
<1>3. p \notin Range(posted)  BY <1>1 DEF IInv, PostedInv
<1>4. /\ posted' \in Seq(Task) /\ IsInjective(posted')
      /\ Range(posted') = Range(posted) \cup {p}
  BY <1>1, <1>3, PushFacts DEF IInv, TypeOK, PostedInv
<1>5. TypeOK'  BY <1>1, <1>4 DEF IInv, TypeOK
<1>6. Pool(tasks, threads, job)'  BY <1>1, <1>2 DEF IInv, Pool, JobState
<1>7. OwnInv'  BY <1>1 DEF IInv, OwnInv, NoOrphan, Live, Queued
<1>8. MainInv'  BY <1>1 DEF IInv, MainInv, Queued
<1>9. AbortInv'  BY <1>1 DEF IInv, TypeOK, AbortInv, Queued
<1>10. PostedInv'  BY <1>1, <1>2, <1>4 DEF IInv, TypeOK, PostedInv
<1>11. ConserveInv'  BY <1>1 DEF IInv, ConserveInv, WorkConserving
<1> QED BY <1>5, <1>6, <1>7, <1>8, <1>9, <1>10, <1>11 DEF IInv

\* The end of a worker keeps the invariant.
LEMMA ExitStep ==
  ASSUME IInv, NEW p \in Task, Exit(p)
  PROVE  IInv'
<1>1. /\ job[p] = "posted" /\ job' = [job EXCEPT ![p] = "exited"]
      /\ UNCHANGED <<tasks, threads, aborted, handler, posted, work, pc, cur, joining>>
  BY DEF Exit
<1>2. TypeOK'  BY <1>1 DEF IInv, TypeOK
<1>3. Pool(tasks, threads, job)'  BY <1>1 DEF IInv, Pool, JobState
<1>4. OwnInv'  BY <1>1 DEF IInv, OwnInv, NoOrphan, Live, Queued
<1>5. MainInv'  BY <1>1 DEF IInv, MainInv, Queued
<1>6. AbortInv'  BY <1>1 DEF IInv, TypeOK, AbortInv, Queued
<1>7. PostedInv'  BY <1>1 DEF IInv, TypeOK, PostedInv
<1>8. ConserveInv'  BY <1>1 DEF IInv, ConserveInv, WorkConserving
<1> QED BY <1>2, <1>3, <1>4, <1>5, <1>6, <1>7, <1>8 DEF IInv

\* The steps of the main thread that start or free nothing in the pool.
LEMMA MainStep ==
  ASSUME IInv,
         \/ \E o \in Owner : AbortRunning(o)
         \/ Joined
         \/ AbortAll
         \/ \E p \in Task : AbortNext(p)
         \/ Stopped
  PROVE  IInv'
<1> USE TaskAssumption, SizeAssumption
<1>1. CASE \E o \in Owner : AbortRunning(o)
  <2>1. PICK o \in Owner : AbortRunning(o)  BY <1>1
  <2>2. /\ pc \in {"loop", "handler"} /\ joining = NoTask /\ work[o] \in threads
        /\ aborted' = aborted \cup {work[o]} /\ joining' = work[o]
        /\ UNCHANGED <<tasks, threads, handler, job, posted, work, pc, cur>>
    BY <2>1 DEF AbortRunning, MainRuns
  <2>3. TypeOK'  BY <2>2 DEF IInv, TypeOK, Pool
  <2>4. Pool(tasks, threads, job)'  BY <2>2 DEF IInv, Pool
  <2>5. OwnInv'  BY <2>2 DEF IInv, OwnInv, NoOrphan, Live, Queued
  <2>6. MainInv'  BY <2>2 DEF IInv, MainInv, Queued
  <2>7. AbortInv'  BY <2>2 DEF IInv, TypeOK, AbortInv, Queued, Pool
  <2>8. PostedInv' /\ ConserveInv'
    BY <2>2 DEF IInv, PostedInv, ConserveInv, WorkConserving
  <2> QED BY <2>3, <2>4, <2>5, <2>6, <2>7, <2>8 DEF IInv
<1>2. CASE Joined
  <2>1. /\ joining # NoTask /\ job[joining] = "exited" /\ joining' = NoTask
        /\ UNCHANGED <<tasks, threads, aborted, handler, job, posted, work, pc, cur>>
    BY <1>2 DEF Joined
  <2>2. TypeOK' /\ Pool(tasks, threads, job)'  BY <2>1 DEF IInv, TypeOK, Pool
  <2>3. OwnInv'  BY <2>1 DEF IInv, OwnInv, NoOrphan, Live, Queued
  <2>4. MainInv'  BY <2>1 DEF IInv, MainInv, Queued
  <2>5. AbortInv'  BY <2>1 DEF IInv, AbortInv, Queued
  <2>6. PostedInv' /\ ConserveInv'
    BY <2>1 DEF IInv, PostedInv, ConserveInv, WorkConserving
  <2> QED BY <2>2, <2>3, <2>4, <2>5, <2>6 DEF IInv
<1>3. CASE AbortAll
  <2>1. /\ pc = "loop" /\ joining = NoTask /\ tasks' = <<>> /\ pc' = "shutdown"
        /\ work' = [o \in Owner |-> IF work[o] \in threads THEN work[o] ELSE NoTask]
        /\ UNCHANGED <<threads, aborted, handler, job, posted, cur, joining>>
    BY <1>3 DEF AbortAll
  <2>2. tasks' \in Seq(Task) /\ IsInjective(tasks') /\ Range(tasks') = {}
    BY <2>1 DEF IsInjective, Range
  <2>3. TypeOK'  BY <2>1, <2>2 DEF IInv, TypeOK
  <2>4. Pool(tasks, threads, job)'  BY <2>1, <2>2 DEF IInv, Pool
  <2>5. OwnInv'
    BY <2>1, <2>2 DEF IInv, TypeOK, OwnInv, NoOrphan, Live, Queued
  <2>6. MainInv'  BY <2>1, <2>2 DEF IInv, MainInv, Queued
  <2>7. AbortInv'  BY <2>1, <2>2 DEF IInv, AbortInv, Queued
  <2>8. PostedInv'  BY <2>1 DEF IInv, PostedInv
  <2>9. ConserveInv'  BY <2>1 DEF ConserveInv, WorkConserving
  <2> QED BY <2>3, <2>4, <2>5, <2>6, <2>7, <2>8, <2>9 DEF IInv
<1>4. CASE \E p \in Task : AbortNext(p)
  <2>1. PICK p \in Task : AbortNext(p)  BY <1>4
  <2>2. /\ pc = "shutdown" /\ joining = NoTask /\ p \in threads
        /\ aborted' = aborted \cup {p} /\ joining' = p
        /\ UNCHANGED <<tasks, threads, handler, job, posted, work, pc, cur>>
    BY <2>1 DEF AbortNext
  <2>3. TypeOK' /\ Pool(tasks, threads, job)'  BY <2>2 DEF IInv, TypeOK, Pool
  <2>4. OwnInv'  BY <2>2 DEF IInv, OwnInv, NoOrphan, Live, Queued
  <2>5. MainInv'  BY <2>2 DEF IInv, MainInv, Queued
  <2>6. AbortInv'  BY <2>2 DEF IInv, TypeOK, AbortInv, Queued, Pool
  <2>7. PostedInv' /\ ConserveInv'
    BY <2>2 DEF IInv, PostedInv, ConserveInv, WorkConserving
  <2> QED BY <2>3, <2>4, <2>5, <2>6, <2>7 DEF IInv
<1>5. CASE Stopped
  <2>1. /\ pc = "shutdown" /\ joining = NoTask /\ threads \subseteq aborted /\ pc' = "stopped"
        /\ UNCHANGED <<tasks, threads, aborted, handler, job, posted, work, cur, joining>>
    BY <1>5 DEF Stopped, serverVars
  <2>2. TypeOK' /\ Pool(tasks, threads, job)'  BY <2>1 DEF IInv, TypeOK, Pool
  <2>3. OwnInv'  BY <2>1 DEF IInv, OwnInv, NoOrphan, Live, Queued
  <2>4. MainInv'  BY <2>1 DEF IInv, MainInv, Queued
  <2>5. AbortInv'  BY <2>1 DEF IInv, AbortInv, Queued
  <2>6. PostedInv' /\ ConserveInv'
    BY <2>1 DEF IInv, PostedInv, ConserveInv, WorkConserving
  <2> QED BY <2>2, <2>3, <2>4, <2>5, <2>6 DEF IInv
<1> QED BY <1>1, <1>2, <1>3, <1>4, <1>5

-----------------------------------------------------------------------------
\* IInv is inductive: it holds of the server in every reachable state.
THEOREM Invariance == Spec => []IInv
<1>1. Init => IInv
  <2> SUFFICES ASSUME Init PROVE IInv  OBVIOUS
  <2>1. /\ tasks = <<>> /\ posted = <<>> /\ threads = {} /\ aborted = {}
        /\ handler = [p \in Task |-> NoOwner] /\ job = [p \in Task |-> "none"]
        /\ work = [o \in Owner |-> NoTask] /\ pc = "loop" /\ cur = NoTask
        /\ joining = NoTask
    BY DEF Init
  <2>2. /\ Range(tasks) = {} /\ Range(posted) = {}
        /\ IsInjective(tasks) /\ IsInjective(posted)
        /\ tasks \in Seq(Task) /\ posted \in Seq(Task)
    BY <2>1 DEF Range, IsInjective
  <2>3. TypeOK  BY <2>1, <2>2 DEF TypeOK
  <2>4. Pool(tasks, threads, job)
    BY <2>1, <2>2, FS_EmptySet, SizeAssumption DEF Pool, JobState
  <2>5. OwnInv  BY <2>1, <2>2 DEF OwnInv, NoOrphan, Live, Queued
  <2>6. MainInv  BY <2>1, <2>2 DEF MainInv, Queued
  <2>7. AbortInv /\ PostedInv /\ ConserveInv
    BY <2>1, <2>2 DEF AbortInv, PostedInv, ConserveInv, WorkConserving, Queued
  <2> QED BY <2>3, <2>4, <2>5, <2>6, <2>7 DEF IInv
<1>2. IInv /\ [Next]_vars => IInv'
  <2> SUFFICES ASSUME IInv, [Next]_vars PROVE IInv'  OBVIOUS
  <2>1. CASE \E o \in Owner, p \in Task : Run(o, p)  BY <2>1, RunStep
  <2>2. CASE \E o \in Owner : AbortQueued(o)  BY <2>2, AbortQueuedStep
  <2>3. CASE \E p \in Task : Complete(p)  BY <2>3, CompleteStep
  <2>4. CASE \E p \in Task : CompleteAborted(p)  BY <2>4, CompleteAbortedStep
  <2>5. CASE HandlerReturn  BY <2>5, HandlerReturnStep
  <2>6. CASE \E p \in Task : Done(p)  BY <2>6, DoneStep
  <2>7. CASE \E p \in Task : Exit(p)  BY <2>7, ExitStep
  <2>8. CASE \/ \E o \in Owner : AbortRunning(o)
             \/ Joined
             \/ AbortAll
             \/ \E p \in Task : AbortNext(p)
             \/ Stopped
    BY <2>8, MainStep
  <2>9. CASE UNCHANGED vars
    BY <2>9 DEF vars, IInv, TypeOK, Pool, OwnInv, NoOrphan, MainInv, AbortInv,
                PostedInv, ConserveInv, WorkConserving, Live, Queued
  <2> QED BY <2>1, <2>2, <2>3, <2>4, <2>5, <2>6, <2>7, <2>8, <2>9
          DEF Next, Main, Worker
<1> QED BY <1>1, <1>2, PTL DEF Spec

\* TypeOK of every reachable state.
THEOREM TypeCorrect == Spec => []TypeOK
<1>1. IInv => TypeOK  BY DEF IInv
<1> QED BY <1>1, Invariance, PTL

\* The assertions of Server::Update and Server::Complete never fire.
THEOREM AssertsHold == Spec => []Asserts
<1>1. IInv => Asserts  BY DEF IInv, Asserts, Pool, AbortInv, PostedInv
<1> QED BY <1>1, Invariance, PTL

\* No task waits while a slot of the pool is free.
THEOREM PoolConservesWork == Spec => []WorkConserving
<1>1. IInv => WorkConserving  BY DEF IInv, ConserveInv
<1> QED BY <1>1, Invariance, PTL

\* Every task can be aborted by the owner it would call back.
THEOREM NoTaskIsOrphan == Spec => []NoOrphan
<1>1. IInv => NoOrphan  BY DEF IInv, OwnInv
<1> QED BY <1>1, Invariance, PTL

\* When Abort has returned, the aborted task does not run any more.
THEOREM AbortIsSynchronous == Spec => []AbortWaits
<1>1. IInv => AbortWaits
  BY DEF IInv, TypeOK, AbortWaits, AbortInv, Pool
<1> QED BY <1>1, Invariance, PTL

\* No task runs once SystemImpl::Stop has aborted them all.
THEOREM ShutdownIsQuiet == Spec => []ShutdownQuiet
<1>1. IInv => ShutdownQuiet
  BY TaskAssumption DEF IInv, ShutdownQuiet, MainInv, AbortInv, Pool
<1> QED BY <1>1, Invariance, PTL

-----------------------------------------------------------------------------
(* The server keeps the promise of AsyncWork.                              *)

\* Phase without CASE, now and after the step.
LEMMA PhaseValue ==
  ASSUME NEW o \in Owner
  PROVE  /\ work[o] \in threads /\ work[o] \notin aborted =>
              Phase(o) = IF job[work[o]] = "running" THEN "running" ELSE "returned"
         /\ work[o] \in threads /\ work[o] \in aborted =>
              Phase(o) = IF job[work[o]] = "running" THEN "aborting" ELSE "drained"
         /\ work[o] \notin threads =>
              Phase(o) = IF work[o] \in Queued THEN "queued" ELSE "idle"
BY DEF Phase

\* The phase of a request after a step is that of the pool after the step.
LEMMA PhaseValueNext ==
  ASSUME NEW o \in Owner
  PROVE  /\ work'[o] \in threads' /\ work'[o] \notin aborted' =>
              Phase(o)' = IF job'[work'[o]] = "running" THEN "running" ELSE "returned"
         /\ work'[o] \in threads' /\ work'[o] \in aborted' =>
              Phase(o)' = IF job'[work'[o]] = "running" THEN "aborting" ELSE "drained"
         /\ work'[o] \notin threads' =>
              Phase(o)' = IF work'[o] \in Queued' THEN "queued" ELSE "idle"
BY DEF Phase

\* What Promise!Step demands of a step, one owner at a time.
Moved(o) == /\ Phase(o)' # Phase(o) => <<Phase(o), Phase(o)'>> \in Promise!Moves
            /\ Phase(o) = "returned" /\ Phase(o)' = "idle" => deliveringBar' = o

\* The handler entered is that of the owner whose request was delivered.
Entered == \/ deliveringBar' \in {deliveringBar, NoOwner}
           \/ \E o \in Owner : /\ deliveringBar' = o
                               /\ Phase(o) = "returned" /\ Phase(o)' = "idle"

\* Owners whose task, if any, the step leaves where it is.
LEMMA Unmoved ==
  ASSUME NEW o \in Owner, work'[o] = work[o],
         work[o] \in threads' <=> work[o] \in threads,
         work[o] \in Queued' <=> work[o] \in Queued,
         work[o] \in aborted' <=> work[o] \in aborted,
         work[o] \in threads => (job'[work[o]] = "running" <=> job[work[o]] = "running")
  PROVE  Moved(o)
<1>1. Phase(o)' = Phase(o)
  BY PhaseValue, PhaseValueNext
<1> QED BY <1>1 DEF Moved, Phase

\* Starting a request is a step of the abstract work.
LEMMA RunMoves ==
  ASSUME IInv, NEW o \in Owner, NEW p \in Task, Run(o, p)
  PROVE  (\A r \in Owner : Moved(r)) /\ Entered
<1> DEFINE q == Append(tasks, p)
           jb == [job EXCEPT ![p] = "none"]
<1>1. /\ ~(work[o] \in threads \/ work[o] \in Queued)
      /\ p \notin Range(tasks) /\ p \notin threads /\ p # cur /\ p \notin Live
      /\ work' = [work EXCEPT ![o] = p] /\ handler' = [handler EXCEPT ![p] = o]
      /\ aborted' = aborted \ {p} /\ cur' = cur
  BY TaskAssumption DEF Run, Live, Queued, Busy, Has, IInv, TypeOK
<1>2. /\ q \in Seq(Task) /\ q # <<>> /\ Range(q) = Range(tasks) \cup {p} /\ IsInjective(q)
  BY <1>1, PushFacts DEF IInv, TypeOK, Pool
<1>3. Pool(q, threads, jb)
  BY <1>1, <1>2 DEF IInv, Pool, JobState
<1>4. /\ Range(tasks') \cup threads' = Range(tasks) \cup threads \cup {p}
      /\ Range(tasks') \cap threads' = {}
      /\ threads \subseteq threads' /\ threads' \subseteq Task
      /\ \A x \in threads' : x \notin threads =>
            x \in Range(tasks) \cup {p} /\ job'[x] = "running"
      /\ \A x \in threads : job'[x] = jb[x]
  <2>1. Update(q, threads, jb)  BY DEF Run
  <2> HIDE DEF q, jb
  <2>2. /\ Pool(tasks', threads', job')
        /\ Range(tasks') \cup threads' = Range(q) \cup threads
        /\ threads \subseteq threads'
        /\ \A x \in Task : x \in threads' \ threads => x \in Range(q) /\ job'[x] = "running"
        /\ \A x \in Task : x \notin threads' \ threads => job'[x] = jb[x]
    BY <2>1, <1>3, UpdateFacts
  <2> QED BY <2>2, <1>2 DEF Pool
<1>5. \A x \in threads : job'[x] = job[x]
  BY <1>1, <1>4 DEF IInv, TypeOK
<1>6. ASSUME NEW r \in Owner PROVE Moved(r)
  <2>1. CASE r = o
    <3>1. work'[o] = p /\ p \notin aborted'  BY <1>1 DEF IInv, TypeOK
    <3>2. Phase(o) = "idle"  BY <1>1, PhaseValue
    <3>3. Phase(o)' = IF p \in threads' THEN "running" ELSE "queued"
      BY <3>1, <1>1, <1>4, PhaseValueNext DEF Queued
    <3> QED BY <2>1, <3>2, <3>3 DEF Moved, Promise!Moves
  <2>2. CASE r # o
    <3>1. work'[r] = work[r] /\ work[r] # p
      BY <2>2, <1>1, TaskAssumption DEF IInv, TypeOK, OwnInv
    <3>2. CASE work[r] \in Range(tasks) /\ work[r] \in threads'
      <4>1. work[r] \notin threads /\ work[r] \notin aborted'
        BY <3>2, <1>1 DEF IInv, Pool, AbortInv, Queued
      <4>2. Phase(r) = "queued"  BY <3>2, <4>1, PhaseValue DEF Queued
      <4>3. Phase(r)' = "running"  BY <3>1, <3>2, <4>1, <1>4, PhaseValueNext
      <4> QED BY <4>2, <4>3 DEF Moved, Promise!Moves
    <3>3. CASE ~(work[r] \in Range(tasks) /\ work[r] \in threads')
      <4>1. work[r] \in threads' <=> work[r] \in threads  BY <3>1, <3>3, <1>4
      <4>2. work[r] \in Queued' <=> work[r] \in Queued
        BY <3>1, <3>3, <1>1, <1>4 DEF Queued, IInv, Pool
      <4> QED BY <3>1, <4>1, <4>2, <1>1, <1>5, Unmoved
    <3> QED BY <3>2, <3>3
  <2> QED BY <2>1, <2>2
<1>7. Entered
  BY <1>1 DEF Entered, deliveringBar, IInv, TypeOK
<1> QED BY <1>6, <1>7

\* Aborting a queued request is a step of the abstract work.
LEMMA AbortQueuedMoves ==
  ASSUME IInv, NEW o \in Owner, AbortQueued(o)
  PROVE  (\A r \in Owner : Moved(r)) /\ Entered
<1>1. PICK i \in DOMAIN tasks : tasks[i] = work[o] /\ tasks' = RemoveAt(tasks, i)
  BY DEF AbortQueued
<1>2. Queued' = Queued \ {work[o]} /\ work[o] \in Queued
  <2>1. tasks \in Seq(Task) /\ IsInjective(tasks)  BY DEF IInv, Pool
  <2>2. work[o] \in Range(tasks)  BY <1>1 DEF Range
  <2> QED BY <1>1, <2>1, <2>2, RemoveAtFacts DEF Queued
<1>3. /\ work' = [r \in Owner |-> IF work[r] = work[o] THEN NoTask ELSE work[r]]
      /\ UNCHANGED <<threads, aborted, handler, job, cur>>
  BY DEF AbortQueued, Expire
<1>4. work[o] \in Task /\ work[o] \notin threads /\ NoTask \notin threads
  BY <1>2, TaskAssumption, RangeOfSeq DEF IInv, Pool, Queued, TypeOK
<1>5. ASSUME NEW r \in Owner PROVE Moved(r)
  <2>1. CASE work[r] = work[o]
    <3>1. work'[r] = NoTask /\ NoTask \notin Queued'
      BY <2>1, <1>2, <1>3, TaskAssumption, RangeOfSeq DEF IInv, Pool, Queued
    <3>2. Phase(r) = "queued" /\ Phase(r)' = "idle"
      BY <2>1, <3>1, <1>2, <1>3, <1>4, PhaseValue, PhaseValueNext
    <3> QED BY <3>2 DEF Moved, Promise!Moves
  <2>2. CASE work[r] # work[o]
    BY <2>2, <1>2, <1>3, Unmoved
  <2> QED BY <2>1, <2>2
<1>6. Entered  BY <1>3 DEF Entered, deliveringBar
<1> QED BY <1>5, <1>6

\* Running a completion is a step of the abstract work.
LEMMA CompleteMoves ==
  ASSUME IInv, NEW p \in Task, Complete(p)
  PROVE  (\A r \in Owner : Moved(r)) /\ Entered
<1>1. /\ threads' = threads \ {p} /\ cur' = p /\ p \notin aborted /\ job[p] = "exited"
      /\ UNCHANGED <<tasks, aborted, handler, job, work>>
  BY DEF Complete
<1>2. p \in threads /\ p \notin Queued
  <2>1. p \in Range(posted)
    BY PopFacts DEF Complete, IInv, TypeOK, PostedInv
  <2> QED BY <2>1 DEF IInv, PostedInv, Pool, Queued
<1>3. PICK o \in Owner : o = handler[p] /\ work[o] = p
  BY <1>2 DEF IInv, OwnInv, NoOrphan
<1>4. \A r \in Owner : work[r] = p => r = o
  BY <1>3, TaskAssumption DEF IInv, OwnInv
<1>5. Phase(o) = "returned" /\ Phase(o)' = "idle" /\ deliveringBar' = o
  BY <1>1, <1>2, <1>3, TaskAssumption, PhaseValue, PhaseValueNext DEF Queued, deliveringBar
<1>6. ASSUME NEW r \in Owner PROVE Moved(r)
  <2>1. CASE r = o
    BY <2>1, <1>5 DEF Moved, Promise!Moves
  <2>2. CASE r # o
    BY <2>2, <1>1, <1>4, Unmoved DEF Queued
  <2> QED BY <2>1, <2>2
<1>7. Entered  BY <1>5 DEF Entered
<1> QED BY <1>6, <1>7

\* Starting the head of the queue moves its owner from "queued" to "running".
LEMMA UpdateMoves ==
  ASSUME IInv, NEW ts \in SUBSET threads, Pool(tasks, ts, job), Update(tasks, ts, job),
         NEW x \in Task \cup {NoTask}, x \notin ts,
         work' = [r \in Owner |-> IF work[r] = x THEN NoTask ELSE work[r]],
         aborted' = aborted, threads \ ts \subseteq {x},
         NEW r \in Owner, work[r] # x
  PROVE  Moved(r)
<1>1. /\ Pool(tasks', threads', job')
      /\ Range(tasks') \cup threads' = Range(tasks) \cup ts
      /\ ts \subseteq threads'
      /\ \A y \in Task : y \in threads' \ ts => y \in Range(tasks) /\ job'[y] = "running"
      /\ \A y \in Task : y \notin threads' \ ts => job'[y] = job[y]
  BY UpdateFacts
<1>2. work'[r] = work[r]  OBVIOUS
<1>3. CASE work[r] \in Range(tasks) /\ work[r] \in threads'
  <2>1. work[r] \notin ts /\ work[r] \notin threads /\ work[r] \notin aborted'
    BY <1>3 DEF IInv, Pool, AbortInv, Queued
  <2>2. Phase(r) = "queued"  BY <1>3, <2>1, PhaseValue DEF Queued
  <2>3. Phase(r)' = "running"
    BY <1>1, <1>2, <1>3, <2>1, PhaseValueNext DEF Pool
  <2> QED BY <2>2, <2>3 DEF Moved, Promise!Moves
<1>4. CASE ~(work[r] \in Range(tasks) /\ work[r] \in threads')
  <2>1. work[r] \in threads' <=> work[r] \in threads  BY <1>1, <1>4 DEF Pool
  <2>2. work[r] \in Queued' <=> work[r] \in Queued
    BY <1>1, <1>4 DEF Queued, Pool
  <2>3. work[r] \in threads => job'[work[r]] = job[work[r]]
    BY <1>1 DEF Pool
  <2> QED BY <1>2, <2>1, <2>2, <2>3, Unmoved
<1> QED BY <1>3, <1>4

\* The return of a handler is a step of the abstract work.
LEMMA HandlerReturnMoves ==
  ASSUME IInv, HandlerReturn
  PROVE  (\A r \in Owner : Moved(r)) /\ Entered
<1>1. /\ Update(tasks, threads, job) /\ aborted' = aborted /\ cur' = NoTask
      /\ work' = [r \in Owner |-> IF work[r] = cur THEN NoTask ELSE work[r]]
      /\ cur \in Task \cup {NoTask} /\ cur \notin Queued \cup threads
      /\ Pool(tasks, threads, job)
  BY DEF HandlerReturn, Expire, IInv, TypeOK, MainInv
<1>2. Range(tasks') \cup threads' = Range(tasks) \cup threads
  BY <1>1, UpdateFacts
<1>3. Range(tasks) \subseteq Task /\ threads \subseteq Task
  BY <1>1, RangeOfSeq DEF Pool
<1>4. ASSUME NEW r \in Owner PROVE Moved(r)
  <2>1. CASE work[r] = cur
    <3>1. work'[r] = NoTask  BY <2>1, <1>1
    <3>2. NoTask \notin Queued' \cup threads'
      BY <1>2, <1>3, TaskAssumption DEF Queued
    <3>3. Phase(r) = "idle" /\ Phase(r)' = "idle"
      BY <2>1, <1>1, <3>1, <3>2, PhaseValue, PhaseValueNext
    <3> QED BY <3>3 DEF Moved
  <2>2. CASE work[r] # cur
    BY <2>2, <1>1, UpdateMoves
  <2> QED BY <2>1, <2>2
<1>5. Entered  BY <1>1 DEF Entered, deliveringBar
<1> QED BY <1>4, <1>5

\* Dropping the completion of an aborted request is a step of the abstract work.
LEMMA CompleteAbortedMoves ==
  ASSUME IInv, NEW p \in Task, CompleteAborted(p)
  PROVE  (\A r \in Owner : Moved(r)) /\ Entered
<1> DEFINE ts == threads \ {p}
<1>1. /\ Update(tasks, ts, job) /\ aborted' = aborted /\ cur' = cur /\ handler' = handler
      /\ work' = [r \in Owner |-> IF work[r] = p THEN NoTask ELSE work[r]]
      /\ job[p] = "exited" /\ p \in aborted
  BY DEF CompleteAborted, Expire
<1>2. p \in threads /\ p \notin Queued
  <2>1. p \in Range(posted)
    BY PopFacts DEF CompleteAborted, IInv, TypeOK, PostedInv
  <2> QED BY <2>1 DEF IInv, PostedInv, Pool, Queued
<1>3. Pool(tasks, ts, job)
  <2>1. IsFiniteSet(ts) /\ Cardinality(ts) = Cardinality(threads) - 1
        /\ Cardinality(threads) \in Nat
    BY <1>2, FS_RemoveElement, FS_CardinalityType DEF IInv, Pool
  <2> QED BY <2>1, <1>1, SizeAssumption DEF IInv, Pool, JobState
<1> HIDE DEF ts
<1>4. Range(tasks') \cup threads' = Range(tasks) \cup ts
  BY <1>1, <1>3, UpdateFacts
<1>5. Range(tasks) \subseteq Task /\ ts \subseteq Task
  BY <1>3, RangeOfSeq DEF Pool
<1>6. ASSUME NEW r \in Owner PROVE Moved(r)
  <2>1. CASE work[r] = p
    <3>1. work'[r] = NoTask  BY <2>1, <1>1
    <3>2. NoTask \notin Queued' \cup threads'
      BY <1>4, <1>5, TaskAssumption DEF Queued
    <3>3. Phase(r) = "drained" /\ Phase(r)' = "idle"
      BY <2>1, <1>1, <1>2, <3>1, <3>2, PhaseValue, PhaseValueNext
    <3> QED BY <3>3 DEF Moved, Promise!Moves
  <2>2. CASE work[r] # p
    BY <2>2, <1>1, <1>3, UpdateMoves DEF ts
  <2> QED BY <2>1, <2>2
<1>7. Entered  BY <1>1 DEF Entered, deliveringBar
<1> QED BY <1>6, <1>7

\* A task that is aborted, or whose worker returns, moves its owner.
LEMMA ThreadMoves ==
  ASSUME IInv,
         \/ \E o \in Owner : AbortRunning(o)
         \/ \E p \in Task : AbortNext(p)
         \/ \E p \in Task : Done(p)
  PROVE  (\A r \in Owner : Moved(r)) /\ Entered
<1>1. CASE \/ \E o \in Owner : AbortRunning(o)
           \/ \E p \in Task : AbortNext(p)
  <2>1. PICK p \in threads : /\ aborted' = aborted \cup {p}
                             /\ UNCHANGED <<tasks, threads, handler, job, work, cur>>
    BY <1>1 DEF AbortRunning, AbortNext
  <2>2. ASSUME NEW r \in Owner PROVE Moved(r)
    <3>1. CASE work[r] = p /\ p \notin aborted
      <4>1. Phase(r) = IF job[p] = "running" THEN "running" ELSE "returned"
        BY <3>1, <2>1, PhaseValue
      <4>2. Phase(r)' = IF job[p] = "running" THEN "aborting" ELSE "drained"
        BY <3>1, <2>1, PhaseValueNext
      <4> QED BY <4>1, <4>2 DEF Moved, Promise!Moves
    <3>2. CASE ~(work[r] = p /\ p \notin aborted)
      BY <3>2, <2>1, Unmoved DEF Queued
    <3> QED BY <3>1, <3>2
  <2>3. Entered  BY <2>1 DEF Entered, deliveringBar
  <2> QED BY <2>2, <2>3
<1>2. CASE \E p \in Task : Done(p)
  <2>1. PICK p \in Task : /\ job[p] = "running" /\ job' = [job EXCEPT ![p] = "posted"]
                          /\ UNCHANGED <<tasks, threads, aborted, handler, work, cur>>
    BY <1>2 DEF Done
  <2>2. p \in threads /\ job'[p] = "posted" /\ \A x \in threads : x # p => job'[x] = job[x]
    BY <2>1 DEF IInv, Pool, TypeOK
  <2>3. ASSUME NEW r \in Owner PROVE Moved(r)
    <3>1. CASE work[r] = p
      <4>1. Phase(r) = IF p \in aborted THEN "aborting" ELSE "running"
        BY <3>1, <2>1, <2>2, PhaseValue
      <4>2. Phase(r)' = IF p \in aborted THEN "drained" ELSE "returned"
        BY <3>1, <2>1, <2>2, PhaseValueNext
      <4> QED BY <4>1, <4>2 DEF Moved, Promise!Moves
    <3>2. CASE work[r] # p
      BY <3>2, <2>1, <2>2, Unmoved DEF Queued
    <3> QED BY <3>1, <3>2
  <2>4. Entered  BY <2>1 DEF Entered, deliveringBar
  <2> QED BY <2>3, <2>4
<1> QED BY <1>1, <1>2

\* The server implements AsyncWork under the mapping phaseBar, deliveringBar: a
\* request is delivered exactly once unless it is aborted, and then never.
THEOREM KeepsPromise == Spec => PromiseSpec
<1>1. Init => Promise!Init
  <2> SUFFICES ASSUME Init PROVE Promise!Init  OBVIOUS
  <2>1. /\ work = [o \in Owner |-> NoTask] /\ threads = {} /\ Queued = {} /\ cur = NoTask
    BY DEF Init, Queued, Range
  <2>2. \A o \in Owner : Phase(o) = "idle"  BY <2>1, PhaseValue
  <2> QED BY <2>1, <2>2 DEF Promise!Init, phaseBar, deliveringBar
<1>2. IInv /\ [Next]_vars => [Promise!Next]_(Promise!vars)
  <2> SUFFICES ASSUME IInv, [Next]_vars PROVE [Promise!Next]_(Promise!vars)  OBVIOUS
  <2>1. (\A r \in Owner : Moved(r)) /\ Entered => Promise!Next
    <3> SUFFICES ASSUME \A r \in Owner : Moved(r), Entered PROVE Promise!Next  OBVIOUS
    <3>1. phaseBar' \in [Owner -> Promise!Phase]
      BY DEF phaseBar, Phase, Promise!Phase
    <3>2. \A r \in Owner : phaseBar[r] = Phase(r) /\ phaseBar'[r] = Phase(r)'
      BY DEF phaseBar
    <3>3. \A r \in Owner : phaseBar'[r] # phaseBar[r]
                             => <<phaseBar[r], phaseBar'[r]>> \in Promise!Moves
      BY <3>2 DEF Moved
    <3>4. \A r \in Owner : Promise!Delivered(r) => deliveringBar' = r
      BY <3>2 DEF Moved, Promise!Delivered
    <3>5. deliveringBar' \in {deliveringBar, NoOwner} \/ Promise!Delivered(deliveringBar')
      BY <3>2 DEF Entered, Promise!Delivered
    <3> QED BY <3>1, <3>3, <3>4, <3>5 DEF Promise!Next, Promise!Step
  <2>2. CASE \E o \in Owner, p \in Task : Run(o, p)  BY <2>1, <2>2, RunMoves
  <2>3. CASE \E o \in Owner : AbortQueued(o)  BY <2>1, <2>3, AbortQueuedMoves
  <2>4. CASE \E p \in Task : Complete(p)  BY <2>1, <2>4, CompleteMoves
  <2>5. CASE \E p \in Task : CompleteAborted(p)  BY <2>1, <2>5, CompleteAbortedMoves
  <2>6. CASE HandlerReturn  BY <2>1, <2>6, HandlerReturnMoves
  <2>7. CASE \/ \E o \in Owner : AbortRunning(o)
             \/ \E p \in Task : AbortNext(p)
             \/ \E p \in Task : Done(p)
    BY <2>1, <2>7, ThreadMoves
  <2>8. CASE Joined \/ Stopped \/ (\E p \in Task : Exit(p)) \/ UNCHANGED vars
    <3>1. UNCHANGED <<tasks, threads, aborted, handler, work, cur>>
      BY <2>8 DEF Joined, Stopped, Exit, vars, serverVars
    <3>2. \A x \in threads : job'[x] = "running" <=> job[x] = "running"
      BY <2>8 DEF Joined, Stopped, Exit, vars, serverVars, IInv, TypeOK
    <3>3. ASSUME NEW r \in Owner PROVE Moved(r)
      BY <3>1, <3>2, Unmoved DEF Queued
    <3>4. Entered  BY <3>1 DEF Entered, deliveringBar
    <3> QED BY <2>1, <3>3, <3>4
  <2>9. CASE AbortAll
    <3>1. /\ tasks' = <<>> /\ UNCHANGED <<threads, aborted, handler, job, cur>>
          /\ work' = [o \in Owner |-> IF work[o] \in threads THEN work[o] ELSE NoTask]
      BY <2>9 DEF AbortAll
    <3>2. Queued' = {} /\ NoTask \notin threads /\ Queued \cap threads = {}
      BY <3>1, TaskAssumption DEF Queued, Range, IInv, Pool
    <3>3. ASSUME NEW r \in Owner PROVE Moved(r)
      <4>1. CASE work[r] \in threads
        BY <4>1, <3>1, <3>2, Unmoved
      <4>2. CASE work[r] \notin threads
        <5>1. Phase(r) \in {"queued", "idle"}  BY <4>2, PhaseValue
        <5>2. Phase(r)' = "idle"  BY <4>2, <3>1, <3>2, PhaseValueNext
        <5> QED BY <5>1, <5>2 DEF Moved, Promise!Moves
      <4> QED BY <4>1, <4>2
    <3>4. Entered  BY <3>1 DEF Entered, deliveringBar
    <3> QED BY <2>1, <3>3, <3>4
  <2> QED BY <2>2, <2>3, <2>4, <2>5, <2>6, <2>7, <2>8, <2>9 DEF Next, Main, Worker
<1> QED BY <1>1, <1>2, Invariance, PTL DEF Spec, PromiseSpec, Promise!Spec
=============================================================================
