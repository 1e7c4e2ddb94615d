------------------------------ MODULE AsyncTask ------------------------------
(***************************************************************************)
(* async_task::Server and async_task::Work: the pool of worker threads to  *)
(* which the main thread hands hashing, copying and folder scanning.       *)
(*                                                                         *)
(* The main thread runs the handlers of the io_service.  In a handler an   *)
(* owner may Run a task or Abort the one it has; Abort of a running task   *)
(* blocks the main thread in thread::join.  A worker runs the task and     *)
(* posts Server::Complete to the io_service, whose queue is FIFO.          *)
(***************************************************************************)
EXTENDS Naturals, Sequences, FiniteSets, SequencesExt

CONSTANTS Owner,    \* Work objects (one in each Download, one in Share::Manager)
          Task,     \* addresses at which Task objects are allocated
          NoOwner, NoTask,
          Size      \* Server::size_

ASSUME OwnerAssumption == NoOwner \notin Owner
ASSUME TaskAssumption  == NoTask \notin Task
ASSUME SizeAssumption  == Size \in Nat \ {0}

VARIABLES tasks,     \* Server::tasks_, the queue of tasks without a thread
          threads,   \* the keys of Server::threads_
          aborted,   \* the tasks whose aborted_ flag is set
          handler,   \* the owner that Task::handler_ is bound to
          job,       \* where the thread of a task is
          posted,    \* the Complete handlers in the queue of the io_service
          work,      \* Work::pTask_, NoTask once the weak pointer has expired
          pc,        \* what the main thread is doing
          cur,       \* the task whose Complete() is on the stack of the main thread
          joining    \* the task whose thread the main thread waits for in Abort

serverVars == <<tasks, threads, aborted, handler, job, posted>>
mainVars   == <<pc, cur, joining>>
vars == <<tasks, threads, aborted, handler, job, posted, work, pc, cur, joining>>

Queued == Range(tasks)
Live   == Queued \cup threads \cup ({cur} \ {NoTask})

TypeOK == /\ tasks \in Seq(Task)
          /\ threads \in SUBSET Task
          /\ aborted \in SUBSET Task
          /\ handler \in [Task -> Owner \cup {NoOwner}]
          /\ job \in [Task -> {"none", "running", "posted", "exited"}]
          /\ posted \in Seq(Task)
          /\ work \in [Owner -> Task \cup {NoTask}]
          /\ pc \in {"loop", "handler", "shutdown", "stopped"}
          /\ cur \in Task \cup {NoTask}
          /\ joining \in Task \cup {NoTask}

Init == /\ tasks = <<>>
        /\ threads = {}
        /\ aborted = {}
        /\ handler = [p \in Task |-> NoOwner]
        /\ job = [p \in Task |-> "none"]
        /\ posted = <<>>
        /\ work = [o \in Owner |-> NoTask]
        /\ pc = "loop"
        /\ cur = NoTask
        /\ joining = NoTask

-----------------------------------------------------------------------------
\* Operators whose name ends in Fault are not the code: each is a plausible mistake
\* in the definition that follows it, and some property must notice it.

\* Server::Has and Work::Busy
Has(p) == p \in threads \/ p \in Queued
Busy(o) == Has(work[o])

\* The size of the pool is not looked at.
UpdateFault(q, ts, jb) ==
  IF q = <<>>
  THEN tasks' = q /\ threads' = ts /\ job' = jb
  ELSE /\ tasks' = Tail(q)
       /\ threads' = ts \cup {Head(q)}
       /\ job' = [jb EXCEPT ![Head(q)] = "running"]

\* Server::Update: start one thread for the task at the front of queue q, if
\* there is one and the pool, which holds the threads ts, has room.
Update(q, ts, jb) ==
  IF q = <<>> \/ Cardinality(ts) = Size
  THEN /\ tasks' = q
       /\ threads' = ts
       /\ job' = jb
  ELSE /\ tasks' = Tail(q)
       /\ threads' = ts \cup {Head(q)}
       /\ job' = [jb EXCEPT ![Head(q)] = "running"]

\* Code of the owners runs on the main thread only when that thread is in a
\* handler of the io_service and not waiting for a worker.
MainRuns == pc \in {"loop", "handler"} /\ joining = NoTask

\* The last shared_ptr to p is gone: weak pointers to it expire.
Expire(p) == work' = [o \in Owner |-> IF work[o] = p THEN NoTask ELSE work[o]]

\* Work::Run and Work::Start, with the Server::Add they call: a task is
\* allocated at p and queued.  A busy Work throws WorkerIsBusy instead.
Run(o, p) ==
  /\ MainRuns
  /\ ~Busy(o)
  /\ p \notin Live
  /\ work' = [work EXCEPT ![o] = p]
  /\ handler' = [handler EXCEPT ![p] = o]
  /\ aborted' = aborted \ {p}
  /\ Update(Append(tasks, p), threads, [job EXCEPT ![p] = "none"])
  /\ UNCHANGED <<posted, pc, cur, joining>>

\* The flag is set, the thread is not joined.
AbortRunningFault(o) ==
  /\ MainRuns
  /\ work[o] \in threads
  /\ aborted' = aborted \cup {work[o]}
  /\ UNCHANGED <<tasks, threads, handler, job, posted, work, pc, cur, joining>>

\* Work::Abort and Server::Abort of a task that has a thread: set the flag and
\* wait for the thread.
AbortRunning(o) ==
  /\ MainRuns
  /\ work[o] \in threads
  /\ aborted' = aborted \cup {work[o]}
  /\ joining' = work[o]
  /\ UNCHANGED <<tasks, threads, handler, job, posted, work, pc, cur>>

\* Work::Abort and Server::Abort of a queued task: it is erased and freed.
AbortQueued(o) ==
  /\ MainRuns
  /\ work[o] \notin threads
  /\ \E i \in DOMAIN tasks : tasks[i] = work[o] /\ tasks' = RemoveAt(tasks, i)
  /\ Expire(work[o])
  /\ UNCHANGED <<threads, aborted, handler, job, posted, pc, cur, joining>>

\* threads_[p]->join() in Server::Abort returns.
Joined == /\ joining # NoTask
          /\ job[joining] = "exited"
          /\ joining' = NoTask
          /\ UNCHANGED <<tasks, threads, aborted, handler, job, posted, work, pc, cur>>

-----------------------------------------------------------------------------
\* Job::operator() on the thread of p: Task::Run returns, early when it sees
\* the flag, and Server::Done posts the completion.
Done(p) == /\ job[p] = "running"
           /\ job' = [job EXCEPT ![p] = "posted"]
           /\ posted' = Append(posted, p)
           /\ UNCHANGED <<tasks, threads, aborted, handler, work, pc, cur, joining>>

\* The worker waits until the main thread has taken its completion.
ExitFault(p) == /\ job[p] = "posted" /\ p \notin Range(posted)
                /\ job' = [job EXCEPT ![p] = "exited"]
                /\ UNCHANGED <<tasks, threads, aborted, handler, posted, work, pc, cur, joining>>

Exit(p) == /\ job[p] = "posted"
           /\ job' = [job EXCEPT ![p] = "exited"]
           /\ UNCHANGED <<tasks, threads, aborted, handler, posted, work, pc, cur, joining>>

-----------------------------------------------------------------------------
\* The flag is not looked at: the handler of an aborted task is called.
CompleteFault(p) ==
  /\ pc = "loop" /\ joining = NoTask
  /\ posted # <<>> /\ Head(posted) = p
  /\ job[p] = "exited"
  /\ posted' = Tail(posted)
  /\ threads' = threads \ {p}
  /\ pc' = "handler"
  /\ cur' = p
  /\ UNCHANGED <<tasks, aborted, handler, job, work, joining>>

\* Server::Complete of a task that was not aborted, up to the call of the
\* owner's handler.  The Work is not busy any more when the handler runs.
Complete(p) ==
  /\ pc = "loop" /\ joining = NoTask
  /\ posted # <<>> /\ Head(posted) = p
  /\ job[p] = "exited"
  /\ p \notin aborted
  /\ posted' = Tail(posted)
  /\ threads' = threads \ {p}
  /\ pc' = "handler"
  /\ cur' = p
  /\ UNCHANGED <<tasks, aborted, handler, job, work, joining>>

\* No queued task is started.
HandlerReturnFault ==
  /\ pc = "handler" /\ joining = NoTask
  /\ Expire(cur)
  /\ cur' = NoTask
  /\ pc' = "loop"
  /\ UNCHANGED <<serverVars, joining>>

\* The rest of Server::Complete when the handler has returned: the task is
\* freed and a queued one started.
HandlerReturn ==
  /\ pc = "handler" /\ joining = NoTask
  /\ Update(tasks, threads, job)
  /\ Expire(cur)
  /\ cur' = NoTask
  /\ pc' = "loop"
  /\ UNCHANGED <<aborted, handler, posted, joining>>

\* An aborted task gives its slot back, but nobody takes it.
CompleteAbortedFault(p) ==
  /\ pc = "loop" /\ joining = NoTask
  /\ posted # <<>> /\ Head(posted) = p
  /\ job[p] = "exited"
  /\ p \in aborted
  /\ posted' = Tail(posted)
  /\ threads' = threads \ {p}
  /\ Expire(p)
  /\ UNCHANGED <<tasks, aborted, handler, job, pc, cur, joining>>

\* Server::Complete of an aborted task: no handler is called.
CompleteAborted(p) ==
  /\ pc = "loop" /\ joining = NoTask
  /\ posted # <<>> /\ Head(posted) = p
  /\ job[p] = "exited"
  /\ p \in aborted
  /\ posted' = Tail(posted)
  /\ Update(tasks, threads \ {p}, job)
  /\ Expire(p)
  /\ UNCHANGED <<aborted, handler, pc, cur, joining>>

\* SystemImpl::Stop: io_service::stop, then Server::AbortAll, which clears the
\* queue and aborts every running task in turn.
AbortAll ==
  /\ pc = "loop" /\ joining = NoTask
  /\ tasks' = <<>>
  /\ work' = [o \in Owner |-> IF work[o] \in threads THEN work[o] ELSE NoTask]
  /\ pc' = "shutdown"
  /\ UNCHANGED <<threads, aborted, handler, job, posted, cur, joining>>

AbortNext(p) ==
  /\ pc = "shutdown" /\ joining = NoTask
  /\ p \in threads \ aborted
  /\ aborted' = aborted \cup {p}
  /\ joining' = p
  /\ UNCHANGED <<tasks, threads, handler, job, posted, work, pc, cur>>

Stopped ==
  /\ pc = "shutdown" /\ joining = NoTask
  /\ threads \subseteq aborted
  /\ pc' = "stopped"
  /\ UNCHANGED <<serverVars, work, cur, joining>>

-----------------------------------------------------------------------------
Main == \/ \E o \in Owner : \/ \E p \in Task : Run(o, p)
                            \/ AbortRunning(o)
                            \/ AbortQueued(o)
        \/ Joined
        \/ \E p \in Task : Complete(p) \/ CompleteAborted(p)
        \/ HandlerReturn
        \/ AbortAll
        \/ \E p \in Task : AbortNext(p)
        \/ Stopped

Worker(p) == Done(p) \/ Exit(p)

Next == Main \/ \E p \in Task : Worker(p)

Spec == Init /\ [][Next]_vars

\* Task::Run is a loop over a file or a folder, so a worker returns.  join and a
\* handler return when what they wait for has; the io_service takes the handlers
\* of its queue in order, so the first Complete that was posted is taken although
\* other handlers keep coming (strong fairness).  Nothing obliges an owner to Run or Abort.
Fairness == /\ \A p \in Task : WF_vars(Worker(p))
            /\ WF_vars(Joined)
            /\ SF_vars(HandlerReturn)
            /\ SF_vars(\E p \in Task : Complete(p) \/ CompleteAborted(p))
            /\ WF_vars(\E p \in Task : AbortNext(p))
            /\ WF_vars(Stopped)

FairSpec == Spec /\ Fairness

-----------------------------------------------------------------------------
\* The assertions of the code.  Server::Update: the pool never exceeds its size
\* and a queued task is never an aborted one.  Server::Complete: a completion that
\* is in the queue of the io_service finds its thread in threads_, once.
Asserts == /\ Cardinality(threads) <= Size
           /\ Queued \cap aborted = {}
           /\ Range(posted) \subseteq threads
           /\ IsInjective(posted)

\* Server::Update starts one thread at a time, so it must never be left behind:
\* a task waits only while every slot of the pool is taken (except while a
\* handler runs, which holds the slot it has just given back).
WorkConserving == pc = "loop" /\ tasks # <<>> => Cardinality(threads) = Size

\* Every task the server holds is the current task of the Work that its handler
\* belongs to: an owner can always reach, and abort, what would call it back.
NoOrphan == \A p \in Queued \cup threads :
               handler[p] \in Owner /\ work[handler[p]] = p

\* When Abort has returned, the worker of the aborted task does not run any more:
\* Download::Cancel may unlink the file that was being hashed or copied.
AbortWaits == \A p \in aborted : p # joining => job[p] # "running"

\* After SystemImpl::Stop no thread uses the objects that are being destroyed.
ShutdownQuiet == pc = "stopped" => \A p \in Task : job[p] # "running"

\* A Work that is busy becomes free again, or the program stops.
EveryTaskLeaves == \A o \in Owner : Busy(o) ~> ~Busy(o) \/ pc = "stopped"

\* Once asked to stop, the program does stop.
ShutdownEnds == pc = "shutdown" ~> pc = "stopped"

-----------------------------------------------------------------------------
\* The request of an owner as its own module sees it.
Phase(o) ==
  LET p == work[o]
  IN CASE p \in threads /\ p \notin aborted /\ job[p] = "running" -> "running"
       [] p \in threads /\ p \notin aborted /\ job[p] # "running" -> "returned"
       [] p \in threads /\ p \in aborted /\ job[p] = "running" -> "aborting"
       [] p \in threads /\ p \in aborted /\ job[p] # "running" -> "drained"
       [] p \in Queued /\ p \notin threads -> "queued"
       [] OTHER -> "idle"

phaseBar == [o \in Owner |-> Phase(o)]
deliveringBar == IF cur = NoTask THEN NoOwner ELSE handler[cur]

Promise == INSTANCE AsyncWork WITH phase <- phaseBar, delivering <- deliveringBar

\* asynctaskserver.cpp keeps the promise of AsyncWork: one request per owner,
\* delivered exactly once when not aborted, never delivered when aborted.
PromiseSpec == Promise!Spec
=============================================================================
