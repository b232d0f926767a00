----------------------------- MODULE ThreadPool -----------------------------
(***************************************************************************)
(* Thread_Pool of src/lib/utils/thread_utils/thread_pool.{h,cpp}.          *)
(*                                                                         *)
(* Code that runs with m_mutex held is one action; running a task and the  *)
(* joins of shutdown() happen without it.  A pool has all the workers or   *)
(* it is disabled (std::nullopt): then it has none, and runs its tasks in  *)
(* the calling thread.  A task is known by its number, in the order of     *)
(* acceptance.                                                             *)
(***************************************************************************)
EXTENDS Naturals, Sequences, FiniteSets, CondVar

CONSTANTS Workers,   \* the worker threads
          Clients,   \* threads that call queue_thunk()
          Stoppers,  \* threads that call shutdown(), the destructor's included
          MaxTasks   \* bound: number of tasks accepted

ASSUME ThreadPoolAssumption ==
  /\ IsFiniteSet(Workers) /\ IsFiniteSet(Clients) /\ IsFiniteSet(Stoppers)
  /\ Workers \cap Clients = {}
  /\ MaxTasks \in Nat \ {0}

VARIABLES m_tasks,     \* the queue
          m_shutdown,
          m_workers,   \* the threads that can still be joined
          idle,        \* the workers asleep on m_more_tasks
          worker,      \* where each worker is
          task,        \* what each worker or client runs, 0: nothing
          stopper,     \* where each shutdown() is
          accepted,    \* number of tasks accepted
          runs,        \* how often each accepted task has been run
          refused      \* clients that saw the exception

poolVars == <<m_tasks, m_shutdown, m_workers, idle, worker, task, stopper,
              accepted, runs, refused>>

PoolInit ==
  /\ m_tasks = <<>>
  /\ m_shutdown = FALSE
  /\ m_workers \in {Workers, {}}
  /\ idle = {}
  /\ worker = [w \in Workers |-> IF w \in m_workers THEN "wait" ELSE "exited"]
  /\ task = [t \in Workers \cup Clients |-> 0]
  /\ stopper = [s \in Stoppers |-> "idle"]
  /\ accepted = 0
  /\ runs = [i \in 1..MaxTasks |-> 0]
  /\ refused = {}

-----------------------------------------------------------------------------

Open == ~m_shutdown

\* Mutant of Disabled: queue_thunk() queues for a pool that has no workers.
NeverDisabled == FALSE

\* The pool has no workers.
Disabled == m_workers = {}

\* queue_thunk() with workers: enqueue and wake one of them.
QueueTask(c) ==
  /\ task[c] = 0 /\ accepted < MaxTasks
  /\ Open /\ ~Disabled
  /\ accepted' = accepted + 1
  /\ m_tasks' = Append(m_tasks, accepted + 1)
  /\ idle' \in NotifyOne(idle)
  /\ UNCHANGED <<m_shutdown, m_workers, worker, task, stopper, runs, refused>>

\* queue_thunk() without workers: run the task here, without the lock.
RunInline(c) ==
  /\ task[c] = 0 /\ accepted < MaxTasks
  /\ Open /\ Disabled
  /\ accepted' = accepted + 1
  /\ task' = [task EXCEPT ![c] = accepted + 1]
  /\ UNCHANGED <<m_tasks, m_shutdown, m_workers, idle, worker, stopper, runs, refused>>

\* queue_thunk() after shutdown throws.
Refuse(c) ==
  /\ task[c] = 0 /\ ~Open
  /\ refused' = refused \cup {c}
  /\ UNCHANGED <<m_tasks, m_shutdown, m_workers, idle, worker, task, stopper, accepted, runs>>

\* Mutant of MayLeave: a worker leaves as soon as it sees m_shutdown.
MayLeaveAtOnce == m_shutdown

\* worker_thread() returns: shut down and nothing left to do.
MayLeave == m_shutdown /\ m_tasks = <<>>

\* The predicate of m_more_tasks.wait is false.
MustWait == ~m_shutdown /\ m_tasks = <<>>

WorkerSleeps(w) ==
  /\ worker[w] = "wait" /\ w \notin idle
  /\ MustWait
  /\ idle' = idle \cup {w}
  /\ UNCHANGED <<m_tasks, m_shutdown, m_workers, worker, task, stopper, accepted, runs, refused>>

\* Mutant of Rest: front() without pop_front().
RestUnpopped(queue) == queue

Rest(queue) == Tail(queue)

WorkerTakes(w) ==
  /\ worker[w] = "wait" /\ w \notin idle
  /\ ~MustWait /\ ~MayLeave /\ m_tasks # <<>>
  /\ task' = [task EXCEPT ![w] = Head(m_tasks)]
  /\ m_tasks' = Rest(m_tasks)
  /\ worker' = [worker EXCEPT ![w] = "run"]
  /\ UNCHANGED <<m_shutdown, m_workers, idle, stopper, accepted, runs, refused>>

WorkerLeaves(w) ==
  /\ worker[w] = "wait" /\ w \notin idle
  /\ ~MustWait /\ MayLeave
  /\ worker' = [worker EXCEPT ![w] = "exited"]
  /\ UNCHANGED <<m_tasks, m_shutdown, m_workers, idle, task, stopper, accepted, runs, refused>>

\* The task returns; a worker then looks for the next one.
RunTask(t) ==
  /\ task[t] # 0
  /\ runs' = [runs EXCEPT ![task[t]] = @ + 1]
  /\ task' = [task EXCEPT ![t] = 0]
  /\ worker' = [w \in Workers |-> IF w = t THEN "wait" ELSE worker[w]]
  /\ UNCHANGED <<m_tasks, m_shutdown, m_workers, idle, stopper, accepted, refused>>

PoolSpuriousWakeup(w) ==
  /\ w \in idle
  /\ idle' = idle \ {w}
  /\ UNCHANGED <<m_tasks, m_shutdown, m_workers, worker, task, stopper, accepted, runs, refused>>

\* shutdown(): only the first one has anything to do.
Shutdown(s) ==
  /\ stopper[s] = "idle"
  /\ m_shutdown' = TRUE
  /\ idle' \in IF m_shutdown THEN {idle} ELSE NotifyAll(idle)
  /\ stopper' = [stopper EXCEPT ![s] = IF m_shutdown THEN "skipped" ELSE "join"]
  /\ UNCHANGED <<m_tasks, m_workers, worker, task, accepted, runs, refused>>

\* ... which joins every worker and forgets them.
JoinAll(s) ==
  /\ stopper[s] = "join"
  /\ \A w \in m_workers : worker[w] = "exited"
  /\ m_workers' = {}
  /\ stopper' = [stopper EXCEPT ![s] = "joined"]
  /\ UNCHANGED <<m_tasks, m_shutdown, idle, worker, task, accepted, runs, refused>>

-----------------------------------------------------------------------------

WorkerStep(w) ==
  WorkerSleeps(w) \/ WorkerTakes(w) \/ WorkerLeaves(w) \/ RunTask(w)

ClientStep(c) == QueueTask(c) \/ RunInline(c) \/ Refuse(c)

PoolNext ==
  \/ \E w \in Workers : WorkerStep(w) \/ PoolSpuriousWakeup(w)
  \/ \E c \in Clients : ClientStep(c) \/ RunTask(c)
  \/ \E s \in Stoppers : Shutdown(s) \/ JoinAll(s)

\* Threads that can run are scheduled and tasks return.
PoolFairness ==
  /\ \A w \in Workers : WF_poolVars(WorkerStep(w))
  /\ \A c \in Clients : WF_poolVars(RunTask(c))
  /\ \A s \in Stoppers : WF_poolVars(JoinAll(s))

PoolSpec == PoolInit /\ [][PoolNext]_poolVars
PoolFairSpec == PoolSpec /\ PoolFairness

-----------------------------------------------------------------------------

\* The tasks that have been accepted and have not returned.
Pending ==
  {i \in 1..accepted : runs[i] = 0}

\* Every accepted task is in exactly one place: in the queue, in the hands of
\* one thread, or done, and it is never run twice (queue_thunk, worker_thread).
EachTaskOnce ==
  /\ \A i \in 1..accepted : runs[i] <= 1
  /\ \A i \in Pending :
       Cardinality({k \in DOMAIN m_tasks : m_tasks[k] = i})
       + Cardinality({t \in Workers \cup Clients : task[t] = i}) = 1

\* When shutdown() has joined the workers, every task handed to a worker has
\* been run: the queue is drained, not dropped.
ShutdownDrains ==
  (\E s \in Stoppers : stopper[s] = "joined") =>
     /\ m_tasks = <<>>
     /\ \A w \in Workers : task[w] = 0

\* Every accepted task is eventually run.
TasksAreRun == \A i \in 1..MaxTasks : accepted >= i ~> runs[i] = 1

\* The first shutdown() returns.
ShutdownReturns == \A s \in Stoppers : stopper[s] = "join" ~> stopper[s] = "joined"
=============================================================================
