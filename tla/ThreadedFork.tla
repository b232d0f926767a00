---------------------------- MODULE ThreadedFork ----------------------------
(***************************************************************************)
(* Threaded_Fork of src/lib/filters/threaded_fork.cpp: one worker thread   *)
(* per port, fed in lock-step by the thread that owns the Pipe (the        *)
(* caller) through a Semaphore (work is there, or quit) and a Barrier      *)
(* (everybody is done).                                                    *)
(*                                                                         *)
(* An input is known by its number, 0 is the null pointer.  The workers    *)
(* read m_input without a lock, so reading it is a step of its own.  There *)
(* is at least one port: set_next() strips trailing null filters, so the   *)
(* last port has a filter, send() never finds "nothing attached" and       *)
(* m_write_queue stays empty.  An empty input is ignored by send() and     *)
(* does not appear here.                                                   *)
(***************************************************************************)
EXTENDS Integers, Sequences, FiniteSets

CONSTANTS Ports,     \* the ports, one worker thread each
          NullPorts, \* the ports whose filter is a null pointer
          MaxSends   \* bound: how many inputs the caller sends

Caller == "caller"

ASSUME ThreadedForkAssumption ==
  /\ IsFiniteSet(Ports) /\ Caller \notin Ports
  /\ NullPorts \subseteq Ports /\ NullPorts # Ports
  /\ MaxSends \in Nat \ {0}

VARIABLES m_input,      \* the shared input pointer
          m_exception,  \* an exception has been captured
          caller,       \* where the owner of the Pipe is
          toRelease,    \* what is left of release()'s loop
          worker,       \* where each worker is
          sent,         \* number of inputs sent so far
          got,          \* the inputs each port's filter was given
          failed,       \* the inputs some filter threw on
          reported      \* the inputs for which send() threw at the caller

VARIABLES s_value, s_wakeups, s_waiting, s_asleep           \* the semaphore
VARIABLES b_value, b_syncs, b_current, b_waiting, b_asleep  \* the barrier

Semaphore == INSTANCE Semaphore WITH
  Acquirers <- Ports, MaxTokens <- MaxSends,
  m_value <- s_value, m_wakeups <- s_wakeups, waiting <- s_waiting, asleep <- s_asleep,
  passed <- {p \in Ports : worker[p] \notin {"acquire", "acquiring"}}

Barrier == INSTANCE Barrier WITH
  Threads <- Ports \cup {Caller},
  m_value <- b_value, m_syncs <- b_syncs, current_syncs <- b_current,
  waiting <- b_waiting, asleep <- b_asleep

semVars == <<s_value, s_wakeups, s_waiting, s_asleep>>
barVars == <<b_value, b_syncs, b_current, b_waiting, b_asleep>>
history == <<sent, got, failed, reported>>
vars == <<m_input, m_exception, caller, toRelease, worker, history, semVars, barVars>>

Init ==
  /\ m_input = 0
  /\ m_exception = FALSE
  /\ caller = "idle"
  /\ toRelease = 0
  /\ worker = [p \in Ports |-> "acquire"]
  /\ sent = 0
  /\ got = [p \in Ports |-> <<>>]
  /\ failed = {}
  /\ reported = {}
  /\ Semaphore!InitSemaphore
  /\ Barrier!Init

-----------------------------------------------------------------------------

\* Mutant of ExceptionAtStart: the captured exception is not cleared.
ExceptionKept == m_exception

\* What clear_exception() leaves for the new input.
ExceptionAtStart == FALSE

\* send(), thread_delegate_work(): publish the next input ...
Send ==
  /\ caller = "idle" /\ sent < MaxSends
  /\ sent' = sent + 1
  /\ m_exception' = ExceptionAtStart
  /\ m_input' = sent + 1
  /\ caller' = "arm"
  /\ UNCHANGED <<toRelease, worker, got, failed, reported, semVars, barVars>>

\* Mutant of Participants: the barrier does not count the caller.
ParticipantsWithoutCaller == Cardinality(Ports)

\* total_ports() + 1
Participants == Cardinality(Ports) + 1

\* ... announce the workers and the caller to the barrier ...
ArmBarrier ==
  /\ caller = "arm"
  /\ Barrier!Wait(Participants)
  /\ toRelease' = Cardinality(Ports)
  /\ caller' = "release"
  /\ UNCHANGED <<m_input, m_exception, worker, history, semVars>>

\* ... and let the workers start, one by one.  In the destructor the same loop
\* lets them quit.
ReleaseWorker ==
  /\ caller \in {"release", "quit"} /\ toRelease > 0
  /\ Semaphore!Release
  /\ toRelease' = toRelease - 1
  /\ UNCHANGED <<m_input, m_exception, caller, worker, history, barVars>>

CallerSyncs ==
  /\ caller = "release" /\ toRelease = 0
  /\ \/ Barrier!SyncSleeps(Caller) /\ caller' = "syncing"
     \/ Barrier!SyncOpens /\ caller' = "finish"
  /\ UNCHANGED <<m_input, m_exception, toRelease, worker, history, semVars>>

CallerResumes ==
  /\ caller = "syncing"
  /\ \/ Barrier!ResumeReturns(Caller) /\ caller' = "finish"
     \/ Barrier!ResumeSleeps(Caller) /\ UNCHANGED caller
  /\ UNCHANGED <<m_input, m_exception, toRelease, worker, history, semVars>>

\* Everybody is done: reset the shared input and pass on an exception.
Finish ==
  /\ caller = "finish"
  /\ m_input' = 0
  /\ reported' = IF m_exception THEN reported \cup {sent} ELSE reported
  /\ caller' = "idle"
  /\ UNCHANGED <<m_exception, toRelease, worker, sent, got, failed, semVars, barVars>>

\* ~Threaded_Fork(): a null input tells the workers to quit.
Destroy ==
  /\ caller = "idle"
  /\ m_input' = 0
  /\ toRelease' = Cardinality(Ports)
  /\ caller' = "quit"
  /\ UNCHANGED <<m_exception, worker, history, semVars, barVars>>

Join ==
  /\ caller = "quit" /\ toRelease = 0
  /\ \A p \in Ports : worker[p] = "exited"
  /\ caller' = "gone"
  /\ UNCHANGED <<m_input, m_exception, toRelease, worker, history, semVars, barVars>>

-----------------------------------------------------------------------------

Goto(p, where) == worker' = [worker EXCEPT ![p] = where]

\* thread_entry(): wait for work.
Acquire(p) ==
  /\ worker[p] = "acquire"
  /\ \/ Semaphore!AcquireReturns(p) /\ Goto(p, "check")
     \/ Semaphore!AcquireSleeps(p) /\ Goto(p, "acquiring")
  /\ UNCHANGED <<m_input, m_exception, caller, toRelease, history, barVars>>

AcquireResumes(p) ==
  /\ worker[p] = "acquiring"
  /\ \/ Semaphore!ResumeReturns(p) /\ Goto(p, "check")
     \/ Semaphore!ResumeSleeps(p) /\ UNCHANGED worker
  /\ UNCHANGED <<m_input, m_exception, caller, toRelease, history, barVars>>

\* A null input is the request to quit; a port without a filter has nothing to
\* do with any other input.
CheckInput(p) ==
  /\ worker[p] = "check"
  /\ Goto(p, IF m_input = 0 THEN "exited"
             ELSE IF p \in NullPorts THEN "sync" ELSE "write")
  /\ UNCHANGED <<m_input, m_exception, caller, toRelease, history, semVars, barVars>>

\* filter->write() of whatever m_input points to now.
WriteFilter(p) ==
  /\ worker[p] = "write"
  /\ got' = [got EXCEPT ![p] = Append(@, m_input)]
  /\ \/ Goto(p, "sync") /\ UNCHANGED failed
     \/ Goto(p, "capture") /\ failed' = failed \cup {m_input}
  /\ UNCHANGED <<m_input, m_exception, caller, toRelease, sent, reported, semVars, barVars>>

\* capture_exception(): one exception is kept for the caller, the first.
CaptureException(p) ==
  /\ worker[p] = "capture"
  /\ m_exception' = TRUE
  /\ Goto(p, "sync")
  /\ UNCHANGED <<m_input, caller, toRelease, history, semVars, barVars>>

WorkerSyncs(p) ==
  /\ worker[p] = "sync"
  /\ \/ Barrier!SyncSleeps(p) /\ Goto(p, "syncing")
     \/ Barrier!SyncOpens /\ Goto(p, "acquire")
  /\ UNCHANGED <<m_input, m_exception, caller, toRelease, history, semVars>>

WorkerResumes(p) ==
  /\ worker[p] = "syncing"
  /\ \/ Barrier!ResumeReturns(p) /\ Goto(p, "acquire")
     \/ Barrier!ResumeSleeps(p) /\ UNCHANGED worker
  /\ UNCHANGED <<m_input, m_exception, caller, toRelease, history, semVars>>

SpuriousWakeup ==
  /\ \/ (\E p \in Ports : Semaphore!SemSpuriousWakeup(p)) /\ UNCHANGED barVars
     \/ (\E t \in Ports \cup {Caller} : Barrier!SpuriousWakeup(t)) /\ UNCHANGED semVars
  /\ UNCHANGED <<m_input, m_exception, caller, toRelease, worker, history>>

-----------------------------------------------------------------------------

\* The caller's steps inside send() and inside the destructor.
CallerStep ==
  \/ ArmBarrier \/ ReleaseWorker \/ CallerSyncs \/ CallerResumes \/ Finish \/ Join

WorkerStep(p) ==
  \/ Acquire(p) \/ AcquireResumes(p) \/ CheckInput(p) \/ WriteFilter(p)
  \/ CaptureException(p) \/ WorkerSyncs(p) \/ WorkerResumes(p)

\* The fork is gone and all its threads have been joined.
Gone == caller = "gone" /\ UNCHANGED vars

Next ==
  \/ Send \/ Destroy \/ CallerStep \/ SpuriousWakeup \/ Gone
  \/ \E p \in Ports : WorkerStep(p)

\* Every thread that can run is scheduled and filters return; the caller does
\* not have to send anything.
Fairness == WF_vars(CallerStep) /\ \A p \in Ports : WF_vars(WorkerStep(p))

Spec == Init /\ [][Next]_vars
FairSpec == Spec /\ Fairness

-----------------------------------------------------------------------------

\* Lock-step (thread_delegate_work, the barrier): when send() has returned,
\* every filter has been given every input, once each and in order.
EveryFilterGotEveryInput ==
  caller \in {"idle", "quit", "gone"} =>
    \A p \in Ports \ NullPorts : got[p] = [i \in 1..sent |-> i]

\* The comment on m_input in Threaded_Fork_Data: the input is changed only
\* while no worker is between the semaphore and the barrier.
InputStableWhileWorkersRun ==
  [][m_input' # m_input =>
       \A p \in Ports : worker[p] \notin {"check", "write", "capture", "sync"}]_vars

\* send() throws for exactly the inputs that some filter threw on, and never
\* for an earlier one's sake (clear_exception, capture_exception).
ExceptionsReachTheCaller ==
  caller \in {"idle", "quit", "gone"} => reported = failed

\* send() returns, whatever the filters throw.
SendReturns == caller = "arm" ~> caller = "idle"

\* The destructor joins all threads.
DestructorReturns == caller = "quit" ~> caller = "gone"
=============================================================================
