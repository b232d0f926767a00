----------------------------- MODULE Semaphore -----------------------------
(***************************************************************************)
(* The semaphore of src/lib/utils/thread_utils/semaphore.{h,cpp}.          *)
(*                                                                         *)
(* m_value counts down below zero while threads are inside acquire(); each *)
(* release() that finds it negative leaves one wakeup behind and notifies. *)
(* A wakeup is not addressed to anyone: a thread that calls acquire()      *)
(* before the notified one has run may take it.                            *)
(*                                                                         *)
(* Code that runs with m_mutex held is one action.  waiting is the set of  *)
(* threads inside m_cond.wait, asleep those of them not yet notified.      *)
(***************************************************************************)
EXTENDS Integers, FiniteSets, CondVar

CONSTANTS Acquirers, \* the threads that call acquire()
          MaxTokens  \* bound: release() is not called beyond this value

ASSUME SemaphoreAssumption ==
  /\ IsFiniteSet(Acquirers)
  /\ MaxTokens \in Nat \ {0}

VARIABLES m_value, m_wakeups, waiting, asleep,
          passed  \* for the specification: threads whose acquire() has returned

semVars == <<m_value, m_wakeups, waiting, asleep, passed>>

InitSemaphore ==
  /\ m_value = 0
  /\ m_wakeups = 0
  /\ waiting = {}
  /\ asleep = {}

\* Mutant of WakesSomeone: release() looks at the value after the increment.
WakesSomeoneLate == m_value + 1 < 0

\* release() found a thread inside acquire().
WakesSomeone == m_value < 0

\* One iteration of release()'s loop.
Release ==
  /\ m_value' = m_value + 1
  /\ m_wakeups' = IF WakesSomeone THEN m_wakeups + 1 ELSE m_wakeups
  /\ asleep' \in IF WakesSomeone THEN NotifyOne(asleep) ELSE {asleep}
  /\ UNCHANGED waiting

\* Mutant of MayPass: the test of the old value is off by one.
MayPassAtZero == m_value >= 0

\* acquire() does not have to wait.
MayPass == m_value > 0

\* The predicate of m_cond.wait.
WakeupReady == m_wakeups > 0

\* acquire() returns at once: the value allows it, or the wait's predicate is
\* true already because a wakeup is lying around.
AcquireReturns(t) ==
  /\ t \notin waiting
  /\ MayPass \/ WakeupReady
  /\ m_value' = m_value - 1
  /\ m_wakeups' = IF MayPass THEN m_wakeups ELSE m_wakeups - 1
  /\ UNCHANGED <<waiting, asleep>>

AcquireSleeps(t) ==
  /\ t \notin waiting
  /\ ~MayPass /\ ~WakeupReady
  /\ m_value' = m_value - 1
  /\ waiting' = waiting \cup {t}
  /\ asleep' = asleep \cup {t}
  /\ UNCHANGED m_wakeups

\* A thread back from m_cond takes a wakeup and returns ...
ResumeReturns(t) ==
  /\ t \in waiting \ asleep
  /\ WakeupReady
  /\ m_wakeups' = m_wakeups - 1
  /\ waiting' = waiting \ {t}
  /\ UNCHANGED <<m_value, asleep>>

\* ... or finds none left and goes back to sleep.
ResumeSleeps(t) ==
  /\ t \in waiting \ asleep
  /\ ~WakeupReady
  /\ asleep' = asleep \cup {t}
  /\ UNCHANGED <<m_value, m_wakeups, waiting>>

SemSpuriousWakeup(t) ==
  /\ t \in asleep
  /\ asleep' = asleep \ {t}
  /\ UNCHANGED <<m_value, m_wakeups, waiting>>

-----------------------------------------------------------------------------
(***************************************************************************)
(* The semaphore in use: threads that acquire, go on, and acquire again,   *)
(* and releases that come from anywhere.                                   *)
(***************************************************************************)

SemInit == InitSemaphore /\ passed = {}

Acquire(t) ==
  /\ t \notin passed
  /\ \/ AcquireReturns(t) /\ passed' = passed \cup {t}
     \/ AcquireSleeps(t) /\ UNCHANGED passed

Resume(t) ==
  \/ ResumeReturns(t) /\ passed' = passed \cup {t}
  \/ ResumeSleeps(t) /\ UNCHANGED passed

GoOn(t) ==
  /\ t \in passed
  /\ passed' = passed \ {t}
  /\ UNCHANGED <<m_value, m_wakeups, waiting, asleep>>

SemNext ==
  \/ m_value < MaxTokens /\ Release /\ UNCHANGED passed
  \/ \E t \in Acquirers :
       Acquire(t) \/ Resume(t) \/ GoOn(t) \/ (SemSpuriousWakeup(t) /\ UNCHANGED passed)

\* A thread inside acquire() that is awake is eventually scheduled.
SemFairness == \A t \in Acquirers : WF_semVars(Resume(t))

SemSpec == SemInit /\ [][SemNext]_semVars
SemFairSpec == SemSpec /\ SemFairness

-----------------------------------------------------------------------------

\* How many acquires may still return.
Tokens == (IF m_value > 0 THEN m_value ELSE 0) + m_wakeups

\* Every variable stays in its range.
SemTypeOK ==
  /\ m_value \in Int
  /\ m_wakeups \in Nat
  /\ waiting \subseteq Acquirers
  /\ asleep \subseteq waiting
  /\ passed \subseteq Acquirers \ waiting

\* The two counters describe the threads inside acquire() exactly: those still
\* to be released are counted by the negative value, the others by m_wakeups.
CountersMatchWaiters ==
  Cardinality(waiting) = m_wakeups + (IF m_value < 0 THEN -m_value ELSE 0)

\* No lost wakeup (notify_one of release()): there are always as many waiting
\* threads awake as there are wakeups for them to take.
WakeupsHaveTakers == Cardinality(waiting \ asleep) >= m_wakeups

\* The semaphore implements a counting semaphore: acquire() returns exactly
\* once per token that release() put there, stolen wakeups included.
Abstract == INSTANCE CountingSemaphore WITH
  Threads <- Acquirers, tokens <- Tokens, blocked <- waiting
ImplementsCountingSemaphore == Abstract!Spec

\* A token never lies idle while somebody waits for one.
TokenIsTaken ==
  Tokens > 0 /\ waiting # {} ~> Tokens = 0 \/ waiting = {}
=============================================================================
