------------------------------ MODULE Barrier ------------------------------
(***************************************************************************)
(* The barrier of src/lib/utils/thread_utils/barrier.{h,cpp}: its state    *)
(* and one action per stretch of code that runs with m_mutex held.  How    *)
(* the operations follow each other is up to the user of the barrier (see  *)
(* ThreadedFork).                                                          *)
(***************************************************************************)
EXTENDS Naturals

CONSTANTS Threads

VARIABLES m_value,        \* how many threads are still to arrive
          m_syncs,        \* how often the barrier has opened
          current_syncs,  \* each thread's local copy of m_syncs
          waiting,        \* the threads inside m_cond.wait
          asleep          \* those of them that have not been notified

vars == <<m_value, m_syncs, current_syncs, waiting, asleep>>

Init ==
  /\ m_value = 0
  /\ m_syncs = 0
  /\ current_syncs = [t \in Threads |-> 0]
  /\ waiting = {}
  /\ asleep = {}

\* wait(delta) announces delta more threads; it does not block.
Wait(delta) ==
  /\ m_value' = m_value + delta
  /\ UNCHANGED <<m_syncs, current_syncs, waiting, asleep>>

\* Mutant of LastToArrive: the barrier opens one thread early.
LastButOneToArrive == m_value <= 2

LastToArrive == m_value <= 1

\* sync() by a thread that has to wait for others.
SyncSleeps(t) ==
  /\ ~LastToArrive
  /\ m_value' = m_value - 1
  /\ current_syncs' = [current_syncs EXCEPT ![t] = m_syncs]
  /\ waiting' = waiting \cup {t}
  /\ asleep' = asleep \cup {t}
  /\ UNCHANGED m_syncs

\* Mutant of Opened: the barrier opens without waking anyone.
OpenedSilently == asleep

\* The threads still asleep after notify_all.
Opened == {}

\* sync() by the last thread opens the barrier.
SyncOpens ==
  /\ LastToArrive
  /\ m_value' = 0
  /\ m_syncs' = m_syncs + 1
  /\ asleep' = Opened
  /\ UNCHANGED <<current_syncs, waiting>>

\* Mutant of HasOpened: the waiting threads look at the count of arrivals
\* instead of m_syncs.
HasOpenedByValue(t) == m_value = 0

\* The predicate of m_cond.wait.
HasOpened(t) == m_syncs # current_syncs[t]

ResumeReturns(t) ==
  /\ t \in waiting \ asleep
  /\ HasOpened(t)
  /\ waiting' = waiting \ {t}
  /\ UNCHANGED <<m_value, m_syncs, current_syncs, asleep>>

ResumeSleeps(t) ==
  /\ t \in waiting \ asleep
  /\ ~HasOpened(t)
  /\ asleep' = asleep \cup {t}
  /\ UNCHANGED <<m_value, m_syncs, current_syncs, waiting>>

SpuriousWakeup(t) ==
  /\ t \in asleep
  /\ asleep' = asleep \ {t}
  /\ UNCHANGED <<m_value, m_syncs, current_syncs, waiting>>
=============================================================================
