------------------------------- MODULE RWLock -------------------------------
(***************************************************************************)
(* The read-write lock of src/lib/utils/thread_utils/rwlock.{h,cpp}.       *)
(*                                                                         *)
(* m_state is one 32-bit word: its top bit (is_writing) is the variable    *)
(* writing, the remaining 31 bits (readers_mask) are the variable readers. *)
(* ReadersMask is the largest reader count the word can hold.              *)
(*                                                                         *)
(* Every stretch of code that runs with m_mutex held is one action: the    *)
(* mutex is released only by returning or by going to sleep on a condition *)
(* variable.  gate1 and gate2 are the threads asleep on m_gate1, m_gate2;  *)
(* a thread that is no longer in the set has been woken and re-evaluates   *)
(* its while loop.  As std::condition_variable permits, a sleeper may also *)
(* wake for no reason at all (SpuriousWakeup).                             *)
(***************************************************************************)
EXTENDS Naturals, FiniteSets, CondVar

CONSTANTS Threads,      \* the threads that share the lock
          ReadersMask   \* the code's readers_mask, 2^31 - 1

ASSUME RWLockAssumption ==
  /\ IsFiniteSet(Threads)
  /\ ReadersMask \in Nat \ {0}

VARIABLES writing,  \* m_state & is_writing
          readers,  \* m_state & readers_mask
          gate1,    \* threads asleep on m_gate1
          gate2,    \* threads asleep on m_gate2
          pc        \* where each thread is

vars == <<writing, readers, gate1, gate2, pc>>

\* "lock1" and "lock2" are the two while loops of lock(), "shared" the loop of
\* lock_shared(); "writer" and "reader" hold the lock.
PCs == {"idle", "lock1", "lock2", "writer", "shared", "reader"}

Init ==
  /\ writing = FALSE
  /\ readers = 0
  /\ gate1 = {}
  /\ gate2 = {}
  /\ pc = [t \in Threads |-> "idle"]

-----------------------------------------------------------------------------

Goto(t, where) == pc' = [pc EXCEPT ![t] = where]

\* The condition of lock()'s second loop.
ReadersRemain == readers > 0

\* Mutants of SharedMustWait: the writer, or the full word, is not looked at.
SharedIgnoresWriter == readers = ReadersMask
SharedIgnoresLimit == writing

\* The condition of lock_shared()'s loop.
SharedMustWait == writing \/ readers = ReadersMask

Call(t) ==
  /\ pc[t] = "idle"
  /\ \E where \in {"lock1", "shared"} : Goto(t, where)
  /\ UNCHANGED <<writing, readers, gate1, gate2>>

\* lock(), first loop: sleep on gate 1 while another writer is in or ahead,
\* else announce this writer, and go on to the second loop with the mutex held.
LockGate1(t) ==
  /\ pc[t] = "lock1" /\ t \notin gate1
  /\ \/ /\ writing
        /\ gate1' = gate1 \cup {t}
        /\ UNCHANGED <<writing, readers, gate2, pc>>
     \/ /\ ~writing
        /\ writing' = TRUE
        /\ gate2' = IF ReadersRemain THEN gate2 \cup {t} ELSE gate2
        /\ Goto(t, IF ReadersRemain THEN "lock2" ELSE "writer")
        /\ UNCHANGED <<readers, gate1>>

\* lock(), second loop: sleep on gate 2 until the last reader has left.
LockGate2(t) ==
  /\ pc[t] = "lock2" /\ t \notin gate2
  /\ gate2' = IF ReadersRemain THEN gate2 \cup {t} ELSE gate2
  /\ Goto(t, IF ReadersRemain THEN "lock2" ELSE "writer")
  /\ UNCHANGED <<writing, readers, gate1>>

\* unlock() clears the whole word and wakes everyone at gate 1.
Unlock(t) ==
  /\ pc[t] = "writer"
  /\ writing' = FALSE
  /\ readers' = 0
  /\ gate1' \in NotifyAll(gate1)
  /\ Goto(t, "idle")
  /\ UNCHANGED gate2

LockShared(t) ==
  /\ pc[t] = "shared" /\ t \notin gate1
  /\ \/ /\ SharedMustWait
        /\ gate1' = gate1 \cup {t}
        /\ UNCHANGED <<readers, pc>>
     \/ /\ ~SharedMustWait
        /\ readers' = readers + 1
        /\ Goto(t, "reader")
        /\ UNCHANGED gate1
  /\ UNCHANGED <<writing, gate2>>

\* The last reader lets a waiting writer in; without a writer, the reader that
\* makes room in a full word lets one thread in at gate 1.
UnlockShared(t) ==
  /\ pc[t] = "reader"
  /\ readers' = readers - 1
  /\ gate2' \in IF writing /\ readers' = 0 THEN NotifyOne(gate2) ELSE {gate2}
  /\ gate1' \in IF ~writing /\ readers' = ReadersMask - 1
                THEN NotifyOne(gate1) ELSE {gate1}
  /\ Goto(t, "idle")
  /\ UNCHANGED writing

SpuriousWakeup(t) ==
  /\ t \in gate1 \cup gate2
  /\ gate1' = gate1 \ {t}
  /\ gate2' = gate2 \ {t}
  /\ UNCHANGED <<writing, readers, pc>>

\* What a thread that has entered the lock does until it is out again.
Step(t) ==
  \/ LockGate1(t) \/ LockGate2(t) \/ Unlock(t)
  \/ LockShared(t) \/ UnlockShared(t)

Next == \E t \in Threads : Call(t) \/ Step(t) \/ SpuriousWakeup(t)

\* A runnable thread is eventually scheduled and a holder eventually releases;
\* nobody is obliged to take the lock, and no wakeup is spurious by necessity.
Fairness == \A t \in Threads : WF_vars(Step(t))

Spec == Init /\ [][Next]_vars
FairSpec == Spec /\ Fairness

-----------------------------------------------------------------------------

Holding(where) == {t \in Threads : pc[t] = where}

\* Every variable stays in its range.
TypeOK ==
  /\ writing \in BOOLEAN
  /\ readers \in Nat
  /\ gate1 \subseteq Threads
  /\ gate2 \subseteq Threads
  /\ pc \in [Threads -> PCs]

\* The promise of a read-write lock (lock(), lock_shared()): while one thread
\* writes no other thread reads or writes.
MutualExclusion ==
  \A t \in Holding("writer") :
    /\ Holding("writer") = {t}
    /\ Holding("reader") = {}

\* The word describes the holders: its low bits count the readers (so that
\* unlock_shared() can never underflow into the is_writing bit and unlock()
\* never wipes out a reader), and its top bit is set exactly while one thread
\* writes or is waiting for the readers to leave.
StateWordMatchesHolders ==
  /\ readers = Cardinality(Holding("reader"))
  /\ readers <= ReadersMask
  /\ writing <=> Holding("lock2") \cup Holding("writer") # {}
  /\ Cardinality(Holding("lock2") \cup Holding("writer")) <= 1

\* No lost wakeup (the notify calls of unlock() and unlock_shared()): a thread
\* sleeps on a gate only while the condition it waits for is really false.
NoLostWakeup ==
  /\ \A t \in gate1 : writing \/ readers = ReadersMask
  /\ \A t \in gate2 : readers > 0

\* "Writers are favored" (rwlock.h): a writer that has announced itself gets
\* the lock once the present readers are gone, however many more readers come.
AnnouncedWriterGetsIn ==
  \A t \in Threads : pc[t] = "lock2" ~> pc[t] = "writer"

=============================================================================
