-------------------------- MODULE ThreadUtilsProofs --------------------------
(***************************************************************************)
(* The read-write lock of rwlock.cpp, the semaphore of semaphore.cpp and   *)
(* Thread_Pool, for every finite set of threads.  The lock is one, for     *)
(* every width of the reader count, and no wakeup is lost while the reader *)
(* count cannot reach its limit; the semaphore implements a counting       *)
(* semaphore and loses no wakeup; the pool runs no task twice and loses    *)
(* none, and shutdown() drains its queue.  The three share nothing but     *)
(* this module.                                                            *)
(***************************************************************************)
EXTENDS RWLock, Semaphore, ThreadPool, FiniteSetTheorems, TLAPS

-----------------------------------------------------------------------------
(* The read-write lock.                                                    *)

\* A writer has set is_writing: it waits for the readers to leave, or is in.
Writers == {t \in Threads : pc[t] \in {"lock2", "writer"}}

\* is_writing is set by exactly one thread, and that thread has the lock to
\* itself once it is past the second loop; the low bits count the readers.
WordInv ==
  /\ readers = Cardinality(Holding("reader"))
  /\ readers <= ReadersMask
  /\ writing <=> Writers # {}
  /\ \A t, u \in Writers : t = u
  /\ Holding("writer") # {} => readers = 0

LockInv == TypeOK /\ WordInv

\* The threads asleep at the gates are those that are in a loop there.
GateInv ==
  /\ \A t \in gate1 : pc[t] \in {"lock1", "shared"}
  /\ \A t \in gate2 : pc[t] = "lock2"

-----------------------------------------------------------------------------

\* What a step does to the number of readers: nothing, one more, one fewer.
LEMMA ReadersFinite ==
  IsFiniteSet(Holding("reader")) /\ Cardinality(Holding("reader")) \in Nat
<1>1. Holding("reader") \subseteq Threads
  BY DEF Holding
<1> QED
  BY <1>1, FS_Subset, FS_CardinalityType, RWLockAssumption

LEMMA ReaderEnters ==
  ASSUME pc \in [Threads -> PCs], NEW t \in Threads, pc[t] # "reader",
         pc' = [pc EXCEPT ![t] = "reader"]
  PROVE  Cardinality(Holding("reader")') = Cardinality(Holding("reader")) + 1
<1>1. Holding("reader")' = Holding("reader") \cup {t} /\ t \notin Holding("reader")
  BY DEF Holding
<1> QED
  BY <1>1, ReadersFinite, FS_AddElement

LEMMA ReaderLeaves ==
  ASSUME pc \in [Threads -> PCs], NEW t \in Threads, pc[t] = "reader",
         pc' = [pc EXCEPT ![t] = "idle"]
  PROVE  Cardinality(Holding("reader")') = Cardinality(Holding("reader")) - 1
<1>1. Holding("reader")' = Holding("reader") \ {t} /\ t \in Holding("reader")
  BY DEF Holding
<1> QED
  BY <1>1, ReadersFinite, FS_RemoveElement

LEMMA ReadersStay ==
  ASSUME pc \in [Threads -> PCs], NEW t \in Threads, NEW where \in PCs \ {"reader"},
         pc[t] # "reader", pc' = [pc EXCEPT ![t] = where]
  PROVE  Holding("reader")' = Holding("reader")
BY DEF Holding

\* A thread counted as a reader makes the count positive.
LEMMA ReaderCounted ==
  ASSUME NEW t \in Holding("reader")
  PROVE  Cardinality(Holding("reader")) > 0
<1>1. Cardinality(Holding("reader")) # 0
  BY ReadersFinite, FS_EmptySet
<1> QED
  BY <1>1, ReadersFinite

-----------------------------------------------------------------------------

LEMMA InitLockInv == Init => LockInv
<1> SUFFICES ASSUME Init PROVE LockInv
  OBVIOUS
<1>1. TypeOK
  BY RWLockAssumption DEF Init, TypeOK, PCs
<1>2. Holding("reader") = {} /\ Holding("writer") = {} /\ Writers = {}
  BY DEF Init, Holding, Writers
<1> QED
  BY <1>1, <1>2, FS_EmptySet, RWLockAssumption DEF LockInv, WordInv, Init

LEMMA NextLockInv == LockInv /\ [Next]_vars => LockInv'
<1> SUFFICES ASSUME LockInv, [Next]_vars PROVE LockInv'
  OBVIOUS
<1> USE DEF LockInv, Goto
<1>1. CASE UNCHANGED vars
  BY <1>1 DEF vars, TypeOK, WordInv, Holding, Writers
<1>2. ASSUME NEW t \in Threads, Call(t) PROVE LockInv'
  <2>1. PICK where \in {"lock1", "shared"} : pc' = [pc EXCEPT ![t] = where]
    BY <1>2 DEF Call
  <2>2. TypeOK'
    BY <1>2, <2>1 DEF Call, TypeOK, PCs
  <2>3. Holding("reader")' = Holding("reader")
    BY <1>2, <2>1, ReadersStay DEF Call, TypeOK, PCs
  <2>4. Holding("writer")' = Holding("writer") /\ Writers' = Writers
    BY <1>2, <2>1 DEF Call, TypeOK, Holding, Writers
  <2> QED
    BY <1>2, <2>2, <2>3, <2>4 DEF Call, WordInv
<1>3. ASSUME NEW t \in Threads, LockGate1(t) PROVE LockInv'
  <2>1. CASE writing
    BY <1>3, <2>1 DEF LockGate1, TypeOK, WordInv, Holding, Writers
  <2>2. CASE ~writing
    <3>1. PICK where \in {"lock2", "writer"} :
            pc' = [pc EXCEPT ![t] = where] /\ (where = "writer" => readers = 0)
      BY <1>3, <2>2 DEF LockGate1, ReadersRemain, TypeOK
    <3>2. TypeOK'
      BY <1>3, <2>2, <3>1 DEF LockGate1, TypeOK, PCs
    <3>3. Holding("reader")' = Holding("reader")
      BY <1>3, <3>1, ReadersStay DEF LockGate1, TypeOK, PCs
    <3>4. Writers' = {t} /\ writing' /\ readers' = readers
      BY <1>3, <2>2, <3>1 DEF LockGate1, TypeOK, WordInv, Writers
    <3>5. Holding("writer")' # {} => readers' = 0
      BY <3>1, <3>4, <2>2 DEF TypeOK, WordInv, Holding, Writers
    <3> QED
      BY <3>2, <3>3, <3>4, <3>5 DEF WordInv
  <2> QED
    BY <2>1, <2>2
<1>4. ASSUME NEW t \in Threads, LockGate2(t) PROVE LockInv'
  <2>1. PICK where \in {"lock2", "writer"} :
          pc' = [pc EXCEPT ![t] = where] /\ (where = "writer" => readers = 0)
    <3>1. CASE ReadersRemain
      BY <1>4, <3>1 DEF LockGate2
    <3>2. CASE ~ReadersRemain
      BY <1>4, <3>2 DEF LockGate2, ReadersRemain, TypeOK
    <3> QED
      BY <3>1, <3>2
  <2>2. TypeOK'
    BY <1>4, <2>1 DEF LockGate2, TypeOK, PCs
  <2>3. Holding("reader")' = Holding("reader")
    BY <1>4, <2>1, ReadersStay DEF LockGate2, TypeOK, PCs
  <2>4. Writers' = Writers /\ t \in Writers
    BY <1>4, <2>1 DEF LockGate2, TypeOK, Writers
  <2>5. Holding("writer")' # {} => readers' = 0
    BY <1>4, <2>1, <2>4 DEF LockGate2, TypeOK, WordInv, Holding
  <2> QED
    BY <1>4, <2>2, <2>3, <2>4, <2>5 DEF LockGate2, WordInv
<1>5. ASSUME NEW t \in Threads, Unlock(t) PROVE LockInv'
  <2>1. t \in Holding("writer") /\ t \in Writers
    BY <1>5 DEF Unlock, Holding, Writers
  <2>2. TypeOK'
    BY <1>5 DEF Unlock, NotifyAll, TypeOK, PCs
  <2>3. Holding("reader")' = Holding("reader")
    BY <1>5, ReadersStay DEF Unlock, TypeOK, PCs
  <2>4. readers = 0 /\ readers' = 0 /\ ~writing'
    BY <1>5, <2>1 DEF Unlock, WordInv
  <2>5. Writers' = {} /\ Holding("writer")' = {}
    BY <1>5, <2>1 DEF Unlock, TypeOK, WordInv, Writers, Holding
  <2> QED
    BY <2>2, <2>3, <2>4, <2>5 DEF WordInv
<1>6. ASSUME NEW t \in Threads, LockShared(t) PROVE LockInv'
  <2>1. CASE SharedMustWait
    BY <1>6, <2>1 DEF LockShared, TypeOK, WordInv, Holding, Writers
  <2>2. CASE ~SharedMustWait
    <3>1. /\ pc[t] # "reader" /\ pc' = [pc EXCEPT ![t] = "reader"]
          /\ readers' = readers + 1
          /\ readers # ReadersMask /\ ~writing
      BY <1>6, <2>2 DEF LockShared, SharedMustWait
    <3>2. TypeOK'
      BY <1>6, <2>2 DEF LockShared, TypeOK, PCs
    <3>3. readers' = Cardinality(Holding("reader")') /\ readers' <= ReadersMask
      <4>1. Cardinality(Holding("reader")') = Cardinality(Holding("reader")) + 1
        BY <3>1, ReaderEnters DEF TypeOK
      <4> QED
        BY <3>1, <4>1, RWLockAssumption DEF TypeOK, WordInv
    <3>4. ~writing' /\ Writers' = {} /\ Holding("writer")' = {}
      BY <1>6, <3>1 DEF LockShared, TypeOK, WordInv, Holding, Writers
    <3> QED
      BY <3>2, <3>3, <3>4 DEF WordInv
  <2> QED
    BY <2>1, <2>2
<1>7. ASSUME NEW t \in Threads, UnlockShared(t) PROVE LockInv'
  <2>1. t \in Holding("reader") /\ readers > 0
    BY <1>7, ReaderCounted DEF UnlockShared, Holding, WordInv
  <2>2. TypeOK'
    BY <1>7, <2>1 DEF UnlockShared, NotifyOne, TypeOK, PCs
  <2>3. readers' = Cardinality(Holding("reader")') /\ readers' <= ReadersMask
    <3>1. Cardinality(Holding("reader")') = Cardinality(Holding("reader")) - 1
      BY <1>7, ReaderLeaves DEF UnlockShared, TypeOK
    <3> QED
      BY <1>7, <3>1, RWLockAssumption DEF UnlockShared, TypeOK, WordInv
  <2>4. Writers' = Writers /\ Holding("writer") = {} /\ Holding("writer")' = {}
    BY <1>7, <2>1 DEF UnlockShared, TypeOK, WordInv, Holding, Writers
  <2> QED
    BY <1>7, <2>2, <2>3, <2>4 DEF UnlockShared, WordInv
<1>8. ASSUME NEW t \in Threads, SpuriousWakeup(t) PROVE LockInv'
  BY <1>8 DEF SpuriousWakeup, TypeOK, WordInv, Holding, Writers
<1> QED
  BY <1>1, <1>2, <1>3, <1>4, <1>5, <1>6, <1>7, <1>8 DEF Next, Step

\* The inductive invariant holds in every reachable state.
LEMMA LockInvHolds == Spec => []LockInv
BY InitLockInv, NextLockInv, PTL DEF Spec

\* Type correctness; in particular unlock_shared() never takes the reader count
\* below zero.
THEOREM LockTypeCorrect == Spec => []TypeOK
BY LockInvHolds, PTL DEF LockInv

\* lock() and lock_shared() implement a read-write lock for any number of
\* threads: a writer is alone.
THEOREM LockIsExclusive == Spec => []MutualExclusion
<1>1. LockInv => MutualExclusion
  <2> SUFFICES ASSUME LockInv, NEW t \in Holding("writer")
               PROVE  Holding("writer") = {t} /\ Holding("reader") = {}
    BY DEF MutualExclusion
  <2>1. Holding("writer") \subseteq Writers
    BY DEF Holding, Writers
  <2>2. Cardinality(Holding("reader")) = 0
    BY DEF LockInv, WordInv
  <2>3. Holding("reader") = {}
    BY <2>2, ReadersFinite, FS_EmptySet
  <2> QED
    BY <2>1, <2>3 DEF LockInv, WordInv
<1> QED
  BY <1>1, LockInvHolds, PTL

\* The 32-bit word agrees with the threads that hold the lock.
THEOREM WordIsExact == Spec => []StateWordMatchesHolders
<1>1. LockInv => StateWordMatchesHolders
  <2> SUFFICES ASSUME LockInv PROVE StateWordMatchesHolders
    OBVIOUS
  <2>1. Holding("lock2") \cup Holding("writer") = Writers
    BY DEF Holding, Writers
  <2>2. Cardinality(Writers) <= 1
    <3>1. CASE Writers = {}
      BY <3>1, FS_EmptySet
    <3>2. CASE Writers # {}
      <4>1. PICK t \in Writers : TRUE
        BY <3>2
      <4>2. Writers = {t}
        BY <4>1 DEF LockInv, WordInv
      <4>3. Cardinality({t}) = 1
        BY FS_Singleton, Zenon
      <4> QED
        BY <4>2, <4>3
    <3> QED
      BY <3>1, <3>2
  <2> QED
    BY <2>1, <2>2 DEF LockInv, WordInv, StateWordMatchesHolders
<1> QED
  BY <1>1, LockInvHolds, PTL

-----------------------------------------------------------------------------

\* Throughout, a sleeper is in the loop of its gate.
LEMMA GateInvHolds == Spec => []GateInv
<1>1. Init => GateInv
  BY DEF Init, GateInv
<1>2. LockInv /\ GateInv /\ [Next]_vars => GateInv'
  <2> SUFFICES ASSUME LockInv, GateInv, [Next]_vars PROVE GateInv'
    OBVIOUS
  <2> USE DEF LockInv, TypeOK, GateInv, Goto
  <2>1. CASE UNCHANGED vars
    BY <2>1 DEF vars
  <2>2. ASSUME NEW t \in Threads, Call(t) PROVE GateInv'
    BY <2>2 DEF Call
  <2>3. ASSUME NEW t \in Threads, LockGate1(t) PROVE GateInv'
    BY <2>3 DEF LockGate1, ReadersRemain
  <2>4. ASSUME NEW t \in Threads, LockGate2(t) PROVE GateInv'
    BY <2>4 DEF LockGate2, ReadersRemain
  <2>5. ASSUME NEW t \in Threads, Unlock(t) PROVE GateInv'
    BY <2>5 DEF Unlock, NotifyAll
  <2>6. ASSUME NEW t \in Threads, LockShared(t) PROVE GateInv'
    BY <2>6 DEF LockShared
  <2>7. ASSUME NEW t \in Threads, UnlockShared(t) PROVE GateInv'
    BY <2>7 DEF UnlockShared, NotifyOne
  <2>8. ASSUME NEW t \in Threads, SpuriousWakeup(t) PROVE GateInv'
    BY <2>8 DEF SpuriousWakeup
  <2> QED
    BY <2>1, <2>2, <2>3, <2>4, <2>5, <2>6, <2>7, <2>8 DEF Next, Step
<1> QED
  BY <1>1, <1>2, LockInvHolds, PTL DEF Spec

\* While there is a sleeper at gate 2 it is the only one, so that the single
\* notify_one of the last reader wakes it.
LEMMA NextNoLostWakeup ==
  ASSUME Cardinality(Threads) <= ReadersMask
  PROVE  LockInv /\ GateInv /\ NoLostWakeup /\ [Next]_vars => NoLostWakeup'
<1> SUFFICES ASSUME LockInv, GateInv, NoLostWakeup, [Next]_vars PROVE NoLostWakeup'
  OBVIOUS
<1> USE DEF LockInv, TypeOK, NoLostWakeup, Goto
<1>1. CASE UNCHANGED vars
  BY <1>1 DEF vars
<1>2. ASSUME NEW t \in Threads, Call(t) PROVE NoLostWakeup'
  BY <1>2 DEF Call
<1>3. ASSUME NEW t \in Threads, LockGate1(t) PROVE NoLostWakeup'
  BY <1>3 DEF LockGate1, ReadersRemain
<1>4. ASSUME NEW t \in Threads, LockGate2(t) PROVE NoLostWakeup'
  BY <1>4 DEF LockGate2, ReadersRemain
<1>5. ASSUME NEW t \in Threads, Unlock(t) PROVE NoLostWakeup'
  <2>1. gate2 = {}
    BY <1>5 DEF Unlock, GateInv, WordInv, Writers
  <2> QED
    BY <1>5, <2>1 DEF Unlock, NotifyAll
<1>6. ASSUME NEW t \in Threads, LockShared(t) PROVE NoLostWakeup'
  BY <1>6 DEF LockShared, SharedMustWait
<1>7. ASSUME NEW t \in Threads, UnlockShared(t) PROVE NoLostWakeup'
  <2>1. readers \in Nat /\ readers' = readers - 1 /\ writing' = writing
        /\ readers > 0
    BY <1>7, ReaderCounted DEF UnlockShared, Holding, WordInv
  <2>2. ASSUME NEW u \in gate1' PROVE writing' \/ readers' = ReadersMask
    <3>1. u \in gate1 /\ u \notin Holding("reader")
      BY <1>7, <2>2 DEF UnlockShared, NotifyOne, GateInv, Holding
    <3>2. Holding("reader") \subseteq Threads \ {u} /\ u \in Threads
      BY <3>1 DEF Holding
    <3>3. IsFiniteSet(Threads \ {u}) /\ Cardinality(Threads \ {u}) = Cardinality(Threads) - 1
      BY <3>2, FS_RemoveElement, RWLockAssumption
    <3>4. readers <= Cardinality(Threads) - 1
      BY <3>2, <3>3, FS_Subset DEF WordInv
    <3>5. readers # ReadersMask
      BY <3>4, <2>1, RWLockAssumption, FS_CardinalityType
    <3> QED
      BY <2>1, <3>1, <3>5
  <2>3. ASSUME NEW u \in gate2' PROVE readers' > 0
    <3>1. u \in gate2 /\ u \in Writers /\ writing
      BY <1>7, <2>3 DEF UnlockShared, NotifyOne, GateInv, WordInv, Writers
    <3>2. gate2 = {u}
      BY <3>1 DEF GateInv, WordInv, Writers
    <3>3. readers' # 0
      BY <1>7, <2>3, <3>1, <3>2 DEF UnlockShared, NotifyOne
    <3> QED
      BY <3>3, <2>1
  <2> QED
    BY <2>2, <2>3
<1>8. ASSUME NEW t \in Threads, SpuriousWakeup(t) PROVE NoLostWakeup'
  BY <1>8 DEF SpuriousWakeup
<1> QED
  BY <1>1, <1>2, <1>3, <1>4, <1>5, <1>6, <1>7, <1>8 DEF Next, Step

\* With fewer threads than the word can count (2^31 - 1 in the code), the
\* notify calls of unlock() and unlock_shared() suffice: whoever sleeps has a
\* reason to.
THEOREM LockWakeupsSuffice ==
  ASSUME Cardinality(Threads) <= ReadersMask
  PROVE  Spec => []NoLostWakeup
<1>1. Init => NoLostWakeup
  BY DEF Init, NoLostWakeup
<1>2. LockInv /\ GateInv /\ NoLostWakeup /\ [Next]_vars => NoLostWakeup'
  BY NextNoLostWakeup
<1> QED
  BY <1>1, <1>2, LockInvHolds, GateInvHolds, PTL DEF Spec
-----------------------------------------------------------------------------
(* The semaphore.                                                          *)

SemInv == SemTypeOK /\ CountersMatchWaiters /\ WakeupsHaveTakers

-----------------------------------------------------------------------------

LEMMA WaitersFinite ==
  ASSUME SemTypeOK
  PROVE  /\ IsFiniteSet(waiting) /\ Cardinality(waiting) \in Nat
         /\ IsFiniteSet(waiting \ asleep) /\ Cardinality(waiting \ asleep) \in Nat
<1>1. waiting \subseteq Acquirers /\ waiting \ asleep \subseteq Acquirers
  BY DEF SemTypeOK
<1> QED
  BY <1>1, SemaphoreAssumption, FS_Subset, FS_CardinalityType

\* One thread more, or one fewer, in a finite set.
LEMMA AddOne ==
  ASSUME NEW S, IsFiniteSet(S), NEW x, x \notin S
  PROVE  Cardinality(S \cup {x}) = Cardinality(S) + 1
BY FS_AddElement

LEMMA RemoveOne ==
  ASSUME NEW S, IsFiniteSet(S), NEW x \in S
  PROVE  Cardinality(S \ {x}) = Cardinality(S) - 1
BY FS_RemoveElement

-----------------------------------------------------------------------------

\* release() keeps the account: when it leaves a wakeup behind, either a
\* sleeper is notified or all the waiting threads are awake already.
LEMMA ReleaseInv ==
  ASSUME SemInv, Release, UNCHANGED passed
  PROVE  SemInv'
<1> USE DEF SemInv
<1>1. SemTypeOK'
  BY DEF Release, WakesSomeone, NotifyOne, SemTypeOK
<1>2. CountersMatchWaiters'
  BY WaitersFinite DEF Release, WakesSomeone, SemTypeOK, CountersMatchWaiters
<1>3. WakeupsHaveTakers'
  <2>1. CASE ~WakesSomeone
    BY <2>1 DEF Release, WakeupsHaveTakers
  <2>2. CASE WakesSomeone /\ asleep = {}
    <3>1. asleep' = {} /\ waiting' = waiting /\ m_wakeups' = m_wakeups + 1
      BY <2>2 DEF Release, NotifyOne
    <3>2. waiting \ asleep = waiting /\ (waiting \ asleep)' = waiting
      BY <2>2, <3>1
    <3>3. Cardinality(waiting) >= m_wakeups + 1
      BY <2>2, WaitersFinite DEF WakesSomeone, CountersMatchWaiters, SemTypeOK
    <3> QED
      BY <3>1, <3>2, <3>3 DEF WakeupsHaveTakers
  <2>3. CASE WakesSomeone /\ asleep # {}
    <3>1. PICK t \in asleep : asleep' = asleep \ {t}
      BY <2>3 DEF Release, NotifyOne
    <3>2. (waiting \ asleep)' = (waiting \ asleep) \cup {t} /\ t \notin waiting \ asleep
      BY <3>1 DEF Release, SemTypeOK
    <3>3. Cardinality((waiting \ asleep)') = Cardinality(waiting \ asleep) + 1
      BY <3>2, AddOne, WaitersFinite
    <3> QED
      BY <2>3, <3>3, WaitersFinite DEF Release, WakeupsHaveTakers, SemTypeOK
  <2> QED
    BY <2>1, <2>2, <2>3
<1> QED
  BY <1>1, <1>2, <1>3

LEMMA AcquireReturnsInv ==
  ASSUME SemInv, NEW t \in Acquirers, AcquireReturns(t), passed' = passed \cup {t}
  PROVE  SemInv'
<1> USE DEF SemInv, AcquireReturns, MayPass, WakeupReady
<1>1. SemTypeOK'
  BY DEF SemTypeOK
<1>2. CountersMatchWaiters'
  BY WaitersFinite DEF CountersMatchWaiters, SemTypeOK
<1>3. WakeupsHaveTakers'
  BY WaitersFinite DEF WakeupsHaveTakers, SemTypeOK
<1> QED
  BY <1>1, <1>2, <1>3

LEMMA AcquireSleepsInv ==
  ASSUME SemInv, NEW t \in Acquirers, AcquireSleeps(t), t \notin passed, UNCHANGED passed
  PROVE  SemInv'
<1> USE DEF SemInv, AcquireSleeps, MayPass, WakeupReady
<1>1. SemTypeOK'
  BY DEF SemTypeOK
<1>2. CountersMatchWaiters'
  <2>1. Cardinality(waiting') = Cardinality(waiting) + 1
    BY AddOne, WaitersFinite
  <2> QED
    BY <2>1, WaitersFinite DEF CountersMatchWaiters, SemTypeOK
<1>3. WakeupsHaveTakers'
  <2>1. (waiting \ asleep)' = waiting \ asleep
    BY DEF SemTypeOK
  <2> QED
    BY <2>1 DEF WakeupsHaveTakers
<1> QED
  BY <1>1, <1>2, <1>3

LEMMA ResumeReturnsInv ==
  ASSUME SemInv, NEW t \in Acquirers, ResumeReturns(t), passed' = passed \cup {t}
  PROVE  SemInv'
<1> USE DEF SemInv, ResumeReturns, WakeupReady
<1>1. SemTypeOK'
  BY DEF SemTypeOK
<1>2. CountersMatchWaiters'
  <2>1. Cardinality(waiting') = Cardinality(waiting) - 1
    BY RemoveOne, WaitersFinite
  <2> QED
    BY <2>1, WaitersFinite DEF CountersMatchWaiters, SemTypeOK
<1>3. WakeupsHaveTakers'
  <2>1. (waiting \ asleep)' = (waiting \ asleep) \ {t}
    BY DEF SemTypeOK
  <2>2. Cardinality((waiting \ asleep)') = Cardinality(waiting \ asleep) - 1
    BY <2>1, RemoveOne, WaitersFinite
  <2> QED
    BY <2>2, WaitersFinite DEF WakeupsHaveTakers, SemTypeOK
<1> QED
  BY <1>1, <1>2, <1>3

\* A thread goes back to sleep only when there is no wakeup to take.
LEMMA ResumeSleepsInv ==
  ASSUME SemInv, NEW t \in Acquirers, ResumeSleeps(t), UNCHANGED passed
  PROVE  SemInv'
<1> USE DEF SemInv, ResumeSleeps, WakeupReady
<1>1. SemTypeOK'
  BY DEF SemTypeOK
<1>2. CountersMatchWaiters'
  BY DEF CountersMatchWaiters
<1>3. WakeupsHaveTakers'
  <2>1. (waiting \ asleep)' \subseteq waiting /\ m_wakeups' = 0
    BY DEF SemTypeOK
  <2>2. Cardinality((waiting \ asleep)') \in Nat
    BY <2>1, WaitersFinite, FS_Subset, FS_CardinalityType
  <2> QED
    BY <2>1, <2>2 DEF WakeupsHaveTakers
<1> QED
  BY <1>1, <1>2, <1>3

LEMMA SpuriousWakeupInv ==
  ASSUME SemInv, NEW t \in Acquirers, SemSpuriousWakeup(t), UNCHANGED passed
  PROVE  SemInv'
<1> USE DEF SemInv, SemSpuriousWakeup
<1>1. SemTypeOK'
  BY DEF SemTypeOK
<1>2. CountersMatchWaiters'
  BY DEF CountersMatchWaiters
<1>3. WakeupsHaveTakers'
  <2>1. (waiting \ asleep)' = (waiting \ asleep) \cup {t} /\ t \notin waiting \ asleep
    BY DEF SemTypeOK
  <2>2. Cardinality((waiting \ asleep)') = Cardinality(waiting \ asleep) + 1
    BY <2>1, AddOne, WaitersFinite
  <2> QED
    BY <2>2, WaitersFinite DEF WakeupsHaveTakers, SemTypeOK
<1> QED
  BY <1>1, <1>2, <1>3

\* The counters and the waiting threads agree throughout.
LEMMA SemInvHolds == SemSpec => []SemInv
<1>1. SemInit => SemInv
  <2> SUFFICES ASSUME SemInit PROVE SemInv
    OBVIOUS
  <2>1. waiting = {} /\ waiting \ asleep = {} /\ Cardinality({}) = 0
    BY FS_EmptySet DEF SemInit, InitSemaphore
  <2> QED
    BY <2>1 DEF SemInit, InitSemaphore, SemInv, SemTypeOK,
                               CountersMatchWaiters, WakeupsHaveTakers
<1>2. SemInv /\ [SemNext]_semVars => SemInv'
  <2> SUFFICES ASSUME SemInv, [SemNext]_semVars PROVE SemInv'
    OBVIOUS
  <2>1. CASE UNCHANGED semVars
    BY <2>1 DEF semVars, SemInv, SemTypeOK, CountersMatchWaiters, WakeupsHaveTakers
  <2>2. ASSUME NEW t \in Acquirers, GoOn(t) PROVE SemInv'
    BY <2>2 DEF GoOn, SemInv, SemTypeOK, CountersMatchWaiters, WakeupsHaveTakers
  <2> QED
    BY <2>1, <2>2, ReleaseInv, AcquireReturnsInv, AcquireSleepsInv, ResumeReturnsInv,
       ResumeSleepsInv, SpuriousWakeupInv DEF SemNext, Acquire, Resume
<1> QED
  BY <1>1, <1>2, PTL DEF SemSpec

\* Type correctness: m_wakeups never goes below zero.
THEOREM SemaphoreTypeCorrect == SemSpec => []SemTypeOK
BY SemInvHolds, PTL DEF SemInv

\* The two counters always account for the threads inside acquire().
THEOREM CountersExact == SemSpec => []CountersMatchWaiters
BY SemInvHolds, PTL DEF SemInv

\* For any number of threads, and although a late acquire() may take a wakeup
\* meant for a sleeper, there are as many threads awake as wakeups to take.
THEOREM SemaphoreWakeupsSuffice == SemSpec => []WakeupsHaveTakers
BY SemInvHolds, PTL DEF SemInv

\* For any number of threads acquire() and release() are those of a counting
\* semaphore.
THEOREM SemaphoreRefines == SemSpec => ImplementsCountingSemaphore
<1>1. SemInit => Abstract!Init
  BY DEF SemInit, InitSemaphore, Abstract!Init, Tokens
<1>2. SemInv /\ [SemNext]_semVars => [Abstract!Next]_Abstract!vars
  <2> SUFFICES ASSUME SemInv, [SemNext]_semVars PROVE [Abstract!Next]_Abstract!vars
    OBVIOUS
  <2> USE DEF SemInv, SemTypeOK, Tokens
  <2>1. CASE UNCHANGED semVars
    BY <2>1 DEF semVars, Abstract!vars
  <2>2. ASSUME Release, UNCHANGED passed PROVE Abstract!Next
    <3>1. Abstract!Put
      BY <2>2 DEF Release, WakesSomeone, Abstract!Put
    <3> QED
      BY <3>1 DEF Abstract!Next
  <2>3. ASSUME NEW t \in Acquirers, Acquire(t) PROVE Abstract!Next
    <3>1. ASSUME AcquireReturns(t), t \notin passed, passed' = passed \cup {t}
          PROVE  Abstract!Take(t)
      BY <3>1 DEF AcquireReturns, MayPass, WakeupReady, Abstract!Take
    <3>2. ASSUME AcquireSleeps(t), t \notin passed, UNCHANGED passed
          PROVE  Abstract!Block(t)
      BY <3>2 DEF AcquireSleeps, MayPass, WakeupReady, Abstract!Block
    <3> QED
      BY <2>3, <3>1, <3>2 DEF Acquire, Abstract!Next
  <2>4. ASSUME NEW t \in Acquirers, ResumeReturns(t), passed' = passed \cup {t}
        PROVE  Abstract!Next
    <3>1. Abstract!Unblock(t)
      BY <2>4 DEF ResumeReturns, WakeupReady, Abstract!Unblock
    <3> QED
      BY <3>1 DEF Abstract!Next
  <2>5. ASSUME NEW t \in Acquirers, GoOn(t) PROVE Abstract!Next
    <3>1. Abstract!GoOn(t)
      BY <2>5 DEF GoOn, Abstract!GoOn
    <3> QED
      BY <3>1 DEF Abstract!Next
  <2>6. ASSUME NEW t \in Acquirers, ResumeSleeps(t) \/ SemSpuriousWakeup(t),
               UNCHANGED passed
        PROVE  UNCHANGED Abstract!vars
    BY <2>6 DEF ResumeSleeps, SemSpuriousWakeup, Abstract!vars
  <2> QED
    BY <2>1, <2>2, <2>3, <2>4, <2>5, <2>6 DEF SemNext, Resume
<1> QED
  BY <1>1, <1>2, SemInvHolds, PTL DEF SemSpec, ImplementsCountingSemaphore, Abstract!Spec

-----------------------------------------------------------------------------
(* Thread_Pool.                                                            *)

\* The threads that run tasks.
Runners == Workers \cup Clients

\* The places in the queue.
Places == 1..Len(m_tasks)

\* The types of the variables.
PoolTypeInv ==
  /\ m_tasks \in Seq(Nat)
  /\ m_workers \in {Workers, {}}
  /\ worker \in [Workers -> {"wait", "run", "exited"}]
  /\ task \in [Runners -> Nat]
  /\ stopper \in [Stoppers -> {"idle", "join", "joined", "skipped"}]
  /\ accepted \in 0..MaxTasks
  /\ runs \in [1..MaxTasks -> Nat]

\* A task in the queue has one place there, and nobody runs it.
QueueInv ==
  /\ \A k \in Places : m_tasks[k] \in 1..accepted /\ runs[m_tasks[k]] = 0
  /\ \A j, k \in Places : m_tasks[j] = m_tasks[k] => j = k
  /\ \A k \in Places, t \in Runners : m_tasks[k] # task[t]

\* A task in somebody's hands is in nobody else's.
HandsInv ==
  /\ \A t \in Runners : task[t] # 0 => task[t] \in 1..accepted /\ runs[task[t]] = 0
  /\ \A t, u \in Runners : task[t] # 0 /\ task[t] = task[u] => t = u

\* A task that has not been run is in one of these places.
RunsInv ==
  /\ \A i \in 1..MaxTasks : runs[i] <= 1
  /\ \A i \in 1..MaxTasks : i > accepted => runs[i] = 0
  /\ \A i \in 1..accepted :
       runs[i] = 0 => \/ \E k \in Places : m_tasks[k] = i
                      \/ \E t \in Runners : task[t] = i

\* A worker leaves a pool that takes no more tasks and has none left.
PhaseInv ==
  /\ \A w \in Workers : worker[w] = "run" <=> task[w] # 0
  /\ \A w \in Workers : worker[w] = "exited" =>
       m_tasks = <<>> /\ (m_shutdown \/ m_workers = {})
  /\ m_workers = {} => m_tasks = <<>> /\ \A w \in Workers : worker[w] = "exited"
  /\ \A s \in Stoppers : stopper[s] = "joined" => m_workers = {}

\* Every task that was accepted is accounted for.
PoolInv == PoolTypeInv /\ QueueInv /\ HandsInv /\ RunsInv /\ PhaseInv

-----------------------------------------------------------------------------

\* The constructor.
LEMMA PoolInitInv == ASSUME PoolInit PROVE PoolInv
<1>1. m_tasks = <<>> /\ Places = {}
  BY DEF PoolInit, Places
<1>2. PoolTypeInv
  <2>1. m_tasks \in Seq(Nat) /\ m_workers \in {Workers, {}}
    BY DEF PoolInit
  <2>2. worker \in [Workers -> {"wait", "run", "exited"}]
    BY DEF PoolInit
  <2>3. task \in [Runners -> Nat] /\ stopper \in [Stoppers -> {"idle", "join", "joined", "skipped"}]
    BY DEF PoolInit, Runners
  <2>4. accepted \in 0..MaxTasks /\ runs \in [1..MaxTasks -> Nat]
    BY ThreadPoolAssumption DEF PoolInit
  <2> QED
    BY <2>1, <2>2, <2>3, <2>4 DEF PoolTypeInv
<1>3. QueueInv /\ HandsInv /\ RunsInv
  BY <1>1, ThreadPoolAssumption DEF PoolInit, QueueInv, HandsInv, RunsInv, Runners
<1>4. PhaseInv
  BY DEF PoolInit, PhaseInv
<1> QED
  BY <1>2, <1>3, <1>4 DEF PoolInv

\* The queue after push_back.
LEMMA Pushed ==
  ASSUME m_tasks \in Seq(Nat), NEW n \in Nat, m_tasks' = Append(m_tasks, n)
  PROVE  /\ m_tasks' \in Seq(Nat)
         /\ Len(m_tasks') = Len(m_tasks) + 1
         /\ Len(m_tasks) \in Nat
         /\ \A k \in Places : k \in Places' /\ m_tasks'[k] = m_tasks[k]
         /\ \A k \in Places' : k \in Places \/ k = Len(m_tasks')
         /\ m_tasks'[Len(m_tasks')] = n
BY DEF Places

\* The queue after pop_front.
LEMMA Popped ==
  ASSUME m_tasks \in Seq(Nat), m_tasks # <<>>, m_tasks' = Tail(m_tasks)
  PROVE  /\ m_tasks' \in Seq(Nat)
         /\ 1 \in Places /\ Head(m_tasks) = m_tasks[1]
         /\ \A k \in Places' : k + 1 \in Places /\ m_tasks'[k] = m_tasks[k + 1]
         /\ \A k \in Places : k = 1 \/ k - 1 \in Places'
         /\ \A k \in Places : k # 1 => m_tasks'[k - 1] = m_tasks[k]
BY DEF Places

\* queue_thunk() with workers.
LEMMA QueueTaskInv == ASSUME PoolInv, NEW c \in Clients, QueueTask(c) PROVE PoolInv'
<1>1. PoolTypeInv /\ QueueInv /\ HandsInv /\ RunsInv /\ PhaseInv
  BY DEF PoolInv
<1>2. /\ accepted + 1 \in 1..MaxTasks /\ accepted' = accepted + 1 /\ accepted \in Nat
      /\ runs' = runs /\ task' = task
  BY <1>1, ThreadPoolAssumption DEF QueueTask, PoolTypeInv
<1>3. /\ m_tasks' \in Seq(Nat)
      /\ \A k \in Places : k \in Places' /\ m_tasks'[k] = m_tasks[k]
      /\ \A k \in Places' : k \in Places \/ k = Len(m_tasks')
      /\ m_tasks'[Len(m_tasks')] = accepted'
      /\ Len(m_tasks') \in Places'
  BY <1>1, <1>2, Pushed DEF QueueTask, PoolTypeInv, Places
<1>4. /\ runs[accepted'] = 0
      /\ \A t \in Runners : task[t] # accepted'
      /\ \A k \in Places : m_tasks[k] # accepted'
      /\ \A i \in 1..accepted : i \in 1..accepted'
      /\ \A i \in 1..accepted' : i \in 1..accepted \/ i = accepted'
      /\ accepted' \in 1..accepted'
  <2>1. runs[accepted'] = 0
    BY <1>1, <1>2 DEF RunsInv
  <2>2. \A t \in Runners : task[t] # accepted'
    BY <1>1, <1>2 DEF HandsInv
  <2> QED
    BY <1>1, <1>2, <2>1, <2>2 DEF QueueInv
<1>5. PoolTypeInv'
  BY <1>1, <1>2, <1>3 DEF QueueTask, PoolTypeInv
<1>6. QueueInv'
  <2>1. \A k \in Places' : m_tasks'[k] \in 1..accepted' /\ runs'[m_tasks'[k]] = 0
    BY <1>1, <1>2, <1>3, <1>4 DEF QueueInv
  <2>2. \A j, k \in Places' : m_tasks'[j] = m_tasks'[k] => j = k
    BY <1>1, <1>3, <1>4 DEF QueueInv
  <2>3. \A k \in Places', t \in Runners : m_tasks'[k] # task'[t]
    BY <1>1, <1>2, <1>3, <1>4 DEF QueueInv
  <2> QED
    BY <2>1, <2>2, <2>3 DEF QueueInv
<1>7. HandsInv'
  BY <1>1, <1>2, <1>4 DEF HandsInv
<1>8. RunsInv'
  <2>1. \A i \in 1..accepted' : runs'[i] = 0 => \/ \E k \in Places' : m_tasks'[k] = i
                                              \/ \E t \in Runners : task'[t] = i
    BY <1>1, <1>2, <1>3, <1>4 DEF RunsInv
  <2> QED
    BY <1>1, <1>2, <2>1 DEF RunsInv
<1>9. PhaseInv'
  BY <1>1 DEF QueueTask, Disabled, Open, PoolTypeInv, PhaseInv
<1> QED
  BY <1>5, <1>6, <1>7, <1>8, <1>9 DEF PoolInv

\* queue_thunk() without workers.
LEMMA RunInlineInv == ASSUME PoolInv, NEW c \in Clients, RunInline(c) PROVE PoolInv'
<1>1. PoolTypeInv /\ QueueInv /\ HandsInv /\ RunsInv /\ PhaseInv
  BY DEF PoolInv
<1>2. /\ accepted + 1 \in 1..MaxTasks /\ accepted' = accepted + 1 /\ accepted \in Nat
      /\ runs' = runs
  BY <1>1, ThreadPoolAssumption DEF RunInline, PoolTypeInv
<1>3. m_tasks = <<>> /\ Places = {} /\ Places' = {}
  BY <1>1 DEF RunInline, Disabled, PhaseInv, Places
<1>4. /\ c \in Runners /\ c \notin Workers
      /\ task' = [task EXCEPT ![c] = accepted + 1]
  BY ThreadPoolAssumption DEF RunInline, Runners
<1>5. PoolTypeInv'
  BY <1>1, <1>2, <1>4 DEF RunInline, PoolTypeInv
<1>6. QueueInv'
  BY <1>3 DEF QueueInv
<1>7. HandsInv'
  BY <1>1, <1>2, <1>4 DEF PoolTypeInv, HandsInv, RunsInv
<1>8. RunsInv'
  BY <1>1, <1>2, <1>3, <1>4 DEF RunInline, PoolTypeInv, RunsInv
<1>9. PhaseInv'
  BY <1>1, <1>4 DEF RunInline, PoolTypeInv, PhaseInv, Runners
<1> QED
  BY <1>5, <1>6, <1>7, <1>8, <1>9 DEF PoolInv

\* worker_thread() takes a task from the queue.
LEMMA WorkerTakesInv == ASSUME PoolInv, NEW w \in Workers, WorkerTakes(w) PROVE PoolInv'
<1>1. PoolTypeInv /\ QueueInv /\ HandsInv /\ RunsInv /\ PhaseInv
  BY DEF PoolInv
<1>2. /\ m_tasks' \in Seq(Nat)
      /\ 1 \in Places
      /\ \A k \in Places' : k + 1 \in Places /\ m_tasks'[k] = m_tasks[k + 1]
      /\ \A k \in Places : k = 1 \/ (k - 1 \in Places' /\ m_tasks'[k - 1] = m_tasks[k])
      /\ \A k \in Places' : k \in Nat /\ k + 1 # 1
  BY <1>1, Popped DEF WorkerTakes, Rest, PoolTypeInv, Places
<1>3. /\ w \in Runners
      /\ task' = [task EXCEPT ![w] = m_tasks[1]]
      /\ task[w] = 0
      /\ m_tasks[1] \in 1..accepted /\ m_tasks[1] # 0
      /\ accepted' = accepted /\ runs' = runs
  BY <1>1, <1>2, Popped DEF WorkerTakes, PoolTypeInv, PhaseInv, QueueInv, Runners
<1>4. /\ task'[w] = m_tasks[1]
      /\ \A t \in Runners : t # w => task'[t] = task[t]
  BY <1>1, <1>3 DEF PoolTypeInv
<1>5. PoolTypeInv'
  BY <1>1, <1>2, <1>3 DEF WorkerTakes, PoolTypeInv
<1>6. QueueInv'
  <2>1. \A k \in Places' : m_tasks'[k] \in 1..accepted' /\ runs'[m_tasks'[k]] = 0
    BY <1>1, <1>2, <1>3 DEF QueueInv
  <2>2. \A j, k \in Places' : m_tasks'[j] = m_tasks'[k] => j = k
    BY <1>1, <1>2 DEF QueueInv
  <2>3. \A k \in Places', t \in Runners : m_tasks'[k] # task'[t]
    BY <1>1, <1>2, <1>4 DEF QueueInv
  <2> QED
    BY <2>1, <2>2, <2>3 DEF QueueInv
<1>7. HandsInv'
  BY <1>1, <1>2, <1>3, <1>4 DEF QueueInv, HandsInv
<1>8. RunsInv'
  <2>1. ASSUME NEW i \in 1..accepted, runs[i] = 0
        PROVE  \/ \E k \in Places' : m_tasks'[k] = i
               \/ \E t \in Runners : task'[t] = i
    <3>1. CASE \E k \in Places : m_tasks[k] = i
      BY <1>2, <1>3, <1>4, <3>1
    <3>2. CASE \E t \in Runners : task[t] = i
      BY <1>3, <1>4, <3>2
    <3> QED
      BY <1>1, <2>1, <3>1, <3>2 DEF RunsInv
  <2> QED
    BY <1>1, <1>3, <2>1 DEF RunsInv
<1>9. PhaseInv'
  BY <1>1, <1>3, <1>4 DEF WorkerTakes, PoolTypeInv, PhaseInv, Runners
<1> QED
  BY <1>5, <1>6, <1>7, <1>8, <1>9 DEF PoolInv

\* A task is run.
LEMMA RunTaskInv == ASSUME PoolInv, NEW t \in Runners, RunTask(t) PROVE PoolInv'
<1>1. PoolTypeInv /\ QueueInv /\ HandsInv /\ RunsInv /\ PhaseInv
  BY DEF PoolInv
<1>2. /\ task[t] \in 1..accepted /\ task[t] \in 1..MaxTasks /\ task[t] # 0
      /\ runs[task[t]] = 0
      /\ runs' = [runs EXCEPT ![task[t]] = 1]
      /\ task' = [task EXCEPT ![t] = 0]
  <2>1. task[t] \in 1..accepted /\ task[t] # 0 /\ runs[task[t]] = 0
    BY <1>1 DEF RunTask, HandsInv
  <2>2. task[t] \in 1..MaxTasks
    BY <1>1, <2>1, ThreadPoolAssumption DEF PoolTypeInv
  <2> QED
    BY <2>1, <2>2 DEF RunTask
<1>3. Places' = Places /\ m_tasks' = m_tasks /\ accepted' = accepted
  BY DEF RunTask, Places
<1>4. /\ task'[t] = 0
      /\ \A u \in Runners : u # t => task'[u] = task[u]
      /\ runs'[task[t]] = 1
      /\ \A i \in 1..MaxTasks : i # task[t] => runs'[i] = runs[i]
      /\ \A i \in 1..accepted : i \in 1..MaxTasks
  <2>1. task'[t] = 0 /\ \A u \in Runners : u # t => task'[u] = task[u]
    BY <1>1, <1>2 DEF PoolTypeInv
  <2>2. runs'[task[t]] = 1 /\ \A i \in 1..MaxTasks : i # task[t] => runs'[i] = runs[i]
    BY <1>1, <1>2 DEF PoolTypeInv
  <2>3. \A i \in 1..accepted : i \in 1..MaxTasks
    BY <1>1, ThreadPoolAssumption DEF PoolTypeInv
  <2> QED
    BY <2>1, <2>2, <2>3
<1>5. PoolTypeInv'
  BY <1>1, <1>2 DEF RunTask, PoolTypeInv
<1>6. QueueInv'
  BY <1>1, <1>3, <1>4 DEF QueueInv, HandsInv
<1>7. HandsInv'
  <2>1. ASSUME NEW u \in Runners, task'[u] # 0
        PROVE  task'[u] \in 1..accepted /\ runs'[task'[u]] = 0
    <3>1. u # t /\ task'[u] = task[u] /\ task[u] \in 1..accepted /\ runs[task[u]] = 0
      BY <1>1, <1>4, <2>1 DEF HandsInv
    <3>2. task[u] # task[t]
      BY <1>1, <1>2, <3>1 DEF HandsInv
    <3> QED
      BY <1>4, <3>1, <3>2
  <2>2. \A u, v \in Runners : task'[u] # 0 /\ task'[u] = task'[v] => u = v
    BY <1>1, <1>4 DEF HandsInv
  <2> QED
    BY <1>3, <2>1, <2>2 DEF HandsInv
<1>8. RunsInv'
  <2>1. \A i \in 1..MaxTasks : runs'[i] <= 1 /\ (i > accepted => runs'[i] = 0)
    <3>1. \A i \in 1..MaxTasks : i # task[t] => runs'[i] <= 1 /\ (i > accepted => runs'[i] = 0)
      BY <1>1, <1>4 DEF RunsInv
    <3>2. runs'[task[t]] <= 1 /\ ~(task[t] > accepted)
      BY <1>1, <1>2, <1>4 DEF PoolTypeInv
    <3> QED
      BY <3>1, <3>2
  <2>2. ASSUME NEW i \in 1..accepted, runs'[i] = 0
        PROVE  \/ \E k \in Places : m_tasks[k] = i
               \/ \E u \in Runners : task'[u] = i
    <3>1. i # task[t] /\ runs[i] = 0
      BY <1>4, <2>2
    <3>2. CASE \E k \in Places : m_tasks[k] = i
      BY <3>2
    <3>3. CASE \E u \in Runners : task[u] = i
      BY <1>4, <3>1, <3>3
    <3> QED
      BY <1>1, <3>1, <3>2, <3>3 DEF RunsInv
  <2> QED
    BY <1>3, <2>1, <2>2 DEF RunsInv
<1>9. PhaseInv'
  BY <1>1, <1>3, <1>4 DEF RunTask, PoolTypeInv, PhaseInv, Runners
<1> QED
  BY <1>5, <1>6, <1>7, <1>8, <1>9 DEF PoolInv

\* Steps that touch neither the queue nor the tasks.
LEMMA TasksStay ==
  ASSUME PoolInv, UNCHANGED <<m_tasks, task, accepted, runs>>
  PROVE  QueueInv' /\ HandsInv' /\ RunsInv'
BY DEF PoolInv, QueueInv, HandsInv, RunsInv, Places

\* PoolInv is inductive.
LEMMA PoolNextInv == ASSUME PoolInv, [PoolNext]_poolVars PROVE PoolInv'
<1> USE DEF PoolInv
<1>1. CASE UNCHANGED poolVars
  BY <1>1, TasksStay DEF poolVars, PoolTypeInv, PhaseInv
<1>2. ASSUME NEW c \in Clients, Refuse(c) PROVE PoolInv'
  BY <1>2, TasksStay DEF Refuse, PoolTypeInv, PhaseInv
<1>3. ASSUME NEW w \in Workers, WorkerSleeps(w) \/ PoolSpuriousWakeup(w) PROVE PoolInv'
  BY <1>3, TasksStay DEF WorkerSleeps, PoolSpuriousWakeup, PoolTypeInv, PhaseInv
<1>4. ASSUME NEW w \in Workers, WorkerLeaves(w) PROVE PoolInv'
  <2>1. PoolTypeInv' /\ QueueInv' /\ HandsInv' /\ RunsInv'
    BY <1>4, TasksStay DEF WorkerLeaves, PoolTypeInv
  <2>2. PhaseInv'
    BY <1>4 DEF WorkerLeaves, MayLeave, PoolTypeInv, PhaseInv
  <2> QED
    BY <2>1, <2>2
<1>5. ASSUME NEW s \in Stoppers, Shutdown(s) PROVE PoolInv'
  <2>1. PoolTypeInv' /\ QueueInv' /\ HandsInv' /\ RunsInv'
    BY <1>5, TasksStay DEF Shutdown, PoolTypeInv
  <2>2. PhaseInv'
    BY <1>5 DEF Shutdown, PoolTypeInv, PhaseInv
  <2> QED
    BY <2>1, <2>2
<1>6. ASSUME NEW s \in Stoppers, JoinAll(s) PROVE PoolInv'
  <2>1. PoolTypeInv' /\ QueueInv' /\ HandsInv' /\ RunsInv'
    BY <1>6, TasksStay DEF JoinAll, PoolTypeInv
  <2>2. \A w \in Workers : worker[w] = "exited"
    BY <1>6 DEF JoinAll, PoolTypeInv, PhaseInv
  <2>3. m_tasks = <<>>
    BY <2>2 DEF PoolTypeInv, PhaseInv
  <2>4. PhaseInv'
    BY <1>6, <2>2, <2>3 DEF JoinAll, PoolTypeInv, PhaseInv
  <2> QED
    BY <2>1, <2>4
<1> QED
  BY <1>1, <1>2, <1>3, <1>4, <1>5, <1>6, QueueTaskInv, RunInlineInv, WorkerTakesInv, RunTaskInv
  DEF PoolNext, WorkerStep, ClientStep, Runners

\* The queue, the hands and the runs account for every accepted task throughout.
THEOREM TasksAccountedFor == PoolSpec => []PoolInv
<1>1. PoolInit => PoolInv
  BY PoolInitInv
<1>2. PoolInv /\ [PoolNext]_poolVars => PoolInv'
  BY PoolNextInv
<1> QED
  BY <1>1, <1>2, PTL DEF PoolSpec

-----------------------------------------------------------------------------

\* A task is counted where it is, and only there.
LEMMA OnePlace ==
  ASSUME PoolInv, NEW i \in 1..accepted, runs[i] = 0
  PROVE  Cardinality({k \in DOMAIN m_tasks : m_tasks[k] = i})
         + Cardinality({t \in Runners : task[t] = i}) = 1
<1> DEFINE In == {k \in DOMAIN m_tasks : m_tasks[k] = i}
           By == {t \in Runners : task[t] = i}
<1> USE DEF PoolInv
<1>1. DOMAIN m_tasks = Places /\ i # 0
  BY DEF PoolTypeInv, Places
<1>2. CASE \E k \in Places : m_tasks[k] = i
  <2>1. PICK k \in Places : m_tasks[k] = i
    BY <1>2
  <2>2. In = {k} /\ By = {}
    BY <1>1, <2>1 DEF QueueInv
  <2>3. Cardinality(In) = 1 /\ Cardinality(By) = 0
    BY <2>2, FS_Singleton, FS_EmptySet
  <2> QED
    BY <2>3
<1>3. CASE \E t \in Runners : task[t] = i
  <2>1. PICK t \in Runners : task[t] = i
    BY <1>3
  <2>2. In = {} /\ By = {t}
    BY <1>1, <2>1 DEF QueueInv, HandsInv
  <2>3. Cardinality(In) = 0 /\ Cardinality(By) = 1
    BY <2>2, FS_Singleton, FS_EmptySet
  <2> QED
    BY <2>3
<1> QED
  BY <1>2, <1>3 DEF RunsInv

\* No task that queue_thunk() accepted is lost or run twice: until it has
\* been run it is in the queue once, or in the hands of one thread.
THEOREM TasksRunOnce == PoolSpec => []EachTaskOnce
<1>1. PoolInv => EachTaskOnce
  <2> SUFFICES ASSUME PoolInv PROVE EachTaskOnce
    OBVIOUS
  <2>1. \A i \in 1..accepted : runs[i] <= 1
    BY ThreadPoolAssumption DEF PoolInv, PoolTypeInv, RunsInv
  <2>2. \A i \in Pending : i \in 1..accepted /\ runs[i] = 0
    BY DEF Pending
  <2>3. ASSUME NEW i \in Pending
        PROVE  Cardinality({k \in DOMAIN m_tasks : m_tasks[k] = i})
               + Cardinality({t \in Workers \cup Clients : task[t] = i}) = 1
    BY <2>2, OnePlace DEF Runners
  <2> QED
    BY <2>1, <2>3 DEF EachTaskOnce
<1>2. PoolSpec => []PoolInv
  BY TasksAccountedFor
<1> QED
  BY <1>1, <1>2, PTL

\* When shutdown() has joined the workers the queue is empty and no worker
\* has a task: worker_thread() returns only once there is nothing left.
THEOREM ShutdownDrainsQueue == PoolSpec => []ShutdownDrains
<1>1. PoolInv => ShutdownDrains
  BY DEF PoolInv, PoolTypeInv, PhaseInv, ShutdownDrains, Runners
<1>2. PoolSpec => []PoolInv
  BY TasksAccountedFor
<1> QED
  BY <1>1, <1>2, PTL
=============================================================================
