------------------------- MODULE ThreadedForkProofs -------------------------
(***************************************************************************)
(* Proofs about ThreadedFork, for any number of ports and of inputs, of    *)
(* which any may be null: that the caller and the workers are in lock-step *)
(* although a worker may still be inside sync() of one input when the next *)
(* one is being sent.                                                      *)
(*                                                                         *)
(* The argument counts: while an input is being processed, every port is   *)
(* accounted for by a token of the semaphore, by a release() that is still *)
(* to come, or by a worker that has taken its token; and the barrier's     *)
(* value is the number of threads that have not arrived.  So the last to   *)
(* arrive finds no token left, and between two inputs nobody runs.         *)
(***************************************************************************)
EXTENDS ThreadedFork, FiniteSetTheorems, SequenceTheorems, TLAPS

Waits(t) == b_current[t] = b_syncs

\* The workers that have the current input and have not called sync() ...
Busy == {p \in Ports : worker[p] \in {"check", "write", "capture", "sync"}}

\* ... and those that wait at the barrier that is still closed.  A worker that
\* is inside sync() of an earlier input is in neither set.
Arrived == {p \in Ports : worker[p] = "syncing" /\ Waits(p)}

Entered == Busy \cup Arrived

\* The barrier is armed and has not opened.
InRound == caller = "release" \/ (caller = "syncing" /\ Waits(Caller))

\* No input is with the workers.
Resting == caller \in {"idle", "arm", "finish"} \/ (caller = "syncing" /\ ~Waits(Caller))

\* The destructor has begun.
Leaving == caller \in {"quit", "gone"}

\* The filter of p has been given the current input.
Served(p) == worker[p] \in {"capture", "sync"} \/ (worker[p] = "syncing" /\ Waits(p))

\* The number of inputs that the filter of p has been given.
Received(p) == IF caller = "arm" \/ (InRound /\ ~Served(p)) THEN sent - 1 ELSE sent

-----------------------------------------------------------------------------
(* The inductive invariant.                                                *)

Places == {"acquire", "acquiring", "check", "write", "capture", "sync", "syncing", "exited"}

TypeInv ==
  /\ caller \in {"idle", "arm", "release", "syncing", "finish", "quit", "gone"}
  /\ worker \in [Ports -> Places]
  /\ sent \in Nat /\ toRelease \in Nat
  /\ s_value \in Int /\ s_wakeups \in Nat
  /\ b_value \in Nat /\ b_syncs \in Nat
  /\ b_current \in [Ports \cup {Caller} -> Nat]
  /\ \A t \in Ports \cup {Caller} : b_current[t] <= b_syncs
  /\ got \in [Ports -> Seq(Nat)]

RoundInv ==
  InRound =>
    /\ Semaphore!Tokens + toRelease + Cardinality(Entered) = Cardinality(Ports)
    /\ b_value = Cardinality(Ports \ Arrived) + (IF caller = "syncing" THEN 0 ELSE 1)
    /\ caller = "syncing" => toRelease = 0

RestInv ==
  /\ Resting => Semaphore!Tokens = 0 /\ toRelease = 0 /\ b_value = 0 /\ Entered = {}
  /\ Leaving => \A p \in Ports : worker[p] \notin {"write", "capture", "sync"}

Sending == caller \notin {"idle", "quit", "gone"}

InputInv ==
  /\ m_input = IF Sending THEN sent ELSE 0
  /\ Sending => sent > 0

GotInv == \A p \in Ports \ NullPorts : got[p] = [i \in 1..Received(p) |-> i]

ExceptionInv ==
  /\ failed \subseteq 1..sent
  /\ ~Sending => reported = failed
  /\ Sending => /\ sent \notin reported
                /\ failed \ {sent} = reported
                /\ m_exception \/ (\E p \in Ports : worker[p] = "capture") => sent \in failed
                /\ sent \in failed => m_exception \/ \E p \in Ports : worker[p] = "capture"
  /\ caller = "arm" => sent \notin failed

Inv == TypeInv /\ RoundInv /\ RestInv /\ InputInv /\ GotInv /\ ExceptionInv

-----------------------------------------------------------------------------
(* Counting.                                                               *)

\* Sets of ports and their sizes.
LEMMA Sizes ==
  ASSUME NEW S \in SUBSET Ports
  PROVE  /\ Cardinality(S) \in Nat
         /\ Cardinality(S) <= Cardinality(Ports)
         /\ Cardinality(Ports) \in Nat
         /\ Cardinality(S) = 0 <=> S = {}
         /\ Cardinality(S) = Cardinality(Ports) => S = Ports
         /\ \A p \in Ports \ S : Cardinality(S \cup {p}) = Cardinality(S) + 1
         /\ \A p \in S : Cardinality(S \ {p}) = Cardinality(S) - 1
<1>1. IsFiniteSet(Ports)
  BY ThreadedForkAssumption
<1>2. IsFiniteSet(S) /\ Cardinality(S) <= Cardinality(Ports)
      /\ (Cardinality(S) = Cardinality(Ports) => S = Ports)
  BY <1>1, FS_Subset
<1>3. Cardinality(S) \in Nat /\ Cardinality(Ports) \in Nat
  BY <1>1, <1>2, FS_CardinalityType
<1>4. Cardinality(S) = 0 <=> S = {}
  BY <1>2, FS_EmptySet
<1>5. \A p \in Ports \ S : Cardinality(S \cup {p}) = Cardinality(S) + 1
  BY <1>2, FS_AddElement
<1>6. \A p \in S : Cardinality(S \ {p}) = Cardinality(S) - 1
  BY <1>2, FS_RemoveElement
<1>. QED
  BY <1>2, <1>3, <1>4, <1>5, <1>6

\* What the operations of the semaphore do to the number of its tokens.
LEMMA TokenCount ==
  ASSUME s_value \in Int, s_wakeups \in Nat
  PROVE  /\ Semaphore!Tokens \in Nat
         /\ Semaphore!Release =>
              s_value' \in Int /\ s_wakeups' \in Nat /\ Semaphore!Tokens' = Semaphore!Tokens + 1
         /\ \A p \in Ports :
              /\ Semaphore!AcquireReturns(p) \/ Semaphore!ResumeReturns(p) =>
                   s_value' \in Int /\ s_wakeups' \in Nat /\ Semaphore!Tokens' = Semaphore!Tokens - 1
                   /\ Semaphore!Tokens > 0
              /\ Semaphore!AcquireSleeps(p) \/ Semaphore!ResumeSleeps(p) \/ Semaphore!SemSpuriousWakeup(p) =>
                   s_value' \in Int /\ s_wakeups' \in Nat /\ Semaphore!Tokens' = Semaphore!Tokens
         /\ UNCHANGED semVars =>
              s_value' \in Int /\ s_wakeups' \in Nat /\ Semaphore!Tokens' = Semaphore!Tokens
<1>1. Semaphore!Tokens \in Nat
  BY DEF Semaphore!Tokens
<1>2. Semaphore!Release =>
        s_value' \in Int /\ s_wakeups' \in Nat /\ Semaphore!Tokens' = Semaphore!Tokens + 1
  BY DEF Semaphore!Tokens, Semaphore!Release, Semaphore!WakesSomeone
<1>3. ASSUME NEW p \in Ports
      PROVE  Semaphore!AcquireReturns(p) \/ Semaphore!ResumeReturns(p) =>
               s_value' \in Int /\ s_wakeups' \in Nat /\ Semaphore!Tokens' = Semaphore!Tokens - 1
               /\ Semaphore!Tokens > 0
  BY DEF Semaphore!Tokens, Semaphore!AcquireReturns, Semaphore!ResumeReturns, Semaphore!MayPass,
         Semaphore!WakeupReady
<1>4. ASSUME NEW p \in Ports
      PROVE  Semaphore!AcquireSleeps(p) \/ Semaphore!ResumeSleeps(p) \/ Semaphore!SemSpuriousWakeup(p) =>
               s_value' \in Int /\ s_wakeups' \in Nat /\ Semaphore!Tokens' = Semaphore!Tokens
  BY DEF Semaphore!Tokens, Semaphore!AcquireSleeps, Semaphore!ResumeSleeps, Semaphore!SemSpuriousWakeup,
         Semaphore!MayPass
<1>5. UNCHANGED semVars =>
        s_value' \in Int /\ s_wakeups' \in Nat /\ Semaphore!Tokens' = Semaphore!Tokens
  BY DEF Semaphore!Tokens, semVars
<1>. QED
  BY <1>1, <1>2, <1>3, <1>4, <1>5

\* One more input makes the next initial segment of the numbers.
LEMMA NextInput ==
  ASSUME NEW n \in Nat, n > 0, NEW s, s = [i \in 1..(n - 1) |-> i]
  PROVE  Append(s, n) = [i \in 1..n |-> i]
<1>1. s \in Seq(Nat) /\ Len(s) = n - 1
  OBVIOUS
<1>. QED
  BY <1>1

-----------------------------------------------------------------------------
(* The steps.                                                              *)

LEMMA InvInit == Init => Inv
<1>. SUFFICES ASSUME Init PROVE Inv
  OBVIOUS
<1>1. TypeInv
  BY DEF Init, TypeInv, Places, Semaphore!InitSemaphore, Barrier!Init
<1>2. caller = "idle" /\ sent = 0 /\ Entered = {} /\ Semaphore!Tokens = 0
  BY DEF Init, Entered, Busy, Arrived, Semaphore!InitSemaphore, Semaphore!Tokens
<1>3. RoundInv /\ RestInv
  BY <1>2 DEF RoundInv, RestInv, InRound, Resting, Leaving, Init, Barrier!Init
<1>4. InputInv /\ ExceptionInv
  BY <1>2 DEF InputInv, ExceptionInv, Sending, Init
<1>5. GotInv
  <2>1. ASSUME NEW p \in Ports PROVE got[p] = << >> /\ Received(p) = 0
    BY <1>2 DEF Init, Received, InRound
  <2>2. << >> = [i \in 1..0 |-> i]
    OBVIOUS
  <2>. QED
    BY <2>1, <2>2 DEF GotInv
<1>. QED
  BY <1>1, <1>3, <1>4, <1>5 DEF Inv

\* A worker goes to another place.
LEMMA Move ==
  ASSUME TypeInv, NEW p \in Ports, NEW w \in Places, Goto(p, w)
  PROVE  /\ worker' \in [Ports -> Places]
         /\ worker'[p] = w
         /\ \A q \in Ports : q # p => worker'[q] = worker[q]
BY DEF TypeInv, Goto

\* With the caller where it is and the barrier as it is, the phase is the same.
LEMMA SamePhase ==
  ASSUME UNCHANGED <<caller, b_syncs, b_current>>
  PROVE  /\ InRound' <=> InRound
         /\ Resting' <=> Resting
         /\ Leaving' <=> Leaving
         /\ Sending' <=> Sending
         /\ \A t : Waits(t)' <=> Waits(t)
BY DEF InRound, Resting, Leaving, Sending, Waits

\* The variables that a worker does not change while it runs.
others == <<caller, sent, toRelease, reported, m_input, b_value, b_syncs, b_current>>

\* Steps that only concern workers without the current input, and tokens not at all.
LEMMA Silent ==
  ASSUME Inv,
         UNCHANGED others, UNCHANGED <<got, failed, m_exception>>,
         s_value' \in Int, s_wakeups' \in Nat, Semaphore!Tokens' = Semaphore!Tokens,
         worker' \in [Ports -> Places],
         \A q \in Ports : \/ worker'[q] = worker[q]
                          \/ /\ worker'[q] \in {"acquire", "acquiring"}
                             /\ \/ worker[q] \in {"acquire", "acquiring"}
                                \/ worker[q] = "syncing" /\ ~Waits(q)
  PROVE  Inv'
<1>1. UNCHANGED <<caller, sent, toRelease, reported, m_input, b_value, b_syncs, b_current>>
  BY DEF others
<1>2. /\ (InRound' <=> InRound) /\ (Resting' <=> Resting) /\ (Leaving' <=> Leaving) /\ (Sending' <=> Sending)
      /\ \A t : Waits(t)' <=> Waits(t)
  BY <1>1, SamePhase
<1>3. Busy' = Busy /\ Arrived' = Arrived /\ Entered' = Entered
  BY <1>2 DEF Busy, Arrived, Entered
<1>4. \A q \in Ports : Received(q)' = Received(q)
  BY <1>1, <1>2 DEF Received, Served
<1>5. TypeInv'
  BY <1>1 DEF Inv, TypeInv
<1>6. RoundInv'
  BY <1>1, <1>2, <1>3 DEF Inv, RoundInv
<1>7. RestInv'
  BY <1>1, <1>2, <1>3 DEF Inv, RestInv
<1>8. InputInv'
  BY <1>1, <1>2 DEF Inv, InputInv
<1>9. GotInv'
  BY <1>4 DEF Inv, GotInv
<1>10. ExceptionInv'
  BY <1>1, <1>2 DEF Inv, ExceptionInv
<1>. QED
  BY <1>5, <1>6, <1>7, <1>8, <1>9, <1>10 DEF Inv

\* A worker takes a token: there was one, so an input is being processed or the
\* workers are told to quit.
LEMMA Enter ==
  ASSUME Inv, NEW p \in Ports,
         UNCHANGED others, UNCHANGED <<got, failed, m_exception>>,
         worker[p] \in {"acquire", "acquiring"}, Goto(p, "check"),
         Semaphore!AcquireReturns(p) \/ Semaphore!ResumeReturns(p)
  PROVE  Inv'
<1>1. UNCHANGED <<caller, sent, toRelease, reported, m_input, b_value, b_syncs, b_current>>
  BY DEF others
<1>2. /\ (InRound' <=> InRound) /\ (Resting' <=> Resting) /\ (Leaving' <=> Leaving) /\ (Sending' <=> Sending)
      /\ \A t : Waits(t)' <=> Waits(t)
  BY <1>1, SamePhase
<1>3. /\ worker' \in [Ports -> Places] /\ worker'[p] = "check"
      /\ \A q \in Ports : q # p => worker'[q] = worker[q]
  BY Move DEF Inv, Places
<1>4. /\ s_value' \in Int /\ s_wakeups' \in Nat
      /\ Semaphore!Tokens \in Nat /\ Semaphore!Tokens' = Semaphore!Tokens - 1
  BY TokenCount DEF Inv, TypeInv
<1>5. Semaphore!Tokens > 0
  BY TokenCount DEF Inv, TypeInv
<1>6. Arrived' = Arrived /\ Entered' = Entered \cup {p} /\ p \notin Entered /\ Entered \subseteq Ports
  BY <1>2, <1>3 DEF Busy, Arrived, Entered
<1>7. \A q \in Ports : Received(q)' = Received(q)
  BY <1>1, <1>2, <1>3 DEF Received, Served
<1>8. TypeInv'
  BY <1>1, <1>3, <1>4 DEF Inv, TypeInv
<1>9. RoundInv'
  <2>1. Cardinality(Entered') = Cardinality(Entered) + 1 /\ Cardinality(Entered) \in Nat
    BY <1>6, Sizes
  <2>. QED
    BY <1>1, <1>2, <1>4, <1>6, <2>1 DEF Inv, RoundInv, TypeInv
<1>10. RestInv'
  <2>1. ~Resting
    BY <1>4, <1>5 DEF Inv, RestInv
  <2>. QED
    BY <1>2, <1>3, <2>1 DEF Inv, RestInv
<1>11. InputInv'
  BY <1>1, <1>2 DEF Inv, InputInv
<1>12. GotInv'
  BY <1>7 DEF Inv, GotInv
<1>13. ExceptionInv'
  BY <1>1, <1>2, <1>3 DEF Inv, ExceptionInv
<1>. QED
  BY <1>8, <1>9, <1>10, <1>11, <1>12, <1>13 DEF Inv

LEMMA InvAcquire == ASSUME Inv, NEW p \in Ports, Acquire(p) \/ AcquireResumes(p) PROVE Inv'
<1>1. UNCHANGED others /\ UNCHANGED <<got, failed, m_exception>>
  BY DEF Acquire, AcquireResumes, others, history, barVars
<1>2. CASE /\ worker[p] \in {"acquire", "acquiring"} /\ Goto(p, "check")
           /\ Semaphore!AcquireReturns(p) \/ Semaphore!ResumeReturns(p)
  BY <1>1, <1>2, Enter
<1>3. CASE /\ worker[p] \in {"acquire", "acquiring"} /\ (Goto(p, "acquiring") \/ UNCHANGED worker)
           /\ Semaphore!AcquireSleeps(p) \/ Semaphore!ResumeSleeps(p)
  <2>1. s_value' \in Int /\ s_wakeups' \in Nat /\ Semaphore!Tokens' = Semaphore!Tokens
    BY <1>3, TokenCount DEF Inv, TypeInv
  <2>2. /\ worker' \in [Ports -> Places]
        /\ \A q \in Ports : worker'[q] = worker[q] \/ (q = p /\ worker'[q] = "acquiring")
    BY <1>3, Move DEF Inv, TypeInv, Places
  <2>. QED
    BY <1>1, <1>3, <2>1, <2>2, Silent
<1>. QED
  BY <1>2, <1>3 DEF Acquire, AcquireResumes

\* The three phases.
LEMMA Phases ==
  ASSUME TypeInv
  PROVE  /\ InRound \/ Resting \/ Leaving
         /\ InRound => ~Resting /\ ~Leaving /\ Sending /\ caller # "arm"
         /\ Leaving => ~Sending /\ ~Resting /\ caller # "arm"
BY DEF TypeInv, InRound, Resting, Leaving, Sending

\* A worker with an input goes on to another place before sync(), or has none
\* and quits.
LEMMA Work ==
  ASSUME Inv, NEW p \in Ports, NEW w \in {"write", "capture", "sync", "exited"},
         UNCHANGED others, UNCHANGED semVars,
         worker[p] \in {"check", "write", "capture"}, Goto(p, w),
         w = "exited" <=> m_input = 0
  PROVE  /\ worker' \in [Ports -> Places] /\ worker'[p] = w
         /\ \A q \in Ports : q # p => worker'[q] = worker[q]
         /\ s_value' \in Int /\ s_wakeups' \in Nat
         /\ RoundInv' /\ RestInv' /\ InputInv'
         /\ (InRound' <=> InRound) /\ (Sending' <=> Sending)
         /\ \A t : Waits(t)' <=> Waits(t)
         /\ w # "exited" => InRound /\ Sending /\ m_input = sent
         /\ w = "exited" => ~Sending /\ ~InRound
<1>1. UNCHANGED <<caller, sent, toRelease, reported, m_input, b_value, b_syncs, b_current>>
  BY DEF others
<1>2. /\ (InRound' <=> InRound) /\ (Resting' <=> Resting) /\ (Leaving' <=> Leaving) /\ (Sending' <=> Sending)
      /\ \A t : Waits(t)' <=> Waits(t)
  BY <1>1, SamePhase
<1>3. /\ worker' \in [Ports -> Places] /\ worker'[p] = w
      /\ \A q \in Ports : q # p => worker'[q] = worker[q]
  BY Move DEF Inv, Places
<1>4. s_value' \in Int /\ s_wakeups' \in Nat /\ Semaphore!Tokens' = Semaphore!Tokens
  BY TokenCount DEF Inv, TypeInv
<1>5. p \in Entered /\ ~Resting
  BY DEF Entered, Busy, Inv, RestInv
<1>6. CASE w = "exited"
  <2>1. ~Sending /\ ~InRound
    BY <1>6, Phases DEF Inv, InputInv, TypeInv
  <2>2. Leaving
    BY <1>5, <2>1, Phases DEF Inv
  <2>3. RoundInv' /\ RestInv'
    BY <1>2, <1>3, <1>5, <1>6, <2>1 DEF Inv, RoundInv, RestInv
  <2>. QED
    BY <1>1, <1>2, <1>3, <1>4, <1>6, <2>1, <2>3 DEF Inv, InputInv
<1>7. CASE w # "exited"
  <2>1. m_input = sent /\ Sending
    BY <1>7 DEF Inv, InputInv
  <2>2. InRound /\ ~Leaving
    BY <1>5, <2>1, Phases DEF Inv
  <2>3. Entered' = Entered /\ Arrived' = Arrived
    BY <1>2, <1>3, <1>7 DEF Entered, Busy, Arrived
  <2>4. RoundInv' /\ RestInv'
    BY <1>1, <1>2, <1>4, <1>5, <2>2, <2>3 DEF Inv, RoundInv, RestInv
  <2>. QED
    BY <1>1, <1>2, <1>3, <1>4, <1>7, <2>1, <2>2, <2>4 DEF Inv, InputInv
<1>. QED
  BY <1>6, <1>7

LEMMA InvCheckInput == ASSUME Inv, NEW p \in Ports, CheckInput(p) PROVE Inv'
<1>. DEFINE w == IF m_input = 0 THEN "exited" ELSE IF p \in NullPorts THEN "sync" ELSE "write"
<1>1. UNCHANGED others /\ UNCHANGED semVars /\ UNCHANGED <<got, failed, m_exception>>
  BY DEF CheckInput, others, history, barVars
<1>2. worker[p] = "check" /\ Goto(p, w) /\ w \in {"write", "sync", "exited"} /\ (w = "exited" <=> m_input = 0)
      /\ (p \notin NullPorts => w # "sync")
  BY DEF CheckInput
<1>. HIDE DEF w
<1>3. /\ worker' \in [Ports -> Places] /\ worker'[p] = w
      /\ \A q \in Ports : q # p => worker'[q] = worker[q]
      /\ s_value' \in Int /\ s_wakeups' \in Nat
      /\ RoundInv' /\ RestInv' /\ InputInv'
      /\ (InRound' <=> InRound) /\ (Sending' <=> Sending)
      /\ \A t : Waits(t)' <=> Waits(t)
  BY <1>1, <1>2, Work
<1>4. UNCHANGED <<caller, sent, toRelease, reported, m_input, b_value, b_syncs, b_current>>
  BY <1>1 DEF others
<1>5. TypeInv'
  BY <1>1, <1>3, <1>4 DEF Inv, TypeInv
<1>6. \A q \in Ports \ NullPorts : Received(q)' = Received(q)
  BY <1>2, <1>3, <1>4 DEF Received, Served
<1>7. GotInv'
  BY <1>1, <1>6 DEF Inv, GotInv
<1>8. ExceptionInv'
  BY <1>1, <1>2, <1>3, <1>4 DEF Inv, ExceptionInv
<1>. QED
  BY <1>3, <1>5, <1>7, <1>8 DEF Inv

LEMMA InvWriteFilter == ASSUME Inv, NEW p \in Ports, WriteFilter(p), m_input # 0 PROVE Inv'
<1>1. UNCHANGED others /\ UNCHANGED semVars /\ UNCHANGED m_exception /\ worker[p] = "write"
      /\ got' = [got EXCEPT ![p] = Append(@, m_input)]
  BY DEF WriteFilter, others, history, barVars
<1>2. PICK w \in {"sync", "capture"} :
        Goto(p, w) /\ failed' = IF w = "capture" THEN failed \cup {m_input} ELSE failed
  BY DEF WriteFilter
<1>3. /\ worker' \in [Ports -> Places] /\ worker'[p] = w
      /\ \A q \in Ports : q # p => worker'[q] = worker[q]
      /\ s_value' \in Int /\ s_wakeups' \in Nat
      /\ RoundInv' /\ RestInv' /\ InputInv'
      /\ (InRound' <=> InRound) /\ (Sending' <=> Sending)
      /\ \A t : Waits(t)' <=> Waits(t)
      /\ InRound /\ Sending /\ m_input = sent
  BY <1>1, <1>2, Work
<1>4. UNCHANGED <<caller, sent, toRelease, reported, m_input, b_value, b_syncs, b_current>>
  BY <1>1 DEF others
<1>5. sent \in Nat /\ sent > 0 /\ caller # "arm"
  BY <1>3, Phases DEF Inv, TypeInv, InputInv
<1>6. got \in [Ports -> Seq(Nat)]
  BY DEF Inv, TypeInv
<1>7. /\ got' \in [Ports -> Seq(Nat)] /\ got'[p] = Append(got[p], sent)
      /\ \A q \in Ports : q # p => got'[q] = got[q]
  BY <1>1, <1>3, <1>5, <1>6
<1>8. TypeInv'
  BY <1>3, <1>4, <1>7 DEF Inv, TypeInv
<1>9. /\ Received(p) = sent - 1 /\ Received(p)' = sent
      /\ \A q \in Ports : q # p => Received(q)' = Received(q)
  BY <1>1, <1>2, <1>3, <1>4, <1>5 DEF Received, Served
<1>10. GotInv'
  <2>1. ASSUME NEW q \in Ports \ NullPorts PROVE got'[q] = [i \in 1..(Received(q)') |-> i]
    <3>1. got[q] = [i \in 1..Received(q) |-> i]
      BY DEF Inv, GotInv
    <3>2. CASE q # p
      BY <1>7, <1>9, <3>1, <3>2
    <3>3. CASE q = p
      <4>1. got[p] = [i \in 1..(sent - 1) |-> i]
        BY <1>9, <3>1, <3>3
      <4>2. Append(got[p], sent) = [i \in 1..sent |-> i]
        BY <1>5, <4>1, NextInput
      <4>. QED
        BY <1>7, <1>9, <3>3, <4>2
    <3>. QED
      BY <3>2, <3>3
  <2>. QED
    BY <2>1 DEF GotInv
<1>11. ExceptionInv'
  BY <1>1, <1>2, <1>3, <1>4, <1>5 DEF Inv, ExceptionInv
<1>. QED
  BY <1>3, <1>8, <1>10, <1>11 DEF Inv

LEMMA InvCapture == ASSUME Inv, NEW p \in Ports, CaptureException(p), m_input # 0 PROVE Inv'
<1>1. UNCHANGED others /\ UNCHANGED semVars /\ UNCHANGED <<got, failed>> /\ worker[p] = "capture"
      /\ m_exception' /\ Goto(p, "sync")
  BY DEF CaptureException, others, history, barVars
<1>2. /\ worker' \in [Ports -> Places] /\ worker'[p] = "sync"
      /\ \A q \in Ports : q # p => worker'[q] = worker[q]
      /\ s_value' \in Int /\ s_wakeups' \in Nat
      /\ RoundInv' /\ RestInv' /\ InputInv'
      /\ (InRound' <=> InRound) /\ (Sending' <=> Sending)
      /\ \A t : Waits(t)' <=> Waits(t)
      /\ InRound /\ Sending
  BY <1>1, Work
<1>3. UNCHANGED <<caller, sent, toRelease, reported, m_input, b_value, b_syncs, b_current>>
  BY <1>1 DEF others
<1>4. TypeInv'
  BY <1>1, <1>2, <1>3 DEF Inv, TypeInv
<1>5. \A q \in Ports : Received(q)' = Received(q)
  BY <1>1, <1>2, <1>3 DEF Received, Served
<1>6. GotInv'
  BY <1>1, <1>5 DEF Inv, GotInv
<1>7. ExceptionInv'
  <2>1. sent \in failed
    BY <1>1, <1>2 DEF Inv, ExceptionInv
  <2>. QED
    BY <1>1, <1>2, <1>3, <2>1 DEF Inv, ExceptionInv
<1>. QED
  BY <1>2, <1>4, <1>6, <1>7 DEF Inv

\* The last to arrive opens the barrier: everybody has been served, no token is
\* left, and nobody has the input any more.
LEMMA Opening ==
  ASSUME Inv, InRound, toRelease = 0, Semaphore!Tokens = 0, Barrier!SyncOpens,
         UNCHANGED <<m_input, m_exception, toRelease, history, semVars>>,
         \A q \in Ports : q \in Arrived \/ worker[q] = "sync",
         worker' \in [Ports -> Places],
         \A q \in Ports : worker'[q] = worker[q] \/ worker'[q] = "acquire",
         \A q \in Ports : worker'[q] # "sync",
         \/ caller = "syncing" /\ caller' = "syncing"
         \/ caller' = "finish"
  PROVE  Inv'
<1>1. UNCHANGED <<sent, got, failed, reported, s_value, s_wakeups>> /\ b_value' = 0 /\ b_syncs' = b_syncs + 1 /\ b_current' = b_current
  BY DEF history, semVars, Barrier!SyncOpens
<1>2. b_syncs \in Nat /\ b_current \in [Ports \cup {Caller} -> Nat] /\ \A t \in Ports \cup {Caller} : b_current[t] <= b_syncs
  BY DEF Inv, TypeInv
<1>3. \A t \in Ports \cup {Caller} : ~Waits(t)'
  BY <1>1, <1>2 DEF Waits
<1>4. Resting' /\ ~InRound' /\ ~Leaving' /\ Sending' /\ caller' # "arm"
  BY <1>3 DEF Resting, InRound, Leaving, Sending
<1>5. Sending /\ caller # "arm"
  BY Phases DEF Inv
<1>6. \A q \in Ports : worker[q] \in {"sync", "syncing"} /\ worker'[q] \in {"syncing", "acquire"}
  BY DEF Arrived
<1>7. Entered' = {}
  BY <1>3, <1>6 DEF Entered, Busy, Arrived
<1>8. Semaphore!Tokens' = 0
  BY <1>1 DEF Semaphore!Tokens
<1>9. TypeInv'
  BY <1>1, <1>2 DEF Inv, TypeInv
<1>10. RoundInv' /\ RestInv'
  BY <1>1, <1>4, <1>7, <1>8 DEF RoundInv, RestInv
<1>11. InputInv'
  BY <1>1, <1>4, <1>5 DEF Inv, InputInv
<1>12. GotInv'
  <2>1. \A q \in Ports : Received(q)' = sent /\ Received(q) = sent
    BY <1>1, <1>4, <1>5 DEF Received, Served, Arrived
  <2>. QED
    BY <1>1, <2>1 DEF Inv, GotInv
<1>13. ExceptionInv'
  BY <1>1, <1>4, <1>5, <1>6 DEF Inv, ExceptionInv
<1>. QED
  BY <1>9, <1>10, <1>11, <1>12, <1>13 DEF Inv

LEMMA InvWorkerSyncs == ASSUME Inv, NEW p \in Ports, WorkerSyncs(p) PROVE Inv'
<1>1. UNCHANGED <<m_input, m_exception, caller, toRelease, history, semVars>> /\ worker[p] = "sync"
  BY DEF WorkerSyncs
<1>2. p \in Entered /\ p \notin Arrived /\ InRound /\ ~Resting /\ ~Leaving
  <2>1. p \in Entered /\ p \notin Arrived
    BY <1>1 DEF Entered, Busy, Arrived
  <2>2. ~Resting /\ ~Leaving
    BY <1>1, <2>1 DEF Inv, RestInv
  <2>. QED
    BY <2>1, <2>2, Phases DEF Inv
<1>. PICK n : n = Cardinality(Ports \ Arrived)
  OBVIOUS
<1>3. n \in Nat /\ n > 0 /\ Cardinality((Ports \ Arrived) \ {p}) = n - 1 /\ (n = 1 => (Ports \ Arrived) \ {p} = {})
  <2>1. Ports \ Arrived \in SUBSET Ports /\ (Ports \ Arrived) \ {p} \in SUBSET Ports /\ p \in Ports \ Arrived
    BY <1>2
  <2>2. n \in Nat /\ Cardinality((Ports \ Arrived) \ {p}) = n - 1
    BY <2>1, Sizes
  <2>3. /\ Cardinality((Ports \ Arrived) \ {p}) \in Nat
        /\ Cardinality((Ports \ Arrived) \ {p}) = 0 => (Ports \ Arrived) \ {p} = {}
    BY <2>1, Sizes
  <2>. QED
    BY <2>2, <2>3
<1>4. b_value = n + (IF caller = "syncing" THEN 0 ELSE 1) /\ (caller = "syncing" => toRelease = 0)
      /\ Semaphore!Tokens + toRelease + Cardinality(Entered) = Cardinality(Ports)
  BY <1>2 DEF Inv, RoundInv
<1>5. Semaphore!Tokens \in Nat /\ toRelease \in Nat
  BY TokenCount DEF Inv, TypeInv
<1>6. CASE Barrier!SyncSleeps(p) /\ Goto(p, "syncing")
  <2>1. /\ b_value > 1 /\ b_value' = b_value - 1 /\ b_syncs' = b_syncs
        /\ b_current' = [b_current EXCEPT ![p] = b_syncs]
    BY <1>3, <1>4, <1>6 DEF Barrier!SyncSleeps, Barrier!LastToArrive
  <2>2. /\ worker' \in [Ports -> Places] /\ worker'[p] = "syncing"
        /\ \A q \in Ports : q # p => worker'[q] = worker[q]
    BY <1>6, Move DEF Inv, Places
  <2>3. /\ b_current' \in [Ports \cup {Caller} -> Nat] /\ b_current'[p] = b_syncs
        /\ \A t \in Ports \cup {Caller} : t # p => b_current'[t] = b_current[t]
    BY <2>1 DEF Inv, TypeInv
  <2>4. Waits(p)' /\ (\A t \in Ports \cup {Caller} : t # p => (Waits(t)' <=> Waits(t)))
    BY <2>1, <2>3 DEF Waits
  <2>5. Waits(Caller)' <=> Waits(Caller)
    BY <2>4, ThreadedForkAssumption
  <2>6. (InRound' <=> InRound) /\ (Sending' <=> Sending) /\ ~Resting' /\ ~Leaving'
    BY <1>1, <1>2, <2>5 DEF InRound, Sending, Resting, Leaving
  <2>7. Entered' = Entered /\ Ports \ Arrived' = (Ports \ Arrived) \ {p}
    BY <1>1, <2>2, <2>4 DEF Entered, Busy, Arrived
  <2>8. UNCHANGED <<sent, got, failed, reported, s_value, s_wakeups>>
    BY <1>1 DEF history, semVars
  <2>9. Semaphore!Tokens' = Semaphore!Tokens
    BY <2>8 DEF Semaphore!Tokens
  <2>10. TypeInv'
    BY <1>1, <1>3, <1>4, <2>1, <2>2, <2>3, <2>8 DEF Inv, TypeInv
  <2>11. RoundInv'
    <3>1. Cardinality(Ports \ Arrived') = n - 1
      BY <1>3, <2>7
    <3>2. b_value' = (n - 1) + (IF caller' = "syncing" THEN 0 ELSE 1)
      BY <1>1, <1>3, <1>4, <2>1
    <3>3. Semaphore!Tokens' + toRelease' + Cardinality(Entered') = Cardinality(Ports)
      BY <1>1, <1>4, <2>7, <2>9
    <3>. QED
      BY <1>1, <1>4, <3>1, <3>2, <3>3 DEF RoundInv
  <2>12. RestInv'
    BY <2>6 DEF RestInv
  <2>13. InputInv'
    BY <1>1, <2>6, <2>8 DEF Inv, InputInv
  <2>14. \A q \in Ports : Received(q)' = Received(q)
    BY <1>1, <2>2, <2>4, <2>6, <2>8 DEF Received, Served
  <2>15. GotInv'
    BY <2>8, <2>14 DEF Inv, GotInv
  <2>16. ExceptionInv'
    BY <1>1, <2>2, <2>6, <2>8 DEF Inv, ExceptionInv
  <2>. QED
    BY <2>10, <2>11, <2>12, <2>13, <2>15, <2>16 DEF Inv
<1>7. CASE Barrier!SyncOpens /\ Goto(p, "acquire")
  <2>1. n = 1 /\ caller = "syncing" /\ toRelease = 0
    BY <1>3, <1>4, <1>7 DEF Barrier!SyncOpens, Barrier!LastToArrive
  <2>2. \A q \in Ports : q \in Arrived \/ q = p
    BY <1>3, <2>1
  <2>3. Entered = Ports
    BY <1>2, <2>2 DEF Entered, Busy, Arrived
  <2>4. Semaphore!Tokens = 0
    <3>1. Cardinality(Ports) \in Nat
      BY Sizes
    <3>. QED
      BY <1>4, <1>5, <2>1, <2>3, <3>1
  <2>5. /\ worker' \in [Ports -> Places] /\ worker'[p] = "acquire"
        /\ \A q \in Ports : q # p => worker'[q] = worker[q]
    BY <1>7, Move DEF Inv, Places
  <2>6. \A q \in Ports : worker'[q] # "sync"
    BY <2>2, <2>5 DEF Arrived
  <2>. QED
    BY <1>1, <1>2, <1>7, <2>1, <2>2, <2>4, <2>5, <2>6, Opening
<1>. QED
  BY <1>6, <1>7 DEF WorkerSyncs

\* Only a worker whose barrier has opened leaves sync().
LEMMA InvWorkerResumes == ASSUME Inv, NEW p \in Ports, WorkerResumes(p) PROVE Inv'
<1>1. UNCHANGED others /\ UNCHANGED <<got, failed, m_exception>> /\ UNCHANGED semVars /\ worker[p] = "syncing"
      /\ (UNCHANGED worker \/ (~Waits(p) /\ Goto(p, "acquire")))
  BY DEF WorkerResumes, others, history, Barrier!ResumeReturns, Barrier!ResumeSleeps, Barrier!HasOpened, Waits
<1>2. s_value' \in Int /\ s_wakeups' \in Nat /\ Semaphore!Tokens' = Semaphore!Tokens
  BY <1>1, TokenCount DEF Inv, TypeInv
<1>3. CASE UNCHANGED worker
  BY <1>1, <1>2, <1>3, Silent DEF Inv, TypeInv
<1>4. CASE ~Waits(p) /\ Goto(p, "acquire")
  <2>1. /\ worker' \in [Ports -> Places]
        /\ \A q \in Ports : worker'[q] = worker[q] \/ (q = p /\ worker'[q] = "acquire")
    BY <1>4, Move DEF Inv, Places
  <2>. QED
    BY <1>1, <1>2, <1>4, <2>1, Silent
<1>. QED
  BY <1>1, <1>3, <1>4

LEMMA InvWorker == ASSUME Inv, NEW p \in Ports, WorkerStep(p) PROVE Inv'
<1>1. worker[p] \in {"write", "capture"} => m_input # 0
  <2>1. CASE worker[p] \in {"write", "capture"}
    <3>1. ~Resting /\ ~Leaving
      BY <2>1 DEF Inv, RestInv, Entered, Busy
    <3>2. Sending
      BY <3>1, Phases DEF Inv
    <3>. QED
      BY <3>2 DEF Inv, InputInv, TypeInv
  <2>. QED
    BY <2>1
<1>2. CASE WriteFilter(p)
  BY <1>1, <1>2, InvWriteFilter DEF WriteFilter
<1>3. CASE CaptureException(p)
  BY <1>1, <1>3, InvCapture DEF CaptureException
<1>. QED
  BY <1>2, <1>3, InvAcquire, InvCheckInput, InvWorkerSyncs, InvWorkerResumes DEF WorkerStep

\* Spurious wakeups, and nothing at all.
LEMMA InvSpurious == ASSUME Inv, SpuriousWakeup \/ UNCHANGED vars PROVE Inv'
<1>1. UNCHANGED others /\ UNCHANGED <<got, failed, m_exception>> /\ UNCHANGED worker
  BY DEF SpuriousWakeup, others, history, vars, barVars, Barrier!SpuriousWakeup
<1>2. UNCHANGED semVars \/ \E p \in Ports : Semaphore!SemSpuriousWakeup(p)
  BY DEF SpuriousWakeup, vars
<1>3. s_value' \in Int /\ s_wakeups' \in Nat /\ Semaphore!Tokens' = Semaphore!Tokens
  BY <1>2, TokenCount DEF Inv, TypeInv
<1>. QED
  BY <1>1, <1>3, Silent DEF Inv, TypeInv

-----------------------------------------------------------------------------
(* The caller.                                                             *)

\* The caller goes on, the workers and the barrier are left alone.
LEMMA Standing ==
  ASSUME UNCHANGED worker, UNCHANGED barVars
  PROVE  /\ Entered' = Entered /\ Arrived' = Arrived
         /\ \A t : Waits(t)' <=> Waits(t)
         /\ \A q \in Ports : Served(q)' <=> Served(q)
BY DEF Entered, Busy, Arrived, Waits, Served, barVars

LEMMA InvSend == ASSUME Inv, Send PROVE Inv'
<1>1. /\ caller = "idle" /\ caller' = "arm" /\ sent' = sent + 1 /\ m_input' = sent + 1 /\ ~m_exception'
      /\ UNCHANGED <<toRelease, worker, got, failed, reported, semVars, barVars>>
  BY DEF Send, ExceptionAtStart
<1>2. Entered' = Entered /\ Resting /\ Resting' /\ ~InRound /\ ~InRound' /\ ~Leaving' /\ ~Sending /\ Sending'
  BY <1>1, Standing DEF Resting, InRound, Leaving, Sending
<1>3. Entered = {} /\ Semaphore!Tokens = 0 /\ toRelease = 0 /\ b_value = 0
  BY <1>2 DEF Inv, RestInv
<1>4. Semaphore!Tokens' = Semaphore!Tokens
  BY <1>1 DEF Semaphore!Tokens, semVars
<1>5. sent \in Nat
  BY DEF Inv, TypeInv
<1>6. TypeInv'
  BY <1>1 DEF Inv, TypeInv, semVars, barVars
<1>7. RoundInv' /\ RestInv'
  BY <1>1, <1>2, <1>3, <1>4 DEF RoundInv, RestInv, barVars
<1>8. InputInv'
  BY <1>1, <1>2, <1>5 DEF InputInv
<1>9. \A q \in Ports : Received(q)' = Received(q)
  BY <1>1, <1>2, <1>5 DEF Received
<1>10. GotInv'
  BY <1>1, <1>9 DEF Inv, GotInv
<1>11. ExceptionInv'
  <2>1. \A p \in Ports : worker[p] # "capture"
    BY <1>3 DEF Entered, Busy
  <2>2. reported = failed /\ failed \subseteq 1..sent
    BY <1>2 DEF Inv, ExceptionInv
  <2>3. failed \subseteq 1..sent' /\ sent' \notin failed /\ failed \ {sent'} = reported
    BY <1>1, <1>5, <2>2
  <2>. QED
    BY <1>1, <1>2, <2>1, <2>2, <2>3 DEF ExceptionInv
<1>. QED
  BY <1>6, <1>7, <1>8, <1>10, <1>11 DEF Inv

LEMMA InvArm == ASSUME Inv, ArmBarrier PROVE Inv'
<1>1. /\ caller = "arm" /\ caller' = "release" /\ toRelease' = Cardinality(Ports)
      /\ b_value' = b_value + (Cardinality(Ports) + 1)
      /\ UNCHANGED <<m_input, m_exception, worker, sent, got, failed, reported, semVars, b_syncs, b_current>>
  BY DEF ArmBarrier, Barrier!Wait, Participants, history
<1>2. Entered' = Entered /\ Arrived' = Arrived /\ Resting /\ ~Resting' /\ ~InRound /\ InRound' /\ ~Leaving' /\ Sending /\ Sending'
      /\ \A q \in Ports : Served(q)' <=> Served(q)
  BY <1>1 DEF Resting, InRound, Leaving, Sending, Entered, Busy, Arrived, Waits, Served
<1>3. Entered = {} /\ Semaphore!Tokens = 0 /\ b_value = 0
  BY <1>2 DEF Inv, RestInv
<1>4. Semaphore!Tokens' = Semaphore!Tokens
  BY <1>1 DEF Semaphore!Tokens, semVars
<1>5. Cardinality(Ports) \in Nat /\ Cardinality({}) = 0
  BY Sizes
<1>6. TypeInv'
  BY <1>1, <1>3, <1>5 DEF Inv, TypeInv, semVars
<1>7. RoundInv'
  <2>1. Arrived = {} /\ Ports \ Arrived' = Ports /\ Entered' = {}
    BY <1>2, <1>3 DEF Entered
  <2>. QED
    BY <1>1, <1>2, <1>3, <1>4, <1>5, <2>1 DEF RoundInv
<1>8. RestInv' /\ InputInv'
  BY <1>1, <1>2 DEF Inv, RestInv, InputInv
<1>9. GotInv'
  <2>1. \A q \in Ports : ~Served(q)
    BY <1>3 DEF Served, Entered, Busy, Arrived
  <2>2. \A q \in Ports : Received(q)' = Received(q)
    BY <1>1, <1>2, <2>1 DEF Received
  <2>. QED
    BY <1>1, <2>2 DEF Inv, GotInv
<1>10. ExceptionInv'
  BY <1>1, <1>2 DEF Inv, ExceptionInv
<1>. QED
  BY <1>6, <1>7, <1>8, <1>9, <1>10 DEF Inv

LEMMA InvReleaseWorker == ASSUME Inv, ReleaseWorker PROVE Inv'
<1>1. /\ caller \in {"release", "quit"} /\ caller' = caller /\ toRelease > 0 /\ toRelease' = toRelease - 1
      /\ UNCHANGED <<m_input, m_exception, worker, sent, got, failed, reported, barVars>>
  BY DEF ReleaseWorker, history
<1>2. /\ s_value' \in Int /\ s_wakeups' \in Nat
      /\ Semaphore!Tokens \in Nat /\ Semaphore!Tokens' = Semaphore!Tokens + 1
  BY TokenCount DEF Inv, TypeInv, ReleaseWorker
<1>3. /\ Entered' = Entered /\ Arrived' = Arrived /\ (InRound' <=> InRound) /\ ~Resting'
      /\ (Leaving' <=> Leaving) /\ (Sending' <=> Sending)
      /\ \A q \in Ports : Received(q)' = Received(q)
  BY <1>1, Standing DEF Resting, InRound, Leaving, Sending, Received
<1>4. TypeInv'
  BY <1>1, <1>2 DEF Inv, TypeInv, barVars
<1>5. RoundInv'
  <2>1. Cardinality(Entered) \in Nat
    BY Sizes DEF Entered, Busy, Arrived
  <2>2. toRelease \in Nat
    BY DEF Inv, TypeInv
  <2>. QED
    BY <1>1, <1>2, <1>3, <2>1, <2>2 DEF Inv, RoundInv, barVars
<1>6. RestInv' /\ InputInv'
  BY <1>1, <1>3 DEF Inv, RestInv, InputInv
<1>7. GotInv'
  BY <1>1, <1>3 DEF Inv, GotInv
<1>8. ExceptionInv'
  BY <1>1, <1>3 DEF Inv, ExceptionInv
<1>. QED
  BY <1>4, <1>5, <1>6, <1>7, <1>8 DEF Inv

LEMMA InvCallerSyncs == ASSUME Inv, CallerSyncs PROVE Inv'
<1>1. /\ caller = "release" /\ toRelease = 0 /\ toRelease' = toRelease
      /\ UNCHANGED <<m_input, m_exception, worker, sent, got, failed, reported, semVars>>
      /\ UNCHANGED <<m_input, m_exception, toRelease, history, semVars>>
  BY DEF CallerSyncs, history
<1>2. InRound
  BY <1>1 DEF InRound
<1>. PICK n : n = Cardinality(Ports \ Arrived)
  OBVIOUS
<1>3. n \in Nat /\ (n = 0 => Ports \ Arrived = {})
  BY Sizes
<1>4. b_value = n + 1 /\ Semaphore!Tokens + toRelease + Cardinality(Entered) = Cardinality(Ports)
  BY <1>1, <1>2 DEF Inv, RoundInv
<1>5. Semaphore!Tokens \in Nat
  BY TokenCount DEF Inv, TypeInv
<1>6. CASE Barrier!SyncSleeps(Caller) /\ caller' = "syncing"
  <2>1. /\ b_value' = n /\ b_syncs' = b_syncs
        /\ b_current' = [b_current EXCEPT ![Caller] = b_syncs]
    BY <1>3, <1>4, <1>6 DEF Barrier!SyncSleeps
  <2>2. /\ b_current' \in [Ports \cup {Caller} -> Nat] /\ b_current'[Caller] = b_syncs
        /\ \A t \in Ports : b_current'[t] = b_current[t]
    BY <2>1, ThreadedForkAssumption DEF Inv, TypeInv
  <2>3. Waits(Caller)' /\ (\A q \in Ports : Waits(q)' <=> Waits(q))
    BY <2>1, <2>2 DEF Waits
  <2>4. InRound' /\ Sending /\ Sending' /\ ~Resting' /\ ~Leaving'
    BY <1>1, <1>6, <2>3 DEF InRound, Sending, Resting, Leaving
  <2>5. Entered' = Entered /\ Arrived' = Arrived /\ \A q \in Ports : Served(q)' <=> Served(q)
    BY <1>1, <2>3 DEF Entered, Busy, Arrived, Served
  <2>6. Semaphore!Tokens' = Semaphore!Tokens
    BY <1>1 DEF Semaphore!Tokens, semVars
  <2>7. TypeInv'
    BY <1>1, <1>3, <1>6, <2>1, <2>2 DEF Inv, TypeInv, semVars
  <2>8. RoundInv'
    BY <1>1, <1>3, <1>4, <1>6, <2>1, <2>5, <2>6 DEF RoundInv
  <2>9. RestInv' /\ InputInv'
    BY <1>1, <2>4 DEF Inv, RestInv, InputInv
  <2>10. \A q \in Ports : Received(q)' = Received(q)
    BY <1>1, <1>2, <1>6, <2>4, <2>5 DEF Received
  <2>11. GotInv'
    BY <1>1, <2>10 DEF Inv, GotInv
  <2>12. ExceptionInv'
    BY <1>1, <1>6, <2>4 DEF Inv, ExceptionInv
  <2>. QED
    BY <2>7, <2>8, <2>9, <2>11, <2>12 DEF Inv
<1>7. CASE Barrier!SyncOpens /\ caller' = "finish"
  <2>1. n = 0
    BY <1>3, <1>4, <1>7 DEF Barrier!SyncOpens, Barrier!LastToArrive
  <2>2. Arrived = Ports /\ Entered = Ports
    BY <1>3, <2>1 DEF Entered, Busy, Arrived
  <2>3. Semaphore!Tokens = 0
    <3>1. Cardinality(Ports) \in Nat
      BY Sizes
    <3>. QED
      BY <1>1, <1>4, <1>5, <2>2, <3>1
  <2>4. worker' \in [Ports -> Places] /\ \A q \in Ports : worker'[q] = worker[q] /\ worker'[q] # "sync"
    BY <1>1, <2>2 DEF Inv, TypeInv, Arrived
  <2>. QED
    BY <1>1, <1>2, <1>7, <2>2, <2>3, <2>4, Opening
<1>. QED
  BY <1>6, <1>7 DEF CallerSyncs

LEMMA InvCallerResumes == ASSUME Inv, CallerResumes PROVE Inv'
<1>1. /\ UNCHANGED <<m_input, m_exception, toRelease, worker, sent, got, failed, reported, semVars>>
      /\ caller = "syncing" /\ UNCHANGED <<b_value, b_syncs, b_current>>
      /\ (UNCHANGED caller \/ (~Waits(Caller) /\ caller' = "finish"))
  BY DEF CallerResumes, history, Barrier!ResumeReturns, Barrier!ResumeSleeps, Barrier!HasOpened, Waits
<1>2. s_value' \in Int /\ s_wakeups' \in Nat /\ Semaphore!Tokens' = Semaphore!Tokens
  BY <1>1, TokenCount DEF Inv, TypeInv
<1>3. CASE UNCHANGED caller
  BY <1>1, <1>2, <1>3, Silent DEF Inv, TypeInv, others
<1>4. CASE ~Waits(Caller) /\ caller' = "finish"
  <2>1. Resting /\ Resting' /\ ~InRound /\ ~InRound' /\ ~Leaving' /\ Sending /\ Sending'
    BY <1>1, <1>4 DEF Resting, InRound, Leaving, Sending
  <2>2. Entered' = Entered
    BY <1>1 DEF Entered, Busy, Arrived, Waits
  <2>3. TypeInv'
    BY <1>1, <1>2, <1>4 DEF Inv, TypeInv
  <2>4. RoundInv' /\ RestInv'
    BY <1>1, <1>2, <2>1, <2>2 DEF Inv, RoundInv, RestInv
  <2>5. InputInv'
    BY <1>1, <2>1 DEF Inv, InputInv
  <2>6. GotInv'
    <3>1. \A q \in Ports : Received(q)' = Received(q)
      BY <1>1, <1>4, <2>1 DEF Received
    <3>. QED
      BY <1>1, <3>1 DEF Inv, GotInv
  <2>7. ExceptionInv'
    BY <1>1, <1>4, <2>1 DEF Inv, ExceptionInv
  <2>. QED
    BY <2>3, <2>4, <2>5, <2>6, <2>7 DEF Inv
<1>. QED
  BY <1>1, <1>3, <1>4

\* The end of send(), and the beginning and the end of the destructor: steps of
\* the caller while nobody has an input, or while everybody is quitting.
LEMMA InvFinish == ASSUME Inv, Finish \/ Destroy \/ Join PROVE Inv'
<1>1. /\ UNCHANGED <<m_exception, worker, sent, got, failed, semVars, barVars>>
      /\ caller \in {"finish", "idle", "quit"} /\ caller' \in {"idle", "quit", "gone"}
      /\ caller' = "idle" => caller = "finish" /\ toRelease' = toRelease
      /\ toRelease' \in {toRelease, Cardinality(Ports)}
      /\ m_input' = 0 \/ (m_input' = m_input /\ caller = "quit")
  BY DEF Finish, Destroy, Join, history
<1>2. Entered' = Entered /\ ~InRound /\ ~InRound' /\ ~Sending' /\ (Sending <=> caller = "finish")
      /\ (Resting \/ Leaving) /\ (Resting' => Resting) /\ (Leaving \/ Entered = {})
  BY <1>1, Standing DEF Inv, RestInv, InRound, Sending, Resting, Leaving
<1>3. Semaphore!Tokens' = Semaphore!Tokens
  BY <1>1 DEF Semaphore!Tokens, semVars
<1>4. TypeInv'
  <2>1. Cardinality(Ports) \in Nat
    BY Sizes
  <2>. QED
    BY <1>1, <2>1 DEF Inv, TypeInv, semVars, barVars
<1>5. RoundInv'
  BY <1>2 DEF RoundInv
<1>6. RestInv'
  <2>1. \A p \in Ports : worker[p] \notin {"write", "capture", "sync"}
    BY <1>2 DEF Inv, RestInv, Entered, Busy
  <2>2. Resting' => toRelease' = toRelease
    BY <1>1 DEF Resting
  <2>. QED
    BY <1>1, <1>2, <1>3, <2>1, <2>2 DEF Inv, RestInv, barVars
<1>7. InputInv'
  BY <1>1, <1>2 DEF Inv, InputInv
<1>8. GotInv'
  <2>1. \A q \in Ports : Received(q)' = Received(q)
    BY <1>1, <1>2 DEF Received
  <2>. QED
    BY <1>1, <2>1 DEF Inv, GotInv
<1>9. reported' = failed
  <2>1. CASE Finish
    <3>1. caller = "finish" /\ reported' = IF m_exception THEN reported \cup {sent} ELSE reported
      BY <2>1 DEF Finish
    <3>2. \A p \in Ports : worker[p] # "capture"
      BY <1>2, <3>1 DEF Entered, Busy, Leaving
    <3>3. /\ sent \notin reported /\ failed \ {sent} = reported
          /\ m_exception => sent \in failed
          /\ sent \in failed => m_exception
      BY <1>2, <3>1, <3>2 DEF Inv, ExceptionInv
    <3>4. CASE m_exception
      BY <3>1, <3>3, <3>4
    <3>5. CASE ~m_exception
      BY <3>1, <3>3, <3>5
    <3>. QED
      BY <3>4, <3>5
  <2>2. CASE Destroy \/ Join
    <3>1. ~Sending /\ reported' = reported
      BY <2>2 DEF Destroy, Join, Sending, history
    <3>. QED
      BY <3>1 DEF Inv, ExceptionInv
  <2>. QED
    BY <2>1, <2>2
<1>10. ExceptionInv'
  BY <1>1, <1>2, <1>9 DEF Inv, ExceptionInv
<1>. QED
  BY <1>4, <1>5, <1>6, <1>7, <1>8, <1>10 DEF Inv

LEMMA InvStep == Inv /\ [Next]_vars => Inv'
<1>. SUFFICES ASSUME Inv, [Next]_vars PROVE Inv'
  OBVIOUS
<1>1. CASE CallerStep
  BY <1>1, InvArm, InvReleaseWorker, InvCallerSyncs, InvCallerResumes, InvFinish DEF CallerStep
<1>2. CASE \E p \in Ports : WorkerStep(p)
  BY <1>2, InvWorker
<1>3. CASE Send \/ Destroy
  BY <1>3, InvSend, InvFinish
<1>4. CASE SpuriousWakeup \/ Gone \/ UNCHANGED vars
  BY <1>4, InvSpurious DEF Gone
<1>. QED
  BY <1>1, <1>2, <1>3, <1>4 DEF Next

-----------------------------------------------------------------------------
(* The results.                                                            *)

\* The ports are accounted for by the tokens and the workers that have one, and
\* the barrier by those that are still to arrive, in every state of every run.
THEOREM InvHolds == Spec => []Inv
<1>. QED
  BY InvInit, InvStep, PTL DEF Spec

\* Lock-step, for any number of ports and inputs: a send() that has returned has
\* given its input to every filter, once and in order, although workers may
\* still be on their way out of an earlier sync() (thread_delegate_work).
THEOREM LockStep == Spec => []EveryFilterGotEveryInput
<1>1. Inv => EveryFilterGotEveryInput
  <2>. SUFFICES ASSUME Inv, caller \in {"idle", "quit", "gone"}, NEW p \in Ports \ NullPorts
                PROVE  got[p] = [i \in 1..sent |-> i]
    BY DEF EveryFilterGotEveryInput
  <2>1. Received(p) = sent
    BY DEF Received, InRound
  <2>. QED
    BY <2>1 DEF Inv, GotInv
<1>. QED
  BY <1>1, InvHolds, PTL

\* send() throws for exactly the inputs that some filter threw on: no exception
\* is captured after the caller has looked for one, and none is left over for
\* the next input (capture_exception, clear_exception).
THEOREM ExceptionsArrive == Spec => []ExceptionsReachTheCaller
<1>1. Inv => ExceptionsReachTheCaller
  BY DEF Inv, ExceptionInv, ExceptionsReachTheCaller, Sending
<1>. QED
  BY <1>1, InvHolds, PTL

\* m_input, which the workers read without a lock, changes only while none of
\* them is between the semaphore and the barrier.
THEOREM InputIsStable == Spec => InputStableWhileWorkersRun
<1>1. Inv /\ [Next]_vars =>
        [m_input' # m_input =>
           \A p \in Ports : worker[p] \notin {"check", "write", "capture", "sync"}]_vars
  <2>. SUFFICES ASSUME Inv, [Next]_vars, m_input' # m_input
                PROVE  \A p \in Ports : worker[p] \notin {"check", "write", "capture", "sync"}
    OBVIOUS
  <2>1. Send \/ Finish \/ Destroy
    BY DEF Next, CallerStep, ArmBarrier, ReleaseWorker, CallerSyncs, CallerResumes, Join, WorkerStep,
           Acquire, AcquireResumes, CheckInput, WriteFilter, CaptureException, WorkerSyncs, WorkerResumes,
           SpuriousWakeup, Gone, vars
  <2>2. Resting
    BY <2>1 DEF Send, Finish, Destroy, Resting
  <2>. QED
    BY <2>2 DEF Inv, RestInv, Entered, Busy
<1>. QED
  BY <1>1, InvHolds, PTL DEF Spec, InputStableWhileWorkersRun
=============================================================================
