------------------------- MODULE CountingSemaphore -------------------------
(***************************************************************************)
(* What a counting semaphore promises: a thread returns from acquire()     *)
(* only by consuming a token that some release() has put there.            *)
(***************************************************************************)
EXTENDS Naturals

CONSTANTS Threads

VARIABLES tokens,  \* how many acquires may still return
          blocked, \* the threads inside acquire()
          passed   \* the threads whose acquire() has returned

vars == <<tokens, blocked, passed>>

Init == tokens = 0 /\ blocked = {} /\ passed = {}

Put == tokens' = tokens + 1 /\ UNCHANGED <<blocked, passed>>

\* acquire() that returns at once; it may overtake the blocked threads.
Take(t) ==
  /\ t \in Threads \ (blocked \cup passed)
  /\ tokens > 0
  /\ tokens' = tokens - 1
  /\ passed' = passed \cup {t}
  /\ UNCHANGED blocked

Block(t) ==
  /\ t \in Threads \ (blocked \cup passed)
  /\ tokens = 0
  /\ blocked' = blocked \cup {t}
  /\ UNCHANGED <<tokens, passed>>

Unblock(t) ==
  /\ t \in blocked
  /\ tokens > 0
  /\ tokens' = tokens - 1
  /\ passed' = passed \cup {t}
  /\ blocked' = blocked \ {t}

\* The thread goes on, and may call acquire() again.
GoOn(t) ==
  /\ t \in passed
  /\ passed' = passed \ {t}
  /\ UNCHANGED <<tokens, blocked>>

Next ==
  \/ Put
  \/ \E t \in Threads : Take(t) \/ Block(t) \/ Unblock(t) \/ GoOn(t)

Spec == Init /\ [][Next]_vars
=============================================================================
