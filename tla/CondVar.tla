------------------------------ MODULE CondVar ------------------------------
(***************************************************************************)
(* std::condition_variable as the thread utilities of                      *)
(* src/lib/utils/thread_utils/ use it.  A condition variable is the set of *)
(* the threads asleep on it; each operator gives the sets that a call can  *)
(* leave behind.                                                           *)
(***************************************************************************)

\* Mutant of NotifyOne: the call is missing.
NotifyNobody(sleepers) == {sleepers}

\* notify_one wakes an arbitrary sleeper, if there is one.
NotifyOne(sleepers) ==
  IF sleepers = {} THEN {sleepers} ELSE {sleepers \ {t} : t \in sleepers}

\* Mutant of NotifyAll: notify_one where notify_all is needed.
NotifyAllAsOne(sleepers) ==
  IF sleepers = {} THEN {sleepers} ELSE {sleepers \ {t} : t \in sleepers}

NotifyAll(sleepers) == {{}}
=============================================================================
