--------------------------- MODULE SessionManager ---------------------------
(***************************************************************************)
(* TLS::Session_Manager and Session_Manager_In_Memory                      *)
(* (src/lib/tls/tls_session_manager*.cpp): the sessions that connections   *)
(* share for resumption, the queue that bounds them, and the steps in      *)
(* which retrieve() and find() take and release the manager's mutex.       *)
(*                                                                         *)
(* A session is known by its number.  It is stored under an id or a        *)
(* ticket: the ids of different sessions differ, so the number also stands *)
(* for the key in m_sessions, which for a ticket is random.  A TLS 1.2     *)
(* server stores a session it has resumed again under its own id, and a    *)
(* client may store a new session under the ticket it has just used.       *)
(***************************************************************************)
EXTENDS Naturals, Sequences, FiniteSets, SequencesExt

CONSTANTS Threads,       \* connections, each run by a thread
          Servers,       \* what find() looks for
          Hints,         \* lifetime_hint of a session
          Capacity,      \* m_max_sessions; 0: no cap, m_fifo is not used
          Lifetime,      \* Policy::session_ticket_lifetime(), not 0
          Limit,         \* maximum_session_tickets_per_client_hello(); 0: all
          Reuses,        \* the values of Policy::reuse_session_tickets()
          MaxAttempts,   \* max_attempts of find_and_filter()
          MaxSessions,   \* bound: sessions ever made
          MaxFifo,       \* bound: length of m_fifo
          MaxTime        \* bound: the clock

Nobody == "nobody"

\* seconds::max() as a lifetime_hint: only the policy's lifetime counts.
Forever == Lifetime

ASSUME SessionManagerAssumption ==
  /\ {Capacity, Limit, MaxSessions, MaxFifo, MaxTime} \subseteq Nat
  /\ Lifetime \in Nat \ {0} /\ MaxAttempts \in Nat \ {0}
  /\ Hints \subseteq Nat
  /\ Reuses \subseteq BOOLEAN
  /\ Nobody \notin Threads

VARIABLES reuse,    \* Policy::reuse_session_tickets() of every connection
          made,     \* every session ever made, by number
          held,     \* m_sessions
          fifo,     \* m_fifo
          mutex,    \* the thread that keeps the mutex between steps
          now,      \* tls_current_timestamp()
          conn,     \* where each thread is, and what it holds in its locals
          handed,   \* for the properties: how often find() gave out a session that
                    \* may not be reused, up to 2
          steady    \* for the properties: live sessions held since find() began

store == <<held, fifo, steady>>
vars == <<reuse, made, store, mutex, now, conn, handed>>

Numbers == 1..Len(made)

\* The locals of a thread: found is sessions_and_handles, at is now and try
\* is attempt in find_and_filter(); sid is the session being resumed.
Idle == [pc |-> "idle", found |-> {}, at |-> 0, try |-> 0, sid |-> 0, server |-> Nobody]

Init ==
  /\ reuse \in Reuses
  /\ made = <<>>
  /\ held = {} /\ fifo = <<>>
  /\ mutex = Nobody
  /\ now = 0
  /\ conn = [t \in Threads |-> Idle]
  /\ handed = [n \in 1..MaxSessions |-> 0]
  /\ steady = [t \in Threads |-> {}]

-----------------------------------------------------------------------------

At(t, where) == conn[t].pc = where
Become(t, c) == conn' = [conn EXCEPT ![t] = c]

\* The mutex is recursive: t can lock it unless another thread has it.
CanLock(t) == mutex \in {Nobody, t}

Pre13(n) == ~made[n].v13
IsId(n) == made[n].kind = "id"

\* Whatever changes m_sessions ends what was there all the time.
Observe == steady' = [t \in Threads |-> steady[t] \cap held']

\* The loop of store(): the shortest prefix of the queue whose removal
\* leaves room; the queue holds every session, so there is one.
Evicted(h, q) ==
  LET fits(k) == Cardinality(h \ ToSet(SubSeq(q, 1, k))) < Capacity
  IN CHOOSE k \in 0..Len(q) : fits(k) /\ \A j \in 0..(k - 1) : ~fits(j)

\* Mutants of Store: a session that is there already does not enter the
\* queue, which is decided before the loop may evict it.
StoreQueuesNew(n) ==
  IF Capacity = 0
  THEN held' = held \cup {n} /\ UNCHANGED fifo /\ Observe
  ELSE LET k == Evicted(held, fifo)
           kept == SubSeq(fifo, k + 1, Len(fifo))
       IN /\ held' = (held \ ToSet(SubSeq(fifo, 1, k))) \cup {n}
          /\ fifo' = IF n \in held THEN kept ELSE Append(kept, n)
          /\ Observe

\* store(): make room, insert, and queue the key, also when it was there.
Store(n) ==
  IF Capacity = 0
  THEN held' = held \cup {n} /\ UNCHANGED fifo /\ Observe
  ELSE LET k == Evicted(held, fifo)
       IN /\ held' = (held \ ToSet(SubSeq(fifo, 1, k))) \cup {n}
          /\ fifo' = Append(SubSeq(fifo, k + 1, Len(fifo)), n)
          /\ Observe

\* remove(): by id, or every session that has the ticket; the queue keeps
\* the keys.
Matching(n) ==
  IF IsId(n) THEN {n}
  ELSE {m \in Numbers : ~IsId(m) /\ made[m].ticket = made[n].ticket}

Without(ns) == held \ UNION {Matching(n) : n \in ns}

Removing(ns) ==
  /\ held' = Without(ns)
  /\ UNCHANGED fifo
  /\ Observe

\* A session made now; ticket is the number of the session first stored
\* under the ticket.
NewSession(kind, ticket, v13, hint, server) ==
  [kind |-> kind, ticket |-> ticket, v13 |-> v13, hint |-> hint,
   server |-> server, start |-> now]

\* Bounds.
RoomToStore == Len(fifo) < MaxFifo
RoomToMake == Len(made) < MaxSessions

\* establish() by a server, store() by a client, after a full handshake.
StoreNew(t, kind, v13, hint, server) ==
  /\ At(t, "idle") /\ CanLock(t)
  /\ RoomToMake /\ RoomToStore
  /\ LET n == Len(made) + 1
     IN /\ made' = Append(made, NewSession(kind, n, v13, hint, server))
        /\ Store(n)
  /\ UNCHANGED <<mutex, now, conn, handed>>

\* remove() after a fatal alert, or because the session is not to persist.
RemoveSession(t, n) ==
  /\ At(t, "idle") /\ CanLock(t)
  /\ n \in held
  /\ Removing({n})
  /\ UNCHANGED <<made, mutex, now, conn, handed>>

RemoveAll(t) ==
  /\ At(t, "idle") /\ CanLock(t)
  /\ held' = {} /\ fifo' = <<>> /\ Observe
  /\ UNCHANGED <<made, mutex, now, conn, handed>>

-----------------------------------------------------------------------------
(* A server looks a session up by its id and resumes it.                   *)

RetrieveOne(t, n) ==
  /\ At(t, "idle") /\ CanLock(t)
  /\ n \in held /\ IsId(n)
  /\ Become(t, [Idle EXCEPT !.pc = "retrieved", !.sid = n])
  /\ UNCHANGED <<made, store, mutex, now, handed>>

RetrieveExpired(n) == now - made[n].start > Lifetime

\* retrieve() after retrieve_one(): removes what has expired.
Retrieve(t) ==
  /\ At(t, "retrieved")
  /\ \/ /\ RetrieveExpired(conn[t].sid)
        /\ CanLock(t)
        /\ Removing({conn[t].sid})
        /\ Become(t, Idle)
     \/ /\ ~RetrieveExpired(conn[t].sid)
        /\ Become(t, [conn[t] EXCEPT !.pc = "resuming"])
        /\ UNCHANGED store
  /\ UNCHANGED <<made, mutex, now, handed>>

\* A TLS 1.2 server resumes: the session is established again under its id,
\* or removed when it is not to persist.
Resume(t) ==
  /\ At(t, "resuming") /\ Pre13(conn[t].sid)
  /\ CanLock(t)
  /\ \/ /\ RoomToStore
        /\ Store(conn[t].sid)
     \/ Removing({conn[t].sid})
  /\ Become(t, Idle)
  /\ UNCHANGED <<made, mutex, now, handed>>

\* A TLS 1.3 server uses the session, or a server of either version does not
\* resume it after all.
DontResume(t) ==
  /\ At(t, "resuming")
  /\ Become(t, Idle)
  /\ UNCHANGED <<made, store, mutex, now, handed>>

-----------------------------------------------------------------------------
(* A client looks for sessions with a server.                              *)

\* find_and_filter(): a hint of 0 is no limit before TLS 1.3.
FindExpired(n, at) ==
  LET age == at - made[n].start
  IN age > Lifetime \/ (age > made[n].hint /\ ~(made[n].hint = 0 /\ Pre13(n)))

\* What find() could return from its beginning on.
Live(s) == {n \in held : made[n].server = s /\ ~FindExpired(n, now)}

\* Mutants of FindBegin: the mutex is left to the calls below.
FindBeginUnlocked(t, s) ==
  /\ At(t, "idle") /\ CanLock(t)
  /\ Become(t, [Idle EXCEPT !.pc = "find", !.at = now, !.server = s])
  /\ steady' = [steady EXCEPT ![t] = Live(s)]
  /\ UNCHANGED <<made, held, fifo, mutex, now, handed>>

\* find() locks for its whole duration when sessions are not to be reused.
FindBegin(t, s) ==
  /\ At(t, "idle")
  /\ IF reuse THEN UNCHANGED mutex ELSE CanLock(t) /\ mutex' = t
  /\ Become(t, [Idle EXCEPT !.pc = "find", !.at = now, !.server = s])
  /\ steady' = [steady EXCEPT ![t] = Live(s)]
  /\ UNCHANGED <<made, held, fifo, now, handed>>

\* Mutants of FindSome: one session at a time.
FindSomeOne(t) ==
  LET all == {n \in held : made[n].server = conn[t].server}
  IN /\ At(t, "find") /\ CanLock(t)
     /\ \E some \in {{n} : n \in all} \cup {x \in {{}} : all = {}} :
          Become(t, [conn[t] EXCEPT !.pc = IF some = {} THEN "found" ELSE "filter",
                                    !.found = some, !.try = @ + 1])
     /\ UNCHANGED <<made, store, mutex, now, handed>>

FindSome(t) ==
  LET all == {n \in held : made[n].server = conn[t].server}
  IN /\ At(t, "find") /\ CanLock(t)
     /\ Become(t, [conn[t] EXCEPT !.pc = IF all = {} THEN "found" ELSE "filter",
                                  !.found = all, !.try = @ + 1])
     /\ UNCHANGED <<made, store, mutex, now, handed>>

\* One expired session is removed, with the mutex locked just for that.
FilterOne(t, n) ==
  /\ At(t, "filter") /\ CanLock(t)
  /\ n \in conn[t].found /\ FindExpired(n, conn[t].at)
  /\ Removing({n})
  /\ Become(t, [conn[t] EXCEPT !.found = @ \ {n}])
  /\ UNCHANGED <<made, mutex, now, handed>>

\* All that is left is live: done, or another attempt when nothing is left.
FilterDone(t) ==
  /\ At(t, "filter")
  /\ \A n \in conn[t].found : ~FindExpired(n, conn[t].at)
  /\ LET again == conn[t].found = {} /\ conn[t].try < MaxAttempts
     IN Become(t, [conn[t] EXCEPT !.pc = IF again THEN "find" ELSE "found"])
  /\ UNCHANGED <<made, store, mutex, now, handed>>

\* What find() must not give out again.
Consumed(ns) == {n \in ns : ~Pre13(n) \/ ~IsId(n)}

\* The lock guard of find(), if it has one, is destroyed.
Unlock(t) == mutex' = IF mutex = t THEN Nobody ELSE mutex

\* find() ends: the vector is cut to the limit, what may not be reused is
\* removed and the mutex released.  The client uses one session, if any.
FindEnd(t) ==
  /\ At(t, "found")
  /\ \E some \in SUBSET conn[t].found :
       /\ Cardinality(some) = IF Limit = 0 \/ Cardinality(conn[t].found) <= Limit
                              THEN Cardinality(conn[t].found) ELSE Limit
       /\ handed' = [n \in DOMAIN handed |->
                       IF n \in some /\ ~reuse /\ handed[n] < 2 THEN handed[n] + 1 ELSE handed[n]]
       /\ held' = IF reuse THEN held ELSE Without(Consumed(some))
       /\ steady' = [u \in Threads |-> IF u = t THEN {} ELSE steady[u] \cap held']
       /\ \/ Become(t, Idle)
          \/ \E n \in some :
               /\ Pre13(n) /\ ~IsId(n) /\ RoomToMake
               /\ Become(t, [Idle EXCEPT !.pc = "renew", !.sid = n])
  /\ Unlock(t)
  /\ UNCHANGED <<made, fifo, now>>

\* A TLS 1.2 client whose ticket was accepted removes it ...
RenewRemove(t) ==
  /\ At(t, "renew") /\ CanLock(t)
  /\ Removing({conn[t].sid})
  /\ Become(t, [conn[t] EXCEPT !.pc = "renew_store"])
  /\ UNCHANGED <<made, mutex, now, handed>>

\* ... and stores the new session with the hint it was given now, if any:
\* under the same ticket unless the server sent a new one.
RenewStore(t, same, hint) ==
  /\ At(t, "renew_store") /\ CanLock(t)
  /\ RoomToMake
  /\ LET n == Len(made) + 1
         old == made[conn[t].sid]
     IN /\ made' = Append(made, NewSession("ticket", IF same THEN old.ticket ELSE n,
                                           FALSE, hint, old.server))
        /\ Store(n)
  /\ Become(t, Idle)
  /\ UNCHANGED <<mutex, now, handed>>

Tick ==
  /\ now < MaxTime
  /\ now' = now + 1
  /\ UNCHANGED <<made, store, mutex, conn, handed>>

-----------------------------------------------------------------------------

Step ==
  \/ Tick
  \/ \E t \in Threads :
       \/ \E kind \in {"id", "ticket"}, v13 \in BOOLEAN, hint \in Hints \cup {Forever}, s \in Servers :
            StoreNew(t, kind, v13, hint, s)
       \/ \E n \in Numbers : RemoveSession(t, n) \/ RetrieveOne(t, n) \/ FilterOne(t, n)
       \/ RemoveAll(t)
       \/ Retrieve(t) \/ Resume(t) \/ DontResume(t)
       \/ \E s \in Servers : FindBegin(t, s)
       \/ FindSome(t) \/ FilterDone(t) \/ FindEnd(t)
       \/ RenewRemove(t)
       \/ \E same \in BOOLEAN, hint \in Hints : RenewStore(t, same, hint)
       \/ RenewStore(t, TRUE, Forever)   \* no NewSessionTicket

Next == Step /\ UNCHANGED reuse

Spec == Init /\ [][Next]_vars

-----------------------------------------------------------------------------

\* What store() asserts and its loop needs to end: however sessions were
\* removed, resumed and stored again, each one held has its key in the queue,
\* and no more are held than the capacity.
QueueCoversSessions ==
  Capacity > 0 => /\ held \subseteq ToSet(fifo)
                  /\ Cardinality(held) <= Capacity

\* t resumes with a TLS 1.2 ticket that find() gave it.
Using(t) == conn[t].pc \in {"renew", "renew_store"}

\* "each ticket handed to concurrently requesting threads must be unique"
\* (find()).  Unless reuse is allowed, what a store() put there is given out at
\* most once, sessions older than TLS 1.3 that have an id excepted; and as long
\* as a client uses a ticket, no other client does and none can be given it.
\* When it is done the client may store the ticket again, if the server did not
\* send another one, and then find() gives the same ticket out again: that a
\* ticket is used once in all, which Policy::reuse_session_tickets() promises,
\* is not so, and not what is stated here.
HandedOutOnce ==
  /\ \A n \in Numbers : made[n].v13 \/ made[n].kind = "ticket" => handed[n] <= 1
  /\ ~reuse => \A t \in Threads : Using(t) =>
       LET ticket == made[conn[t].sid].ticket
       IN /\ \A u \in Threads : Using(u) /\ u # t => made[conn[u].sid].ticket # ticket
          /\ \A n \in held : made[n].kind = "ticket" => made[n].ticket # ticket

\* find() comes back without a session only if no live session for the
\* server was there all the time, also when others expired or were evicted
\* while it was looking.
FindIsComplete ==
  \A t \in Threads : At(t, "found") /\ conn[t].found = {} => steady[t] = {}

\* Clearing out expired sessions, in retrieve() and in find(), never takes a
\* live one, although it acts on what was read in an earlier step.  With reuse
\* allowed find() is not locked as a whole and may take the session that a
\* client has just stored under the ticket of an expired one.
ExpiryTakesOnlyExpired ==
  [][~reuse => \A t \in Threads :
       (Retrieve(t) \/ \E n \in Numbers : FilterOne(t, n)) =>
         \A n \in held \ held' : FindExpired(n, now) \/ RetrieveExpired(n)]_vars

=============================================================================
