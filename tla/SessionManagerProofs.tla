------------------------ MODULE SessionManagerProofs ------------------------
(***************************************************************************)
(* The in-memory session manager for any number of connections, sessions   *)
(* and servers, every capacity and every policy: the queue of store()      *)
(* covers what is held, find() hands out what must not be reused once each *)
(* time it is stored and misses nothing, and clearing out expired sessions *)
(* takes no live one.                                                      *)
(***************************************************************************)
EXTENDS SessionManager, FiniteSetTheorems, SequenceTheorems, TLAPS

Sessions == [kind : {"id", "ticket"}, ticket : Nat, v13 : BOOLEAN, hint : Nat,
             server : Servers, start : Nat]

Finding == {"find", "filter", "found"}
Renewing == {"renew", "renew_store"}
PCs == {"idle", "retrieved", "resuming"} \cup Finding \cup Renewing

Conns == [pc : PCs, found : SUBSET Nat, at : Nat, try : Nat, sid : Nat,
          server : Servers \cup {Nobody}]

TypeInv ==
  /\ made \in Seq(Sessions)
  /\ held \subseteq Numbers
  /\ fifo \in Seq(Nat)
  /\ mutex \in Threads \cup {Nobody}
  /\ now \in Nat
  /\ conn \in [Threads -> Conns]
  /\ handed \in [1..MaxSessions -> Nat]
  /\ steady \in [Threads -> SUBSET Nat]

\* The locals of a thread; without reuse find() has the mutex.
ConnOK(t) ==
  /\ conn[t].found \subseteq Numbers
  /\ conn[t].found # {} => conn[t].pc \in {"filter", "found"}
  /\ conn[t].at <= now
  /\ conn[t].pc \in {"retrieved", "resuming"} => conn[t].sid \in Numbers /\ IsId(conn[t].sid)
  /\ conn[t].pc \in Renewing => conn[t].sid \in Numbers /\ ~IsId(conn[t].sid)
  /\ ~reuse /\ conn[t].pc \in Finding => mutex = t

ConnInv == \A t \in Threads : ConnOK(t)

\* The clients that use a ticket they were given.
Renewers == {t \in Threads : conn[t].pc \in Renewing}

RoomInv == Len(made) <= MaxSessions

\* What was live when find() began and is still held passes its filter, and
\* is among what it has found.
SteadyOK(t) ==
  /\ steady[t] \subseteq held
  /\ conn[t].pc \in Finding =>
       \A n \in steady[t] : made[n].server = conn[t].server /\ ~FindExpired(n, conn[t].at)
  /\ conn[t].pc \in {"filter", "found"} => steady[t] \subseteq conn[t].found

SteadyInv == \A t \in Threads : SteadyOK(t)

\* The sessions find() could still give out.
Around == {n \in Numbers : n \in held \/ \E t \in Threads : n \in conn[t].found}

OneTime(n) == ~Pre13(n) \/ ~IsId(n)

\* A session that must not be reused is gone once it has been handed out.
HandInv ==
  /\ \A n \in 1..MaxSessions : n \notin Numbers \/ reuse => handed[n] = 0
  /\ ~reuse => \A n \in Numbers : OneTime(n) =>
       handed[n] <= 1 /\ (handed[n] > 0 => n \notin Around)

SameTicket(m, n) == ~IsId(m) /\ ~IsId(n) /\ made[m].ticket = made[n].ticket

\* Without reuse a ticket belongs to one session, or to the client that
\* renews it.
TicketInv ==
  /\ \A n \in Numbers : made[n].ticket <= n
  /\ ~reuse => /\ \A m, n \in Around : SameTicket(m, n) => m = n
               /\ \A t \in Renewers, n \in Around : ~SameTicket(n, conn[t].sid)
               /\ \A t, u \in Renewers : SameTicket(conn[t].sid, conn[u].sid) => t = u

Inv ==
  /\ TypeInv /\ ConnInv /\ RoomInv /\ QueueCoversSessions
  /\ SteadyInv /\ HandInv /\ TicketInv

-----------------------------------------------------------------------------

\* A set of natural numbers has a least element.
LEMMA Least ==
  ASSUME NEW K \in SUBSET Nat, K # {}
  PROVE  \E k \in K : \A j \in K : k <= j
<1>1. PICK k \in K : \A j \in K : ~(<<j, k>> \in OpToRel(<, Nat))
  BY NatLessThanWellFounded, WFMin
<1>2. \A j \in K : ~(j < k)
  BY <1>1 DEF OpToRel
<1> QED
  BY <1>2

\* A queue is covered by any of its prefixes and what comes after it.
LEMMA Prefix ==
  ASSUME NEW q \in Seq(Nat), NEW k \in 0..Len(q)
  PROVE  /\ SubSeq(q, k + 1, Len(q)) \in Seq(Nat)
         /\ ToSet(q) \subseteq ToSet(SubSeq(q, 1, k)) \cup ToSet(SubSeq(q, k + 1, Len(q)))
<1> DEFINE front == SubSeq(q, 1, k)
           back == SubSeq(q, k + 1, Len(q))
<1>1. front \in Seq(Nat) /\ Len(front) = k /\ \A i \in 1..k : front[i] = q[i]
  OBVIOUS
<1>2. back \in Seq(Nat) /\ Len(back) = Len(q) - k /\ \A i \in 1..(Len(q) - k) : back[i] = q[k + i]
  <2>1. /\ k + 1 \in Int /\ Len(q) \in Int /\ \A i \in (k + 1)..Len(q) : q[i] \in Nat
        /\ Len(q) - (k + 1) + 1 = Len(q) - k
        /\ \A i \in 1..(Len(q) - k) : k + 1 + i - 1 = k + i
    OBVIOUS
  <2>2. /\ back \in Seq(Nat)
        /\ Len(back) = IF k + 1 <= Len(q) THEN Len(q) - (k + 1) + 1 ELSE 0
        /\ \A i \in 1..(Len(q) - (k + 1) + 1) : back[i] = q[k + 1 + i - 1]
    BY <2>1, SubSeqProperties
  <2>3. (IF k + 1 <= Len(q) THEN Len(q) - (k + 1) + 1 ELSE 0) = Len(q) - k
    OBVIOUS
  <2> HIDE DEF back
  <2> QED
    BY <2>1, <2>2, <2>3
<1> HIDE DEF front, back
<1>3. ASSUME NEW i \in DOMAIN q PROVE q[i] \in ToSet(front) \cup ToSet(back)
  <2>1. CASE i <= k
    <3>1. i \in DOMAIN front /\ front[i] = q[i]
      BY <1>1, <2>1
    <3> QED
      BY <3>1 DEF ToSet
  <2>2. CASE i > k
    <3>1. i - k \in 1..(Len(q) - k) /\ k + (i - k) = i
      BY <2>2
    <3>2. DOMAIN back = 1..(Len(q) - k)
      BY <1>2
    <3>3. i - k \in DOMAIN back /\ back[i - k] = q[i]
      BY <1>2, <3>1, <3>2
    <3> QED
      BY <3>3 DEF ToSet
  <2> QED
    BY <2>1, <2>2
<1> QED
  BY <1>2, <1>3 DEF ToSet, front, back

LEMMA Pushed ==
  ASSUME NEW q \in Seq(Nat), NEW n \in Nat
  PROVE  Append(q, n) \in Seq(Nat) /\ ToSet(Append(q, n)) = ToSet(q) \cup {n}
<1> DEFINE r == Append(q, n)
<1>1. /\ r \in Seq(Nat) /\ Len(r) = Len(q) + 1 /\ r[Len(r)] = n
      /\ \A i \in 1..Len(q) : r[i] = q[i]
  OBVIOUS
<1>2. DOMAIN r = DOMAIN q \cup {Len(r)} /\ \A i \in DOMAIN q : r[i] = q[i]
  BY <1>1
<1> HIDE DEF r
<1> QED
  BY <1>1, <1>2 DEF ToSet, r

\* The loop of store() ends: with the whole queue taken nothing is held.
LEMMA LoopEnds ==
  ASSUME Capacity > 0, NEW h, IsFiniteSet(h), NEW q \in Seq(Nat), h \subseteq ToSet(q)
  PROVE  /\ Evicted(h, q) \in 0..Len(q)
         /\ Cardinality(h \ ToSet(SubSeq(q, 1, Evicted(h, q)))) < Capacity
<1> DEFINE fits(k) == Cardinality(h \ ToSet(SubSeq(q, 1, k))) < Capacity
           K == {k \in 0..Len(q) : fits(k)}
<1>1. SubSeq(q, 1, Len(q)) = q
  OBVIOUS
<1>2. h \ ToSet(SubSeq(q, 1, Len(q))) = {}
  BY <1>1
<1>3. fits(Len(q))
  BY <1>2, FS_EmptySet
<1> HIDE DEF fits
<1>4. PICK k \in K : \A j \in K : k <= j
  <2>1. K \in SUBSET Nat /\ Len(q) \in K
    BY <1>3
  <2> HIDE DEF K
  <2> QED
    BY <2>1, Least
<1>5. k \in 0..Len(q) /\ fits(k) /\ \A j \in 0..(k - 1) : ~fits(j)
  BY <1>4
<1>6. Evicted(h, q) = CHOOSE i \in 0..Len(q) : fits(i) /\ \A j \in 0..(i - 1) : ~fits(j)
  BY DEF Evicted, fits
<1>7. Evicted(h, q) \in 0..Len(q) /\ fits(Evicted(h, q))
  BY <1>5, <1>6
<1> QED
  BY <1>7 DEF fits

LEMMA HeldFinite ==
  ASSUME TypeInv
  PROVE  IsFiniteSet(held) /\ Cardinality(held) \in Nat
<1>1. Len(made) \in Nat /\ held \subseteq 1..Len(made)
  BY DEF TypeInv, Numbers
<1>2. IsFiniteSet(1..Len(made))
  BY <1>1, FS_Interval
<1> QED
  BY <1>1, <1>2, FS_Subset, FS_CardinalityType

\* store() adds the session and keeps the queue and its capacity right.
LEMMA StoreKeeps ==
  ASSUME TypeInv, QueueCoversSessions, NEW n \in Nat, Store(n)
  PROVE  /\ held' \subseteq held \cup {n}
         /\ fifo' \in Seq(Nat)
         /\ Observe
         /\ QueueCoversSessions'
<1>1. CASE Capacity = 0
  BY <1>1 DEF Store, TypeInv, QueueCoversSessions
<1>2. CASE Capacity > 0
  <2> DEFINE k == Evicted(held, fifo)
             kept == held \ ToSet(SubSeq(fifo, 1, k))
             back == SubSeq(fifo, k + 1, Len(fifo))
  <2>1. fifo \in Seq(Nat) /\ held \subseteq ToSet(fifo) /\ IsFiniteSet(held)
    BY <1>2, HeldFinite DEF TypeInv, QueueCoversSessions
  <2>2. k \in 0..Len(fifo) /\ Cardinality(kept) < Capacity
    BY <1>2, <2>1, LoopEnds
  <2>3. held' = kept \cup {n} /\ fifo' = Append(back, n) /\ Observe
    <3>1. Capacity # 0
      BY <1>2
    <3> QED
      BY <3>1, Zenon DEF Store
  <2>4. back \in Seq(Nat) /\ ToSet(fifo) \subseteq ToSet(SubSeq(fifo, 1, k)) \cup ToSet(back)
    BY <2>1, <2>2, Prefix
  <2>5. kept \subseteq ToSet(back) /\ kept \subseteq held
    BY <2>1, <2>4
  <2> HIDE DEF k, kept, back
  <2>6. fifo' \in Seq(Nat) /\ ToSet(fifo') = ToSet(back) \cup {n}
    BY <2>3, <2>4, Pushed
  <2>7. IsFiniteSet(kept) /\ Cardinality(kept) \in Nat
    BY <2>1, <2>5, FS_Subset, FS_CardinalityType
  <2>8. Cardinality(kept \cup {n}) <= Cardinality(kept) + 1
    BY <2>7, FS_AddElement
  <2>9. Cardinality(held') <= Capacity
    <3>1. Cardinality(kept \cup {n}) \in Nat
      BY <2>7, FS_AddElement, FS_CardinalityType
    <3> QED
      BY <2>2, <2>3, <2>7, <2>8, <3>1, SessionManagerAssumption
  <2> QED
    BY <2>3, <2>5, <2>6, <2>9 DEF QueueCoversSessions
<1> QED
  BY <1>1, <1>2, SessionManagerAssumption

\* Taking sessions away does too.
LEMMA ShrinkKeeps ==
  ASSUME TypeInv, QueueCoversSessions, held' \subseteq held, fifo' = fifo
  PROVE  QueueCoversSessions'
<1>1. IsFiniteSet(held) /\ Cardinality(held) \in Nat /\ IsFiniteSet(held') /\ Cardinality(held') \in Nat
      /\ Cardinality(held') <= Cardinality(held)
  BY HeldFinite, FS_Subset, FS_CardinalityType
<1> QED
  BY <1>1, SessionManagerAssumption DEF QueueCoversSessions

-----------------------------------------------------------------------------

\* Sessions are made, never changed.
MadeKept == Numbers \subseteq Numbers' /\ \A n \in Numbers : made'[n] = made[n]

LEMMA Making ==
  ASSUME TypeInv, NEW x \in Sessions, made' = Append(made, x)
  PROVE  /\ made' \in Seq(Sessions) /\ Len(made) \in Nat /\ Len(made') = Len(made) + 1
         /\ Len(made) + 1 \notin Numbers
         /\ Numbers' = Numbers \cup {Len(made) + 1}
         /\ made'[Len(made) + 1] = x
         /\ MadeKept
<1>1. made \in Seq(Sessions)
  BY DEF TypeInv
<1>2. /\ made' \in Seq(Sessions) /\ Len(made) \in Nat /\ Len(made') = Len(made) + 1
      /\ made'[Len(made) + 1] = x
      /\ \A n \in 1..Len(made) : made'[n] = made[n]
  BY <1>1
<1>3. Numbers' = Numbers \cup {Len(made) + 1} /\ Len(made) + 1 \notin Numbers
  BY <1>2 DEF Numbers
<1> QED
  BY <1>2, <1>3 DEF MadeKept, Numbers

\* What a session is does not change either.
LEMMA KindKept ==
  ASSUME MadeKept, NEW n \in Numbers
  PROVE  /\ n \in Numbers'
         /\ IsId(n)' <=> IsId(n)
         /\ Pre13(n)' <=> Pre13(n)
         /\ OneTime(n)' <=> OneTime(n)
         /\ \A at : FindExpired(n, at)' <=> FindExpired(n, at)
BY DEF MadeKept, IsId, Pre13, OneTime, FindExpired

LEMMA IdleConn ==
  /\ Idle \in Conns /\ Idle.pc = "idle" /\ Idle.found = {} /\ Idle.at = 0
  /\ "idle" \notin Finding \cup Renewing \cup {"retrieved", "resuming", "filter", "found"}
BY DEF Idle, Conns, PCs, Finding, Renewing

\* Whoever else is in find() keeps the mutex.
LEMMA ConnStep ==
  ASSUME Inv, NEW t \in Threads, \A u \in Threads : u # t => conn'[u] = conn[u],
         MadeKept, reuse' = reuse, now' = now, mutex' = mutex \/ CanLock(t), ConnOK(t)'
  PROVE  ConnInv'
<1> SUFFICES ASSUME NEW u \in Threads, u # t PROVE ConnOK(u)'
  BY DEF ConnInv
<1>1. ConnOK(u) /\ conn'[u] = conn[u]
  BY DEF Inv, ConnInv
<1>2. conn[u].sid \in Numbers => (IsId(conn[u].sid)' <=> IsId(conn[u].sid))
  <2>1. PICK n : n = conn[u].sid
    OBVIOUS
  <2>2. n \in Numbers => (IsId(n)' <=> IsId(n))
    BY KindKept
  <2> QED
    BY <1>1, <2>1, <2>2 DEF IsId
<1>3. ~reuse /\ conn[u].pc \in Finding => mutex' = u
  BY <1>1, SessionManagerAssumption DEF ConnOK, CanLock
<1>4. conn[u].found \subseteq Numbers'
  BY <1>1 DEF ConnOK, MadeKept
<1> QED
  BY <1>1, <1>2, <1>3, <1>4 DEF ConnOK, MadeKept

LEMMA SteadyStep ==
  ASSUME Inv, NEW t \in Threads, \A u \in Threads : u # t => conn'[u] = conn[u],
         MadeKept, \A u \in Threads : u # t => steady'[u] \subseteq steady[u] \cap held',
         SteadyOK(t)'
  PROVE  SteadyInv'
<1> SUFFICES ASSUME NEW u \in Threads, u # t PROVE SteadyOK(u)'
  BY DEF SteadyInv
<1>1. SteadyOK(u) /\ conn'[u] = conn[u] /\ steady'[u] \subseteq steady[u] \cap held'
  BY DEF Inv, SteadyInv
<1>2. steady[u] \subseteq Numbers
  BY <1>1 DEF Inv, TypeInv, SteadyOK
<1>3. ASSUME conn[u].pc \in Finding, NEW n \in steady'[u]
      PROVE  made'[n].server = conn[u].server /\ ~FindExpired(n, conn[u].at)'
  <2>1. n \in Numbers /\ made[n].server = conn[u].server /\ ~FindExpired(n, conn[u].at)
    BY <1>1, <1>2, <1>3 DEF SteadyOK
  <2>2. made'[n] = made[n]
    BY <2>1 DEF MadeKept
  <2> QED
    BY <1>1, <2>1, <2>2 DEF FindExpired, Pre13
<1> QED
  BY <1>1, <1>3 DEF SteadyOK

\* A step that makes no session, stores none and gives none out: nobody
\* comes to hold a session that was not around, or to renew a ticket.
LEMMA CalmInv ==
  ASSUME Inv, reuse' = reuse, made' = made, handed' = handed, held' \subseteq held,
         \A u \in Threads : conn'[u].found \subseteq Around,
         \A u \in Threads : conn'[u].pc \in Renewing =>
           conn[u].pc \in Renewing /\ conn'[u].sid = conn[u].sid
  PROVE  RoomInv' /\ HandInv' /\ TicketInv'
<1>1. Numbers' = Numbers
  BY DEF Numbers
<1>2. Around' \subseteq Around
  <2>1. held \subseteq Around
    BY DEF Inv, TypeInv, Around
  <2> QED
    BY <1>1, <2>1 DEF Around
<1>3. Renewers' \subseteq Renewers
  BY DEF Renewers
<1>4. RoomInv'
  BY DEF Inv, RoomInv
<1>5. HandInv'
  BY <1>1, <1>2 DEF Inv, HandInv, OneTime, Pre13, IsId
<1>6. TicketInv'
  <2>1. \A n \in Numbers' : made'[n].ticket <= n
    BY <1>1 DEF Inv, TicketInv
  <2>2. \A t \in Renewers' : t \in Renewers /\ conn'[t].sid = conn[t].sid
    BY <1>3 DEF Renewers
  <2>3. ASSUME ~reuse
        PROVE  /\ \A m, n \in Around' : SameTicket(m, n)' => m = n
               /\ \A t \in Renewers', n \in Around' : ~SameTicket(n, conn[t].sid)'
               /\ \A t, u \in Renewers' : SameTicket(conn[t].sid, conn[u].sid)' => t = u
    BY <1>2, <2>2, <2>3 DEF Inv, TicketInv, SameTicket, IsId
  <2> QED
    BY <2>1, <2>3 DEF TicketInv
<1> QED
  BY <1>4, <1>5, <1>6

LEMMA CalmStep ==
  ASSUME Inv, NEW t \in Threads, NEW c \in Conns, Become(t, c),
         UNCHANGED <<reuse, made, now, handed>>,
         mutex' \in Threads \cup {Nobody}, mutex' = mutex \/ CanLock(t),
         held' \subseteq held, fifo' = fifo \/ (fifo' = <<>> /\ held' = {}),
         steady' \in [Threads -> SUBSET Nat],
         \A u \in Threads : u # t => steady'[u] \subseteq steady[u] \cap held',
         c.found \subseteq Around,
         c.pc \in Renewing => conn[t].pc \in Renewing /\ c.sid = conn[t].sid,
         ConnOK(t)', SteadyOK(t)'
  PROVE  Inv'
<1>1. TypeInv /\ ConnInv /\ QueueCoversSessions
  BY DEF Inv
<1>2. conn' \in [Threads -> Conns] /\ conn'[t] = c /\ \A u \in Threads : u # t => conn'[u] = conn[u]
  BY <1>1 DEF TypeInv, Become
<1>3. Numbers' = Numbers /\ MadeKept
  BY DEF Numbers, MadeKept
<1>4. fifo' \in Seq(Nat)
  <2>1. CASE fifo' = fifo
    BY <1>1, <2>1 DEF TypeInv
  <2>2. CASE fifo' = <<>>
    BY <2>2
  <2> QED
    BY <2>1, <2>2
<1>5. TypeInv'
  BY <1>1, <1>2, <1>3, <1>4 DEF TypeInv
<1>6. ConnInv'
  BY <1>2, <1>3, ConnStep
<1>7. SteadyInv'
  BY <1>2, <1>3, SteadyStep
<1>8. \A u \in Threads : conn[u].found \subseteq Around
  BY <1>1 DEF ConnInv, ConnOK, Around
<1>9. RoomInv' /\ HandInv' /\ TicketInv'
  BY <1>2, <1>8, CalmInv
<1>10. QueueCoversSessions'
  <2>1. CASE fifo' = fifo
    BY <1>1, <2>1, ShrinkKeeps
  <2>2. CASE held' = {}
    BY <2>2, FS_EmptySet, SessionManagerAssumption DEF QueueCoversSessions
  <2> QED
    BY <2>1, <2>2
<1> QED
  BY <1>5, <1>6, <1>7, <1>9, <1>10 DEF Inv

\* Facts that every step of a thread needs.
LEMMA ThreadFacts ==
  ASSUME Inv, NEW t \in Threads
  PROVE  /\ conn[t] \in Conns /\ ConnOK(t) /\ SteadyOK(t)
         /\ conn[t].found \subseteq Around /\ held \subseteq Around
         /\ Around \subseteq Nat /\ held \subseteq Nat
         /\ Become(t, conn[t]) <=> conn' = conn
         /\ mutex \in Threads \cup {Nobody} /\ now \in Nat
         /\ steady \in [Threads -> SUBSET Nat]
<1>1. TypeInv /\ ConnOK(t) /\ SteadyOK(t)
  BY DEF Inv, ConnInv, SteadyInv
<1>2. Numbers \subseteq Nat
  BY DEF Numbers
<1>3. conn[t].found \subseteq Around /\ held \subseteq Around
  BY <1>1 DEF TypeInv, ConnOK, Around
<1>4. Around \subseteq Nat
  BY <1>2 DEF Around
<1>5. [conn EXCEPT ![t] = conn[t]] = conn
  BY <1>1 DEF TypeInv
<1> QED
  BY <1>1, <1>3, <1>4, <1>5 DEF TypeInv, Become

LEMMA ObserveFacts ==
  ASSUME Observe, steady \in [Threads -> SUBSET Nat]
  PROVE  /\ steady' \in [Threads -> SUBSET Nat]
         /\ \A u \in Threads : steady'[u] = steady[u] \cap held'
BY DEF Observe

\* Removing sessions, by a thread that stays where it is or ends its work.
LEMMA RemovalInv ==
  ASSUME Inv, NEW t \in Threads, NEW c \in {conn[t], Idle}, Become(t, c), Observe,
         held' \subseteq held, fifo' = fifo \/ (fifo' = <<>> /\ held' = {}),
         UNCHANGED <<reuse, made, mutex, now, handed>>
  PROVE  Inv'
<1>1. /\ conn[t] \in Conns /\ ConnOK(t) /\ SteadyOK(t) /\ conn[t].found \subseteq Around
      /\ mutex \in Threads \cup {Nobody} /\ now \in Nat /\ steady \in [Threads -> SUBSET Nat]
  BY ThreadFacts
<1>2. c \in Conns /\ c.found \subseteq Around
  BY <1>1, IdleConn
<1>3. c.pc \in Renewing => conn[t].pc \in Renewing /\ c.sid = conn[t].sid
  BY IdleConn
<1>4. steady' \in [Threads -> SUBSET Nat] /\ \A u \in Threads : steady'[u] = steady[u] \cap held'
  BY <1>1, ObserveFacts
<1>5. conn'[t] = c
  BY DEF Inv, TypeInv, Become
<1>6. ConnOK(t)'
  <2>1. CASE c = conn[t]
    BY <1>1, <1>5, <2>1 DEF ConnOK, Numbers, IsId
  <2>2. CASE c = Idle
    BY <1>1, <1>5, <2>2, IdleConn DEF ConnOK
  <2> QED
    BY <2>1, <2>2
<1>7. SteadyOK(t)'
  <2>1. CASE c = conn[t]
    BY <1>1, <1>4, <1>5, <2>1 DEF SteadyOK, FindExpired, Pre13
  <2>2. CASE c = Idle
    BY <1>4, <1>5, <2>2, IdleConn DEF SteadyOK
  <2> QED
    BY <2>1, <2>2
<1> QED
  BY <1>1, <1>2, <1>3, <1>4, <1>6, <1>7, CalmStep

LEMMA RemovingShrinks ==
  ASSUME NEW ns, Removing(ns)
  PROVE  held' \subseteq held /\ fifo' = fifo /\ Observe
BY DEF Removing, Without

\* Steps that look at the store and leave it alone.
LEMMA LookInv ==
  ASSUME Inv, NEW t \in Threads, NEW c \in Conns, Become(t, c),
         UNCHANGED <<reuse, made, held, fifo, steady, mutex, now, handed>>,
         c.found \subseteq Around,
         c.pc \in Renewing => conn[t].pc \in Renewing /\ c.sid = conn[t].sid,
         ConnOK(t)', SteadyOK(t)'
  PROVE  Inv'
<1>1. /\ mutex \in Threads \cup {Nobody} /\ steady \in [Threads -> SUBSET Nat]
  BY ThreadFacts
<1>2. \A u \in Threads : steady'[u] \subseteq steady[u] \cap held'
  BY DEF Inv, SteadyInv, SteadyOK
<1> QED
  BY <1>1, <1>2, CalmStep

LEMMA RetrieveOneInv ==
  ASSUME Inv, reuse' = reuse, NEW t \in Threads, NEW n \in Numbers, RetrieveOne(t, n) PROVE Inv'
<1> DEFINE c == [Idle EXCEPT !.pc = "retrieved", !.sid = n]
<1>1. /\ c \in Conns /\ c.pc = "retrieved" /\ c.found = {} /\ c.at = 0 /\ c.sid = n
  <2>1. n \in Nat
    BY DEF Numbers
  <2> QED
    BY <2>1 DEF Idle, Conns, PCs
<1>2. Become(t, c) /\ IsId(n) /\ UNCHANGED <<reuse, made, held, fifo, steady, mutex, now, handed>>
  BY DEF RetrieveOne, store
<1> HIDE DEF c
<1>3. conn'[t] = c
  BY <1>2 DEF Inv, TypeInv, Become
<1>4. SteadyOK(t) /\ now \in Nat
  BY ThreadFacts
<1>5. "retrieved" \notin Finding \cup Renewing \cup {"filter", "found"}
  BY DEF Finding, Renewing
<1>6. ConnOK(t)'
  BY <1>1, <1>2, <1>3, <1>4, <1>5 DEF ConnOK, Numbers, IsId
<1>7. SteadyOK(t)'
  BY <1>1, <1>2, <1>3, <1>4, <1>5 DEF SteadyOK
<1> QED
  BY <1>1, <1>2, <1>5, <1>6, <1>7, LookInv

LEMMA RetrieveInv == ASSUME Inv, reuse' = reuse, NEW t \in Threads, Retrieve(t) PROVE Inv'
<1>1. conn[t] \in Conns /\ ConnOK(t) /\ SteadyOK(t) /\ At(t, "retrieved")
  BY ThreadFacts DEF Retrieve
<1>2. ASSUME Removing({conn[t].sid}), Become(t, Idle) PROVE Inv'
  BY <1>2, RemovingShrinks, RemovalInv DEF Retrieve
<1>3. ASSUME Become(t, [conn[t] EXCEPT !.pc = "resuming"]), UNCHANGED store PROVE Inv'
  <2> DEFINE c == [conn[t] EXCEPT !.pc = "resuming"]
  <2>1. /\ c \in Conns /\ c.pc = "resuming" /\ c.found = conn[t].found /\ c.at = conn[t].at
        /\ c.sid = conn[t].sid
    BY <1>1 DEF Conns, PCs
  <2>2. Become(t, c) /\ UNCHANGED <<reuse, made, held, fifo, steady, mutex, now, handed>>
    BY <1>3 DEF Retrieve, store
  <2> HIDE DEF c
  <2>3. conn'[t] = c
    BY <2>2 DEF Inv, TypeInv, Become
  <2>4. "resuming" \notin Finding \cup Renewing \cup {"filter", "found"}
    BY DEF Finding, Renewing
  <2>5. conn[t].pc = "retrieved" /\ conn[t].found = {}
    BY <1>1 DEF At, ConnOK
  <2>6. ConnOK(t)'
    BY <1>1, <2>1, <2>2, <2>3, <2>4, <2>5 DEF ConnOK, Numbers, IsId
  <2>7. SteadyOK(t)'
    BY <1>1, <2>1, <2>2, <2>3, <2>4 DEF SteadyOK
  <2> QED
    BY <2>1, <2>2, <2>4, <2>5, <2>6, <2>7, LookInv
<1> QED
  BY <1>2, <1>3 DEF Retrieve

LEMMA FindBeginInv ==
  ASSUME Inv, reuse' = reuse, NEW t \in Threads, NEW s \in Servers, FindBegin(t, s) PROVE Inv'
<1> DEFINE c == [Idle EXCEPT !.pc = "find", !.at = now, !.server = s]
<1>1. /\ conn[t] \in Conns /\ SteadyOK(t) /\ now \in Nat /\ held \subseteq Nat
      /\ mutex \in Threads \cup {Nobody} /\ steady \in [Threads -> SUBSET Nat]
  BY ThreadFacts
<1>2. /\ c \in Conns /\ c.pc = "find" /\ c.found = {} /\ c.at = now /\ c.server = s
  BY <1>1 DEF Idle, Conns, PCs, Finding
<1>3. Become(t, c) /\ UNCHANGED <<reuse, made, held, fifo, now, handed>>
  BY DEF FindBegin
<1> HIDE DEF c
<1>4. conn'[t] = c
  BY <1>3 DEF Inv, TypeInv, Become
<1>5. "find" \in Finding /\ "find" \notin Renewing \cup {"retrieved", "resuming", "filter", "found"}
  BY DEF Finding, Renewing
<1>6. mutex' \in Threads \cup {Nobody} /\ (mutex' = mutex \/ CanLock(t)) /\ (~reuse => mutex' = t)
  BY <1>1 DEF FindBegin
<1>7. ConnOK(t)'
  BY <1>1, <1>2, <1>3, <1>4, <1>5, <1>6 DEF ConnOK
<1>8. steady' = [steady EXCEPT ![t] = Live(s)] /\ Live(s) \subseteq held
  BY DEF FindBegin, Live
<1>9. /\ steady' \in [Threads -> SUBSET Nat] /\ steady'[t] = Live(s)
      /\ \A u \in Threads : u # t => steady'[u] = steady[u]
  BY <1>1, <1>8
<1>10. \A u \in Threads : steady[u] \subseteq held
  BY DEF Inv, SteadyInv, SteadyOK
<1>11. SteadyOK(t)'
  BY <1>2, <1>3, <1>4, <1>5, <1>8, <1>9 DEF SteadyOK, Live, FindExpired, Pre13
<1> QED
  BY <1>2, <1>3, <1>5, <1>6, <1>7, <1>9, <1>10, <1>11, CalmStep

LEMMA FindSomeInv == ASSUME Inv, reuse' = reuse, NEW t \in Threads, FindSome(t) PROVE Inv'
<1> DEFINE all == {n \in held : made[n].server = conn[t].server}
           where == IF all = {} THEN "found" ELSE "filter"
           c == [conn[t] EXCEPT !.pc = where, !.found = all, !.try = @ + 1]
<1>1. /\ conn[t] \in Conns /\ ConnOK(t) /\ SteadyOK(t) /\ held \subseteq Nat
      /\ held \subseteq Around
  BY ThreadFacts
<1>2. all \subseteq held /\ all \subseteq Numbers
  BY DEF Inv, TypeInv
<1>3. Become(t, c) /\ UNCHANGED <<reuse, made, held, fifo, steady, mutex, now, handed>>
  BY DEF FindSome, store
<1>4. At(t, "find") /\ "find" \in Finding
  BY DEF FindSome, Finding
<1>5. steady[t] \subseteq all
  BY <1>1, <1>4 DEF SteadyOK, At
<1>6. /\ c \in Conns /\ c.pc \in {"filter", "found"} /\ c.found = all /\ c.at = conn[t].at
      /\ c.server = conn[t].server
  <2>1. where \in PCs /\ where \in {"filter", "found"} /\ all \in SUBSET Nat
    BY <1>1, <1>2 DEF PCs, Finding
  <2> HIDE DEF where, all
  <2>2. conn[t].try + 1 \in Nat
    BY <1>1 DEF Conns
  <2> QED
    BY <1>1, <2>1, <2>2 DEF Conns
<1> HIDE DEF c, all
<1>7. conn'[t] = c
  BY <1>3 DEF Inv, TypeInv, Become
<1>8. c.pc \in Finding /\ c.pc \notin Renewing \cup {"retrieved", "resuming"}
  BY <1>6 DEF Finding, Renewing
<1>9. ConnOK(t)'
  <2>1. Numbers' = Numbers
    BY <1>3 DEF Numbers
  <2>2. conn[t].at <= now /\ (~reuse => mutex = t)
    BY <1>1, <1>4 DEF ConnOK, At
  <2> QED
    BY <1>2, <1>3, <1>6, <1>7, <1>8, <2>1, <2>2 DEF ConnOK
<1>10. SteadyOK(t)'
  BY <1>1, <1>3, <1>4, <1>5, <1>6, <1>7 DEF SteadyOK, At, FindExpired, Pre13
<1> QED
  BY <1>1, <1>2, <1>3, <1>6, <1>8, <1>9, <1>10, LookInv

LEMMA FilterDoneInv == ASSUME Inv, reuse' = reuse, NEW t \in Threads, FilterDone(t) PROVE Inv'
<1> DEFINE where == IF conn[t].found = {} /\ conn[t].try < MaxAttempts THEN "find" ELSE "found"
           c == [conn[t] EXCEPT !.pc = where]
<1>1. /\ conn[t] \in Conns /\ ConnOK(t) /\ SteadyOK(t) /\ conn[t].found \subseteq Around
  BY ThreadFacts
<1>2. Become(t, c) /\ UNCHANGED <<reuse, made, held, fifo, steady, mutex, now, handed>>
  BY DEF FilterDone, store
<1>3. At(t, "filter") /\ "filter" \in Finding
  BY DEF FilterDone, Finding
<1>4. where \in {"find", "found"} /\ (conn[t].found # {} => where = "found")
  OBVIOUS
<1> HIDE DEF where
<1>5. /\ c \in Conns /\ c.pc = where /\ c.found = conn[t].found /\ c.at = conn[t].at
      /\ c.server = conn[t].server
  BY <1>1, <1>4 DEF Conns, PCs, Finding
<1> HIDE DEF c
<1>6. conn'[t] = c
  BY <1>2 DEF Inv, TypeInv, Become
<1>7. c.pc \in Finding /\ c.pc \notin Renewing \cup {"retrieved", "resuming"}
  BY <1>4, <1>5 DEF Finding, Renewing
<1>8. ConnOK(t)'
  BY <1>1, <1>2, <1>3, <1>4, <1>5, <1>6, <1>7 DEF ConnOK, At, Numbers
<1>9. SteadyOK(t)'
  BY <1>1, <1>2, <1>3, <1>5, <1>6 DEF SteadyOK, At, FindExpired, Pre13
<1> QED
  BY <1>1, <1>2, <1>5, <1>7, <1>8, <1>9, LookInv

\* An expired session was not live when find() began.
LEMMA FilterOneInv ==
  ASSUME Inv, reuse' = reuse, NEW t \in Threads, NEW n \in Numbers, FilterOne(t, n) PROVE Inv'
<1> DEFINE c == [conn[t] EXCEPT !.found = @ \ {n}]
<1>1. /\ conn[t] \in Conns /\ ConnOK(t) /\ SteadyOK(t) /\ conn[t].found \subseteq Around
      /\ mutex \in Threads \cup {Nobody} /\ steady \in [Threads -> SUBSET Nat]
  BY ThreadFacts
<1>2. Become(t, c) /\ UNCHANGED <<reuse, made, mutex, now, handed>> /\ FindExpired(n, conn[t].at)
  BY DEF FilterOne
<1>3. At(t, "filter") /\ "filter" \in Finding /\ "filter" \notin Renewing \cup {"retrieved", "resuming"}
  BY DEF FilterOne, Finding, Renewing
<1>4. held' \subseteq held /\ fifo' = fifo /\ Observe
  BY RemovingShrinks DEF FilterOne
<1>5. /\ c \in Conns /\ c.pc = "filter" /\ c.found = conn[t].found \ {n} /\ c.at = conn[t].at
      /\ c.server = conn[t].server
  BY <1>1, <1>3 DEF Conns, At
<1> HIDE DEF c
<1>6. conn'[t] = c
  BY <1>2 DEF Inv, TypeInv, Become
<1>7. steady' \in [Threads -> SUBSET Nat] /\ \A u \in Threads : steady'[u] = steady[u] \cap held'
  BY <1>1, <1>4, ObserveFacts
<1>8. n \notin steady[t]
  BY <1>1, <1>2, <1>3 DEF SteadyOK, At
<1>9. ConnOK(t)'
  BY <1>1, <1>2, <1>3, <1>5, <1>6 DEF ConnOK, At, Numbers
<1>10. SteadyOK(t)'
  BY <1>1, <1>2, <1>3, <1>5, <1>6, <1>7, <1>8 DEF SteadyOK, At, FindExpired, Pre13
<1> QED
  BY <1>1, <1>2, <1>3, <1>4, <1>5, <1>7, <1>9, <1>10, CalmStep

LEMMA RenewRemoveInv == ASSUME Inv, reuse' = reuse, NEW t \in Threads, RenewRemove(t) PROVE Inv'
<1> DEFINE c == [conn[t] EXCEPT !.pc = "renew_store"]
<1>1. /\ conn[t] \in Conns /\ ConnOK(t) /\ SteadyOK(t) /\ conn[t].found \subseteq Around
      /\ mutex \in Threads \cup {Nobody} /\ steady \in [Threads -> SUBSET Nat]
  BY ThreadFacts
<1>2. Become(t, c) /\ UNCHANGED <<reuse, made, mutex, now, handed>>
  BY DEF RenewRemove
<1>3. /\ At(t, "renew") /\ {"renew", "renew_store"} \subseteq Renewing
      /\ "renew_store" \notin Finding \cup {"retrieved", "resuming", "filter", "found"}
  BY DEF RenewRemove, Finding, Renewing
<1>4. held' \subseteq held /\ fifo' = fifo /\ Observe
  BY RemovingShrinks DEF RenewRemove
<1>5. /\ c \in Conns /\ c.pc = "renew_store" /\ c.found = conn[t].found /\ c.at = conn[t].at
      /\ c.sid = conn[t].sid
  BY <1>1 DEF Conns, PCs, Renewing
<1> HIDE DEF c
<1>6. conn'[t] = c
  BY <1>2 DEF Inv, TypeInv, Become
<1>7. steady' \in [Threads -> SUBSET Nat] /\ \A u \in Threads : steady'[u] = steady[u] \cap held'
  BY <1>1, <1>4, ObserveFacts
<1>8. ConnOK(t)'
  BY <1>1, <1>2, <1>3, <1>5, <1>6 DEF ConnOK, At, Numbers, IsId
<1>9. SteadyOK(t)'
  BY <1>1, <1>3, <1>5, <1>6, <1>7 DEF SteadyOK
<1> QED
  BY <1>1, <1>2, <1>3, <1>4, <1>5, <1>7, <1>8, <1>9, CalmStep DEF At

-----------------------------------------------------------------------------

\* store() by a thread that stays where it is or ends its work.
LEMMA StoreStep ==
  ASSUME Inv, NEW t \in Threads, NEW c \in {conn[t], Idle}, Become(t, c),
         NEW n \in Nat, n \in Numbers', Store(n), MadeKept, made' \in Seq(Sessions),
         UNCHANGED <<reuse, mutex, now, handed>>
  PROVE  /\ TypeInv' /\ ConnInv' /\ QueueCoversSessions' /\ SteadyInv'
         /\ Around' \subseteq Around \cup {n}
         /\ Renewers' = Renewers \ {u \in {t} : c = Idle}
         /\ \A u \in Renewers' : conn'[u] = conn[u] /\ conn[u].sid \in Numbers /\ ~IsId(conn[u].sid)
<1>1. /\ conn[t] \in Conns /\ ConnOK(t) /\ SteadyOK(t) /\ conn[t].found \subseteq Around
      /\ held \subseteq Around /\ now \in Nat /\ steady \in [Threads -> SUBSET Nat]
  BY ThreadFacts
<1>2. TypeInv /\ ConnInv /\ QueueCoversSessions
  BY DEF Inv
<1>3. held' \subseteq held \cup {n} /\ fifo' \in Seq(Nat) /\ Observe /\ QueueCoversSessions'
  BY <1>2, StoreKeeps
<1>4. /\ conn' \in [Threads -> Conns] /\ conn'[t] = c
      /\ \A u \in Threads : u # t => conn'[u] = conn[u]
  BY <1>1, <1>2, IdleConn DEF TypeInv, Become
<1>5. steady' \in [Threads -> SUBSET Nat] /\ \A u \in Threads : steady'[u] = steady[u] \cap held'
  BY <1>1, <1>3, ObserveFacts
<1>6. TypeInv'
  <2>1. held' \subseteq Numbers'
    BY <1>2, <1>3 DEF TypeInv, MadeKept
  <2> QED
    BY <1>2, <1>3, <1>4, <1>5, <2>1 DEF TypeInv
<1>7. ConnOK(t)'
  <2>1. CASE c = conn[t]
    <3>1. PICK m : m = conn[t].sid
      OBVIOUS
    <3>2. m \in Numbers => m \in Numbers' /\ (IsId(m)' <=> IsId(m))
      BY KindKept
    <3>3. conn'[t] = conn[t] /\ conn[t].found \subseteq Numbers'
      BY <1>1, <1>4, <2>1 DEF ConnOK, MadeKept
    <3> QED
      BY <1>1, <3>1, <3>2, <3>3 DEF ConnOK, IsId
  <2>2. CASE c = Idle
    BY <1>1, <1>4, <2>2, IdleConn DEF ConnOK
  <2> QED
    BY <2>1, <2>2
<1>8. SteadyOK(t)'
  <2>1. CASE c = conn[t]
    <3>1. conn'[t] = conn[t] /\ steady'[t] \subseteq steady[t] /\ steady'[t] \subseteq held'
      BY <1>4, <1>5, <2>1
    <3>2. \A m \in steady[t] : made'[m] = made[m]
      BY <1>1, <1>2 DEF SteadyOK, TypeInv, MadeKept
    <3> QED
      BY <1>1, <3>1, <3>2 DEF SteadyOK, FindExpired, Pre13
  <2>2. CASE c = Idle
    BY <1>4, <1>5, <2>2, IdleConn DEF SteadyOK
  <2> QED
    BY <2>1, <2>2
<1>9. ConnInv'
  BY <1>4, <1>7, ConnStep
<1>10. SteadyInv'
  BY <1>4, <1>5, <1>8, SteadyStep
<1>11. \A u \in Threads : conn'[u].found \subseteq Around
  <2>1. \A u \in Threads : conn[u].found \subseteq Around
    BY ThreadFacts
  <2> QED
    BY <1>4, <2>1, IdleConn
<1>12. Around' \subseteq Around \cup {n}
  BY <1>1, <1>3, <1>11 DEF Around
<1>13. Renewers' = Renewers \ {u \in {t} : c = Idle}
  <2>1. CASE c = conn[t] /\ c # Idle
    BY <1>4, <2>1 DEF Renewers
  <2>2. CASE c = Idle
    BY <1>4, <2>2, IdleConn DEF Renewers
  <2> QED
    BY <2>1, <2>2
<1>14. \A u \in Renewers' : conn'[u] = conn[u] /\ conn[u].sid \in Numbers /\ ~IsId(conn[u].sid)
  BY <1>2, <1>4, <1>13, IdleConn DEF Renewers, ConnInv, ConnOK
<1> QED
  BY <1>3, <1>6, <1>9, <1>10, <1>12, <1>13, <1>14

\* What is stored is new, or may be given out more than once.
LEMMA StoreHand ==
  ASSUME Inv, MadeKept, reuse' = reuse, handed' = handed,
         NEW n \in 1..MaxSessions, Numbers' = Numbers \cup {n}, Around' \subseteq Around \cup {n},
         n \in Numbers => ~OneTime(n)
  PROVE  HandInv'
<1>1. HandInv
  BY DEF Inv
<1>2. \A m \in 1..MaxSessions : m \notin Numbers' \/ reuse' => handed'[m] = 0
  BY <1>1 DEF HandInv
<1>3. ASSUME ~reuse, NEW m \in Numbers', OneTime(m)'
      PROVE  handed'[m] <= 1 /\ (handed'[m] > 0 => m \notin Around')
  <2>1. CASE m \in Numbers
    <3>1. OneTime(m) /\ m # n
      BY <1>3, <2>1, KindKept
    <3> QED
      BY <1>1, <1>3, <2>1, <3>1 DEF HandInv
  <2>2. CASE m \notin Numbers
    <3>1. m = n /\ handed[m] = 0
      BY <1>1, <2>2 DEF HandInv
    <3> QED
      BY <3>1
  <2> QED
    BY <2>1, <2>2
<1> QED
  BY <1>2, <1>3 DEF HandInv

\* ... and its ticket, if it has one, is nobody else's.
LEMMA StoreTicket ==
  ASSUME Inv, MadeKept, reuse' = reuse, NEW n,
         Numbers' = Numbers \cup {n}, Around' \subseteq Around \cup {n},
         Renewers' \subseteq Renewers,
         \A u \in Renewers' : conn'[u] = conn[u] /\ conn[u].sid \in Numbers,
         made'[n].ticket <= n,
         ~reuse /\ ~IsId(n)' =>
           /\ \A m \in Around : m # n /\ ~IsId(m) => made[m].ticket # made'[n].ticket
           /\ \A u \in Renewers' : made[conn[u].sid].ticket # made'[n].ticket
  PROVE  TicketInv'
<1>1. TicketInv
  BY DEF Inv
<1>2. \A m \in Numbers : made'[m] = made[m]
  BY DEF MadeKept
<1>3. \A m \in Numbers' : made'[m].ticket <= m
  BY <1>1, <1>2 DEF TicketInv
<1>4. \A m \in Around : m \in Numbers
  BY DEF Around
<1>5. ASSUME ~reuse, NEW l \in Around', NEW m \in Around', SameTicket(l, m)' PROVE l = m
  <2>1. CASE l # n /\ m # n
    <3>1. l \in Around /\ m \in Around /\ SameTicket(l, m)
      BY <1>2, <1>4, <1>5, <2>1 DEF SameTicket, IsId
    <3> QED
      BY <1>1, <1>5, <3>1 DEF TicketInv
  <2>2. CASE l = n /\ m # n
    BY <1>2, <1>4, <1>5, <2>2 DEF SameTicket, IsId
  <2>3. CASE l # n /\ m = n
    BY <1>2, <1>4, <1>5, <2>3 DEF SameTicket, IsId
  <2> QED
    BY <2>1, <2>2, <2>3
<1>6. ASSUME ~reuse, NEW t \in Renewers', NEW m \in Around' PROVE ~SameTicket(m, conn[t].sid)'
  <2>1. t \in Renewers /\ conn'[t].sid = conn[t].sid /\ made'[conn[t].sid] = made[conn[t].sid]
    BY <1>2
  <2>2. CASE m # n
    <3>1. m \in Around /\ made'[m] = made[m] /\ ~SameTicket(m, conn[t].sid)
      BY <1>1, <1>2, <1>4, <1>6, <2>1, <2>2 DEF TicketInv
    <3> QED
      BY <2>1, <3>1 DEF SameTicket, IsId
  <2>3. CASE m = n
    BY <1>6, <2>1, <2>3 DEF SameTicket, IsId
  <2> QED
    BY <2>2, <2>3
<1>7. ASSUME ~reuse, NEW t \in Renewers', NEW u \in Renewers',
             SameTicket(conn[t].sid, conn[u].sid)'
      PROVE  t = u
  <2>1. /\ t \in Renewers /\ conn'[t].sid = conn[t].sid /\ made'[conn[t].sid] = made[conn[t].sid]
        /\ u \in Renewers /\ conn'[u].sid = conn[u].sid /\ made'[conn[u].sid] = made[conn[u].sid]
    BY <1>2
  <2>2. SameTicket(conn[t].sid, conn[u].sid)
    BY <1>7, <2>1 DEF SameTicket, IsId
  <2> QED
    BY <1>1, <1>7, <2>1, <2>2 DEF TicketInv
<1> QED
  BY <1>3, <1>5, <1>6, <1>7 DEF TicketInv

\* The next session to be made has a number no ticket has yet.
LEMMA NextNumber ==
  ASSUME Inv, NEW x \in Sessions, made' = Append(made, x), RoomInv'
  PROVE  LET n == Len(made) + 1
         IN /\ n \in 1..MaxSessions /\ n \notin Numbers /\ n \notin Around
            /\ \A m \in Numbers : made[m].ticket < n
<1>1. /\ Len(made) \in Nat /\ Len(made') = Len(made) + 1 /\ Len(made) + 1 \notin Numbers
  BY Making DEF Inv
<1>2. \A m \in Numbers : m \in 1..Len(made) /\ made[m] \in Sessions
  BY DEF Inv, TypeInv, Numbers
<1>3. \A m \in Numbers : made[m].ticket < Len(made) + 1
  BY <1>1, <1>2 DEF Inv, TicketInv, Sessions
<1>5. Len(made) + 1 <= MaxSessions
  BY <1>1 DEF RoomInv
<1> QED
  BY <1>1, <1>3, <1>5, SessionManagerAssumption DEF Around

LEMMA StoreNewInv ==
  ASSUME Inv, reuse' = reuse, NEW t \in Threads, NEW kind \in {"id", "ticket"}, NEW v13 \in BOOLEAN,
         NEW hint \in Hints \cup {Forever}, NEW s \in Servers, StoreNew(t, kind, v13, hint, s)
  PROVE  Inv'
<1> DEFINE n == Len(made) + 1
           x == NewSession(kind, n, v13, hint, s)
<1>1. TypeInv /\ now \in Nat /\ Len(made) \in Nat /\ hint \in Nat
  BY SessionManagerAssumption DEF Inv, TypeInv, Forever
<1>2. x \in Sessions /\ x.ticket = n
  BY <1>1 DEF NewSession, Sessions
<1>3. /\ made' = Append(made, x) /\ Store(n) /\ conn' = conn /\ RoomToMake
      /\ UNCHANGED <<reuse, mutex, now, handed>>
  BY DEF StoreNew
<1> HIDE DEF x
<1>4. /\ made' \in Seq(Sessions) /\ Len(made') = Len(made) + 1 /\ n \in Nat
      /\ Numbers' = Numbers \cup {n} /\ made'[n] = x /\ MadeKept
  BY <1>1, <1>2, <1>3, Making
<1>5. Become(t, conn[t])
  BY <1>3, ThreadFacts
<1>6. RoomInv'
  BY <1>1, <1>3, <1>4, SessionManagerAssumption DEF RoomInv, RoomToMake
<1>7. /\ n \in 1..MaxSessions /\ n \notin Numbers /\ n \notin Around
      /\ \A m \in Numbers : made[m].ticket < n
  BY <1>2, <1>3, <1>6, NextNumber
<1> HIDE DEF n
<1>8. /\ TypeInv' /\ ConnInv' /\ QueueCoversSessions' /\ SteadyInv'
      /\ Around' \subseteq Around \cup {n} /\ Renewers' \subseteq Renewers
      /\ \A u \in Renewers' : conn'[u] = conn[u] /\ conn[u].sid \in Numbers
  BY <1>3, <1>4, <1>5, StoreStep
<1>9. HandInv'
  BY <1>3, <1>4, <1>7, <1>8, StoreHand
<1>10. TicketInv'
  <2>1. made'[n].ticket = n /\ n <= n
    BY <1>2, <1>4
  <2>2. \A m \in Around : made[m].ticket # n
    <3>1. \A m \in Numbers : made[m] \in Sessions
      BY <1>1 DEF TypeInv, Numbers
    <3>2. \A m \in Numbers : made[m].ticket \in Nat /\ made[m].ticket # n
      BY <1>4, <1>7, <3>1 DEF Sessions
    <3> QED
      BY <3>2 DEF Around
  <2>3. \A u \in Renewers' : made[conn[u].sid].ticket # n
    BY <1>7, <1>8, <1>4
  <2> QED
    BY <1>3, <1>4, <1>8, <2>1, <2>2, <2>3, StoreTicket
<1> QED
  BY <1>6, <1>8, <1>9, <1>10 DEF Inv

LEMMA ResumeInv == ASSUME Inv, reuse' = reuse, NEW t \in Threads, Resume(t) PROVE Inv'
<1>1. /\ conn[t].sid \in Numbers /\ IsId(conn[t].sid) /\ Pre13(conn[t].sid)
      /\ conn[t].pc = "resuming"
  BY ThreadFacts DEF Resume, ConnOK, At
<1>2. UNCHANGED <<reuse, made, mutex, now, handed>> /\ Become(t, Idle)
  BY DEF Resume
<1>3. ASSUME Removing({conn[t].sid}) PROVE Inv'
  BY <1>2, <1>3, RemovingShrinks, RemovalInv
<1>4. ASSUME Store(conn[t].sid) PROVE Inv'
  <2>1. PICK n : n = conn[t].sid
    OBVIOUS
  <2>2. n \in Nat /\ Store(n) /\ n \in Numbers /\ IsId(n) /\ Pre13(n)
    BY <1>1, <1>4, <2>1 DEF Numbers
  <2>3. Numbers' = Numbers /\ MadeKept /\ made' \in Seq(Sessions)
    BY <1>2 DEF Numbers, MadeKept, Inv, TypeInv
  <2>4. /\ TypeInv' /\ ConnInv' /\ QueueCoversSessions' /\ SteadyInv'
        /\ Around' \subseteq Around \cup {n} /\ Renewers' \subseteq Renewers
        /\ \A u \in Renewers' : conn'[u] = conn[u] /\ conn[u].sid \in Numbers
    BY <1>2, <2>2, <2>3, StoreStep
  <2>5. RoomInv'
    BY <1>2 DEF Inv, RoomInv
  <2>6. n \in 1..MaxSessions
    <3>1. Len(made) \in Nat
      BY DEF Inv, TypeInv
    <3> QED
      BY <2>2, <3>1, SessionManagerAssumption DEF Numbers, Inv, RoomInv
  <2>7. HandInv'
    <3>1. ~OneTime(n) /\ Numbers' = Numbers \cup {n}
      BY <2>2, <2>3 DEF OneTime
    <3> QED
      BY <1>2, <2>3, <2>4, <2>6, <3>1, StoreHand
  <2>8. TicketInv'
    <3>1. IsId(n)' /\ made'[n].ticket <= n /\ Numbers' = Numbers \cup {n}
      BY <1>2, <2>2, <2>3 DEF IsId, Inv, TicketInv
    <3> QED
      BY <1>2, <2>3, <2>4, <3>1, StoreTicket
  <2> QED
    BY <2>4, <2>5, <2>7, <2>8 DEF Inv
<1> QED
  BY <1>3, <1>4 DEF Resume

LEMMA RenewStoreInv ==
  ASSUME Inv, reuse' = reuse, NEW t \in Threads, NEW same \in BOOLEAN,
         NEW hint \in Hints \cup {Forever}, RenewStore(t, same, hint)
  PROVE  Inv'
<1> DEFINE n == Len(made) + 1
           old == made[conn[t].sid]
           ticket == IF same THEN old.ticket ELSE n
           x == NewSession("ticket", ticket, FALSE, hint, old.server)
<1>1. /\ TypeInv /\ now \in Nat /\ Len(made) \in Nat /\ hint \in Nat
      /\ conn[t].pc \in Renewing /\ conn[t].sid \in Numbers /\ ~IsId(conn[t].sid)
  <2>1. conn[t].pc \in Renewing /\ ConnOK(t)
    BY ThreadFacts DEF RenewStore, At, Renewing
  <2> QED
    BY <2>1, SessionManagerAssumption DEF Inv, TypeInv, ConnOK, Forever
<1>2. old \in Sessions
  BY <1>1 DEF TypeInv, Numbers
<1>3. /\ made' = Append(made, x) /\ Store(n) /\ Become(t, Idle) /\ RoomToMake
      /\ UNCHANGED <<reuse, mutex, now, handed>>
  BY DEF RenewStore
<1>4. ticket \in Nat /\ ticket <= n
  <2>1. old.ticket \in Nat /\ old.ticket <= conn[t].sid /\ conn[t].sid \in 1..Len(made)
    BY <1>1, <1>2 DEF Inv, TicketInv, Sessions, Numbers
  <2> HIDE DEF old
  <2> QED
    BY <1>1, <2>1
<1> HIDE DEF ticket
<1>5. x \in Sessions /\ x.ticket = ticket
  BY <1>1, <1>2, <1>4 DEF NewSession, Sessions
<1> HIDE DEF x
<1>6. /\ made' \in Seq(Sessions) /\ Len(made') = Len(made) + 1 /\ n \in Nat
      /\ Numbers' = Numbers \cup {n} /\ made'[n] = x /\ MadeKept
  BY <1>1, <1>3, <1>5, Making
<1>7. /\ TypeInv' /\ ConnInv' /\ QueueCoversSessions' /\ SteadyInv'
      /\ Around' \subseteq Around \cup {n} /\ Renewers' = Renewers \ {t}
      /\ \A u \in Renewers' : conn'[u] = conn[u] /\ conn[u].sid \in Numbers /\ ~IsId(conn[u].sid)
  <2>1. n \in Numbers'
    BY <1>6
  <2> HIDE DEF n
  <2>2. {u \in {t} : Idle = Idle} = {t}
    OBVIOUS
  <2> QED
    BY <1>3, <1>6, <2>1, <2>2, StoreStep
<1>8. RoomInv'
  BY <1>1, <1>3, <1>6, SessionManagerAssumption DEF RoomInv, RoomToMake
<1>9. /\ n \in 1..MaxSessions /\ n \notin Numbers /\ n \notin Around
      /\ \A m \in Numbers : made[m].ticket < n
  BY <1>3, <1>5, <1>8, NextNumber
<1>10. HandInv'
  <2> HIDE DEF n
  <2> QED
    BY <1>3, <1>6, <1>7, <1>9, StoreHand
<1>11. TicketInv'
  <2>1. made'[n].ticket = ticket
    BY <1>5, <1>6
  <2>2. ASSUME ~reuse, NEW m \in Around, ~IsId(m) PROVE made[m].ticket # ticket
    <3>1. CASE same
      <4>1. ~SameTicket(m, conn[t].sid)
        BY <1>1, <2>2 DEF Inv, TicketInv, Renewers
      <4> QED
        BY <1>1, <2>2, <3>1, <4>1 DEF SameTicket, ticket
    <3>2. CASE ~same
      <4>1. ticket = n /\ m \in Numbers /\ made[m] \in Sessions
        BY <3>2, <1>1 DEF ticket, Around, TypeInv, Numbers
      <4> QED
        BY <1>6, <1>9, <4>1 DEF Sessions
    <3> QED
      BY <3>1, <3>2
  <2>3. ASSUME ~reuse, NEW u \in Renewers' PROVE made[conn[u].sid].ticket # ticket
    <3>1. u \in Renewers /\ u # t /\ conn[u].sid \in Numbers /\ ~IsId(conn[u].sid)
      BY <1>7
    <3>2. CASE same
      <4>1. ~SameTicket(conn[u].sid, conn[t].sid)
        BY <1>1, <2>3, <3>1 DEF Inv, TicketInv, Renewers
      <4> QED
        BY <1>1, <3>1, <3>2, <4>1 DEF SameTicket, ticket
    <3>3. CASE ~same
      <4>1. ticket = n /\ made[conn[u].sid] \in Sessions
        BY <3>1, <3>3, <1>1 DEF ticket, TypeInv, Numbers
      <4> QED
        BY <1>6, <1>9, <3>1, <4>1 DEF Sessions
    <3> QED
      BY <3>2, <3>3
  <2> HIDE DEF n
  <2>4. Renewers' \subseteq Renewers /\ made'[n].ticket <= n
    BY <1>4, <1>7, <2>1
  <2>5. \A u \in Renewers' : conn'[u] = conn[u] /\ conn[u].sid \in Numbers
    BY <1>7
  <2> QED
    BY <1>3, <1>6, <1>7, <2>1, <2>2, <2>3, <2>4, <2>5, StoreTicket
<1> QED
  BY <1>7, <1>8, <1>10, <1>11 DEF Inv

-----------------------------------------------------------------------------

\* remove() takes at least the session it is asked to.
LEMMA Removed ==
  ASSUME NEW ns, ns \subseteq Numbers
  PROVE  /\ Without(ns) \subseteq held
         /\ \A n \in ns : n \notin Without(ns)
         /\ \A n \in ns, m \in Without(ns) : m \in Numbers => ~SameTicket(m, n)
<1>1. \A n \in ns : n \in Matching(n)
  BY DEF Matching
<1>2. \A n \in ns, m \in Numbers : SameTicket(m, n) => m \in Matching(n)
  BY DEF Matching, SameTicket
<1> QED
  BY <1>1, <1>2 DEF Without

\* Without reuse nobody else is in find(): what it gives out is in nobody
\* else's hands, and it removes from the store what must not be reused.
LEMMA FindEndInv == ASSUME Inv, reuse' = reuse, NEW t \in Threads, FindEnd(t) PROVE Inv'
<1>1. /\ conn[t] \in Conns /\ ConnOK(t) /\ conn[t].pc = "found" /\ conn[t].found \subseteq Around
      /\ conn[t].found \subseteq Numbers
      /\ mutex \in Threads \cup {Nobody} /\ now \in Nat /\ steady \in [Threads -> SUBSET Nat]
  BY ThreadFacts DEF FindEnd, At, ConnOK
<1>2. PICK some \in SUBSET conn[t].found :
        /\ handed' = [n \in DOMAIN handed |->
                       IF n \in some /\ ~reuse /\ handed[n] < 2 THEN handed[n] + 1 ELSE handed[n]]
        /\ held' = IF reuse THEN held ELSE Without(Consumed(some))
        /\ steady' = [u \in Threads |-> IF u = t THEN {} ELSE steady[u] \cap held']
        /\ \/ Become(t, Idle)
           \/ \E n \in some : /\ Pre13(n) /\ ~IsId(n)
                              /\ Become(t, [Idle EXCEPT !.pc = "renew", !.sid = n])
  BY DEF FindEnd
<1>3. UNCHANGED <<reuse, made, fifo, now>> /\ Unlock(t)
  BY DEF FindEnd
<1>4. Numbers' = Numbers /\ MadeKept /\ Numbers \subseteq Nat
  BY <1>3 DEF Numbers, MadeKept
<1>5. some \subseteq Numbers /\ Consumed(some) = {n \in some : OneTime(n)}
  BY <1>1 DEF Consumed, OneTime
<1>6. /\ held' \subseteq held
      /\ ~reuse => \A n \in some : OneTime(n) => n \notin held'
      /\ ~reuse => \A n \in some, m \in held' : OneTime(n) /\ m \in Numbers => ~SameTicket(m, n)
  BY <1>2, <1>5, Removed
<1>7. \E c \in Conns :
        /\ Become(t, c) /\ c.found = {} /\ c.at = 0
        /\ \/ c.pc = "idle"
           \/ c.pc = "renew" /\ c.sid \in some /\ ~IsId(c.sid)
  <2>1. CASE Become(t, Idle)
    BY <2>1, IdleConn
  <2>2. ASSUME NEW n \in some, ~IsId(n),
               Become(t, [Idle EXCEPT !.pc = "renew", !.sid = n])
        PROVE  \E c \in Conns :
                 /\ Become(t, c) /\ c.found = {} /\ c.at = 0
                 /\ c.pc = "renew" /\ c.sid \in some /\ ~IsId(c.sid)
    <3> DEFINE c == [Idle EXCEPT !.pc = "renew", !.sid = n]
    <3>1. c \in Conns /\ c.found = {} /\ c.at = 0 /\ c.pc = "renew" /\ c.sid = n
      BY <1>4, <1>5 DEF Idle, Conns, PCs, Renewing
    <3>2. Become(t, c)
      BY <2>2
    <3> HIDE DEF c
    <3> QED
      BY <2>2, <3>1, <3>2
  <2> QED
    BY <1>2, <2>1, <2>2
<1>8. PICK c \in Conns :
        /\ Become(t, c) /\ c.found = {} /\ c.at = 0
        /\ \/ c.pc = "idle"
           \/ c.pc = "renew" /\ c.sid \in some /\ ~IsId(c.sid)
  BY <1>7
<1>9. /\ conn' \in [Threads -> Conns] /\ conn'[t] = c
      /\ \A u \in Threads : u # t => conn'[u] = conn[u]
  BY <1>8 DEF Inv, TypeInv, Become
<1>10. mutex' \in Threads \cup {Nobody} /\ (mutex' = mutex \/ CanLock(t))
  BY <1>1, <1>3 DEF Unlock, CanLock
<1>11. /\ c.pc \notin Finding \cup {"filter", "found", "retrieved", "resuming"}
       /\ c.pc \in Renewing <=> c.pc = "renew"
  BY <1>8 DEF Finding, Renewing
<1>12. TypeInv'
  <2>1. steady' \in [Threads -> SUBSET Nat]
    BY <1>1, <1>2
  <2>2. handed' \in [1..MaxSessions -> Nat]
    <3>1. handed \in [1..MaxSessions -> Nat]
      BY DEF Inv, TypeInv
    <3>2. DOMAIN handed = 1..MaxSessions /\ \A n \in 1..MaxSessions : handed[n] \in Nat
      BY <3>1
    <3>3. handed' = [n \in 1..MaxSessions |->
                      IF n \in some /\ ~reuse /\ handed[n] < 2 THEN handed[n] + 1 ELSE handed[n]]
      BY <1>2, <3>2
    <3> QED
      BY <3>2, <3>3
  <2> QED
    BY <1>3, <1>4, <1>6, <1>9, <1>10, <2>1, <2>2 DEF Inv, TypeInv
<1>13. ConnInv'
  <2>1. ConnOK(t)'
    <3>1. c.pc \in Renewing => c.sid \in Numbers /\ ~IsId(c.sid)'
      BY <1>3, <1>5, <1>8, <1>11 DEF IsId
    <3> QED
      BY <1>1, <1>3, <1>4, <1>8, <1>9, <1>11, <3>1 DEF ConnOK, IsId
  <2> QED
    BY <1>3, <1>4, <1>9, <1>10, <2>1, ConnStep
<1>14. SteadyInv'
  <2>1. steady'[t] = {} /\ \A u \in Threads : u # t => steady'[u] = steady[u] \cap held'
    BY <1>2
  <2>2. SteadyOK(t)'
    BY <2>1 DEF SteadyOK
  <2> QED
    BY <1>4, <1>9, <2>1, <2>2, SteadyStep
<1>15. QueueCoversSessions'
  BY <1>3, <1>6, ShrinkKeeps DEF Inv
<1>16. RoomInv'
  BY <1>3 DEF Inv, RoomInv
<1>17. ~reuse => \A u \in Threads : conn'[u].found = {}
  <2>1. ~reuse => mutex = t
    BY <1>1 DEF ConnOK, Finding
  <2>2. \A u \in Threads : u # t /\ ~reuse => conn[u].found = {}
    BY <2>1 DEF Inv, ConnInv, ConnOK, Finding
  <2> QED
    BY <1>8, <1>9, <2>2
<1>18. ~reuse => Around' \subseteq held' /\ Around' \subseteq Around
  BY <1>4, <1>6, <1>17 DEF Around
<1>19. HandInv'
  <2>1. HandInv /\ handed \in [1..MaxSessions -> Nat]
    BY DEF Inv, TypeInv
  <2>2. CASE reuse
    <3>1. handed' = handed
      BY <1>2, <2>1, <2>2
    <3> QED
      BY <1>3, <1>4, <2>1, <2>2, <3>1 DEF HandInv
  <2>3. CASE ~reuse
    <3>1. \A n \in 1..MaxSessions :
            handed'[n] = IF n \in some /\ handed[n] < 2 THEN handed[n] + 1 ELSE handed[n]
      BY <1>2, <2>1, <2>3
    <3>2. \A n \in 1..MaxSessions : n \notin Numbers => handed'[n] = 0
      BY <1>5, <2>1, <3>1 DEF HandInv
    <3>3. ASSUME NEW n \in Numbers, OneTime(n)
          PROVE  handed'[n] <= 1 /\ (handed'[n] > 0 => n \notin Around')
      <4>1. n \in 1..MaxSessions
        <5>1. Len(made) \in Nat /\ Len(made) <= MaxSessions
          BY DEF Inv, TypeInv, RoomInv
        <5> QED
          BY <5>1, SessionManagerAssumption DEF Numbers
      <4>2. handed[n] \in Nat
        BY <2>1, <4>1
      <4>3. CASE n \in some
        <5>1. handed[n] = 0
          BY <1>1, <2>1, <2>3, <3>3, <4>2, <4>3 DEF HandInv
        <5>2. n \notin Around'
          BY <1>6, <1>18, <2>3, <3>3, <4>3
        <5> QED
          BY <3>1, <4>1, <5>1, <5>2
      <4>4. CASE n \notin some
        BY <1>18, <2>1, <2>3, <3>1, <3>3, <4>1, <4>4 DEF HandInv
      <4> QED
        BY <4>3, <4>4
    <3>4. \A n \in Numbers : OneTime(n)' <=> OneTime(n)
      BY <1>4, KindKept
    <3> QED
      BY <1>3, <1>4, <2>3, <3>2, <3>3, <3>4 DEF HandInv
  <2> QED
    BY <2>2, <2>3
<1>20. TicketInv'
  <2>1. TicketInv
    BY DEF Inv
  <2>2. \A n \in Numbers' : made'[n].ticket <= n
    BY <1>3, <1>4, <2>1 DEF TicketInv
  <2>3. \A u \in Renewers' : u # t => u \in Renewers /\ conn'[u] = conn[u]
    BY <1>9 DEF Renewers
  <2>4. t \in Renewers' => /\ conn'[t].sid \in some /\ conn'[t].sid \in Around
                           /\ conn'[t].sid \in Numbers
                           /\ ~IsId(conn'[t].sid) /\ OneTime(conn'[t].sid)
    BY <1>1, <1>5, <1>8, <1>9, <1>11 DEF Renewers, OneTime
  <2>5. \A m \in Around' : m \in Numbers
    BY <1>4 DEF Around
  <2>6. ASSUME ~reuse, NEW l \in Around', NEW m \in Around', SameTicket(l, m)' PROVE l = m
    BY <1>3, <1>18, <2>1, <2>6 DEF TicketInv, SameTicket, IsId
  <2>7. ASSUME ~reuse, NEW u \in Renewers', NEW m \in Around' PROVE ~SameTicket(m, conn[u].sid)'
    <3>1. CASE u # t
      <4>1. ~SameTicket(m, conn[u].sid)
        BY <1>18, <2>1, <2>3, <2>7, <3>1 DEF TicketInv
      <4> QED
        BY <1>3, <2>3, <3>1, <4>1 DEF SameTicket, IsId
    <3>2. CASE u = t
      <4>1. ~SameTicket(m, conn'[t].sid)
        BY <1>6, <1>18, <2>4, <2>5, <2>7, <3>2
      <4> QED
        BY <1>3, <3>2, <4>1 DEF SameTicket, IsId
    <3> QED
      BY <3>1, <3>2
  <2>8. ASSUME ~reuse, NEW u \in Renewers', NEW v \in Renewers',
               SameTicket(conn[u].sid, conn[v].sid)'
        PROVE  u = v
    <3>1. SameTicket(conn'[u].sid, conn'[v].sid)
      BY <1>3, <2>8 DEF SameTicket, IsId
    <3>2. SameTicket(conn'[v].sid, conn'[u].sid)
      BY <3>1 DEF SameTicket
    <3>3. CASE u # t /\ v # t
      BY <2>1, <2>3, <2>8, <3>1, <3>3 DEF TicketInv
    <3>4. CASE u = t /\ v # t
      BY <2>1, <2>3, <2>4, <2>8, <3>1, <3>4 DEF TicketInv
    <3>5. CASE u # t /\ v = t
      BY <2>1, <2>3, <2>4, <2>8, <3>2, <3>5 DEF TicketInv
    <3> QED
      BY <3>3, <3>4, <3>5
  <2> QED
    BY <1>3, <2>2, <2>6, <2>7, <2>8 DEF TicketInv
<1> QED
  BY <1>12, <1>13, <1>14, <1>15, <1>16, <1>19, <1>20 DEF Inv

-----------------------------------------------------------------------------

LEMMA InitInv == Init => Inv
<1> SUFFICES ASSUME Init PROVE Inv
  OBVIOUS
<1>1. made = <<>> /\ Len(made) = 0 /\ Numbers = {} /\ held = {} /\ fifo = <<>>
  BY DEF Init, Numbers
<1>2. \A t \in Threads : conn[t] = Idle /\ steady[t] = {}
  BY DEF Init
<1>3. TypeInv
  <2>1. made \in Seq(Sessions) /\ fifo \in Seq(Nat) /\ held \subseteq Numbers
    BY <1>1
  <2>2. conn \in [Threads -> Conns] /\ steady \in [Threads -> SUBSET Nat]
    BY IdleConn DEF Init
  <2>3. handed \in [1..MaxSessions -> Nat] /\ now \in Nat /\ mutex \in Threads \cup {Nobody}
    BY DEF Init
  <2> QED
    BY <2>1, <2>2, <2>3 DEF TypeInv
<1>4. ConnInv
  BY <1>2, IdleConn DEF Init, ConnInv, ConnOK
<1>5. Renewers = {} /\ Around = {}
  BY <1>1, <1>2, IdleConn DEF Renewers, Around
<1>6. RoomInv
  BY <1>1, SessionManagerAssumption DEF RoomInv
<1>7. QueueCoversSessions
  BY <1>1, FS_EmptySet, SessionManagerAssumption DEF QueueCoversSessions
<1>8. SteadyInv
  BY <1>2 DEF SteadyInv, SteadyOK
<1>9. HandInv /\ TicketInv
  BY <1>1, <1>5 DEF Init, HandInv, TicketInv
<1> QED
  BY <1>3, <1>4, <1>6, <1>7, <1>8, <1>9 DEF Inv

\* Time passes, or nothing happens.
LEMMA TickInv ==
  ASSUME Inv, now' \in Nat, now <= now',
         UNCHANGED <<reuse, made, held, fifo, steady, mutex, conn, handed>>
  PROVE  Inv'
<1>1. TypeInv'
  BY DEF Inv, TypeInv, Numbers
<1>2. ConnInv'
  <2>1. \A t \in Threads : ConnOK(t) /\ conn[t] \in Conns /\ now \in Nat
    BY DEF Inv, TypeInv, ConnInv
  <2>2. \A t \in Threads : conn[t].at <= now'
    BY <2>1 DEF ConnOK, Conns
  <2> QED
    BY <2>1, <2>2 DEF ConnInv, ConnOK, Numbers, IsId
<1>3. RoomInv' /\ QueueCoversSessions'
  BY DEF Inv, RoomInv, QueueCoversSessions
<1>4. SteadyInv'
  BY DEF Inv, SteadyInv, SteadyOK, FindExpired, Pre13
<1>5. HandInv' /\ TicketInv'
  <2>1. \A u \in Threads : conn[u].found \subseteq Around
    BY ThreadFacts
  <2> QED
    BY <2>1, CalmInv
<1> QED
  BY <1>1, <1>2, <1>3, <1>4, <1>5 DEF Inv

LEMMA NextInv == Inv /\ [Next]_vars => Inv'
<1> SUFFICES ASSUME Inv, [Next]_vars PROVE Inv'
  OBVIOUS
<1>1. now \in Nat
  BY DEF Inv, TypeInv
<1>2. CASE UNCHANGED vars
  BY <1>1, <1>2, TickInv DEF vars, store
<1>3. CASE Next
  <2>1. reuse' = reuse
    BY <1>3 DEF Next
  <2>2. ASSUME Tick PROVE Inv'
    <3>1. now' \in Nat /\ now <= now'
      BY <1>1, <2>2 DEF Tick
    <3> QED
      BY <2>1, <2>2, <3>1, TickInv DEF Tick, store
  <2>3. ASSUME NEW t \in Threads, NEW n \in Numbers, RemoveSession(t, n) PROVE Inv'
    <3>1. Become(t, conn[t])
      BY <2>3, ThreadFacts DEF RemoveSession
    <3> QED
      BY <2>1, <2>3, <3>1, RemovingShrinks, RemovalInv DEF RemoveSession
  <2>4. ASSUME NEW t \in Threads, RemoveAll(t) PROVE Inv'
    <3>1. Become(t, conn[t])
      BY <2>4, ThreadFacts DEF RemoveAll
    <3> QED
      BY <2>1, <2>4, <3>1, RemovalInv DEF RemoveAll
  <2>5. ASSUME NEW t \in Threads, DontResume(t) PROVE Inv'
    <3>1. /\ Become(t, Idle) /\ UNCHANGED <<reuse, made, held, fifo, steady, mutex, now, handed>>
      BY <2>1, <2>5 DEF DontResume, store
    <3>2. conn'[t] = Idle
      BY <3>1 DEF Inv, TypeInv, Become
    <3>3. ConnOK(t)' /\ SteadyOK(t)'
      BY <1>1, <3>1, <3>2, IdleConn, ThreadFacts DEF ConnOK, SteadyOK
    <3> QED
      BY <3>1, <3>3, IdleConn, LookInv
  <2>6. ASSUME NEW t \in Threads, RenewStore(t, TRUE, Forever) PROVE Inv'
    BY <2>1, <2>6, RenewStoreInv
  <2> QED
    BY <1>3, <2>1, <2>2, <2>3, <2>4, <2>5, <2>6, StoreNewInv, RetrieveOneInv, FilterOneInv,
       RetrieveInv, ResumeInv, FindBeginInv, FindSomeInv, FilterDoneInv, FindEndInv,
       RenewRemoveInv, RenewStoreInv
    DEF Next, Step
<1> QED
  BY <1>2, <1>3

\* The store, the queue and what the threads remember of them agree throughout.
THEOREM InvHolds == Spec => []Inv
BY InitInv, NextInv, PTL DEF Spec

-----------------------------------------------------------------------------

\* What store() asserts: every session held has its key in the queue, so the
\* loop that makes room ends, and the capacity is not exceeded.
THEOREM QueueCovers == Spec => []QueueCoversSessions
<1>1. Inv => QueueCoversSessions
  BY DEF Inv
<1> QED
  BY <1>1, InvHolds, PTL

\* Without reuse find() gives out what a store() put there at most once, among
\* all the threads that ask, and no ticket to a second client while one uses it.
\* A ticket that a client stores again after use is given out again.
THEOREM NoSecondHandOut == Spec => []HandedOutOnce
<1>1. ASSUME Inv, NEW n \in Numbers, made[n].v13 \/ made[n].kind = "ticket"
      PROVE  handed[n] <= 1
  <2>1. OneTime(n)
    BY <1>1 DEF OneTime, Pre13, IsId
  <2>2. n \in 1..MaxSessions
    <3>1. Len(made) \in Nat /\ Len(made) <= MaxSessions
      BY <1>1 DEF Inv, TypeInv, RoomInv
    <3> QED
      BY <3>1, SessionManagerAssumption DEF Numbers
  <2>3. CASE reuse
    BY <1>1, <2>2, <2>3 DEF Inv, HandInv
  <2>4. CASE ~reuse
    BY <1>1, <2>1, <2>4 DEF Inv, HandInv
  <2> QED
    BY <2>3, <2>4
<1>2. ASSUME Inv, ~reuse, NEW t \in Threads, Using(t)
      PROVE  /\ \A u \in Threads : Using(u) /\ u # t =>
                  made[conn[u].sid].ticket # made[conn[t].sid].ticket
             /\ \A n \in held : made[n].kind = "ticket" =>
                  made[n].ticket # made[conn[t].sid].ticket
  <2>1. \A u \in Threads : Using(u) => u \in Renewers /\ ~IsId(conn[u].sid)
    BY <1>2 DEF Using, Renewers, Renewing, Inv, ConnInv, ConnOK
  <2>2. \A u \in Threads : Using(u) /\ u # t => ~SameTicket(conn[u].sid, conn[t].sid)
    BY <1>2, <2>1 DEF Inv, TicketInv
  <2>3. \A n \in held : n \in Around /\ ~SameTicket(n, conn[t].sid)
    BY <1>2, <2>1 DEF Inv, TypeInv, TicketInv, Around
  <2> QED
    BY <1>2, <2>1, <2>2, <2>3 DEF SameTicket, IsId
<1>3. Inv => HandedOutOnce
  BY <1>1, <1>2 DEF HandedOutOnce
<1> QED
  BY <1>3, InvHolds, PTL

\* When find() comes back with nothing, no live session for the server was
\* in the store all the time.
THEOREM FindMissesNothing == Spec => []FindIsComplete
<1>1. Inv => FindIsComplete
  BY DEF Inv, SteadyInv, SteadyOK, FindIsComplete, At
<1> QED
  BY <1>1, InvHolds, PTL

\* What had expired when find() began has expired now.
LEMMA ExpiryLasts ==
  ASSUME TypeInv, NEW n \in Numbers, NEW at \in Nat, at <= now, FindExpired(n, at)
  PROVE  FindExpired(n, now)
<1>1. made[n] \in Sessions /\ now \in Nat
  BY DEF TypeInv, Numbers
<1>2. made[n].start \in Nat /\ made[n].hint \in Nat
  BY <1>1 DEF Sessions
<1> QED
  BY <1>1, <1>2, SessionManagerAssumption DEF FindExpired

\* Without reuse, the removal of expired sessions in retrieve() and in find()
\* takes no session that is live: ids and tickets are unambiguous.
THEOREM ExpiryIsExact == Spec => ExpiryTakesOnlyExpired
<1>1. ASSUME Inv, ~reuse, NEW t \in Threads, Retrieve(t), NEW n \in held \ held'
      PROVE  RetrieveExpired(n)
  <2>1. conn[t].sid \in Numbers /\ IsId(conn[t].sid)
    BY <1>1, ThreadFacts DEF Retrieve, At, ConnOK
  <2>2. RetrieveExpired(conn[t].sid) /\ held' = Without({conn[t].sid})
    BY <1>1 DEF Retrieve, Removing, store
  <2>3. n = conn[t].sid
    BY <1>1, <2>1, <2>2 DEF Without, Matching
  <2> QED
    BY <2>2, <2>3
<1>2. ASSUME Inv, ~reuse, NEW t \in Threads, NEW m \in Numbers, FilterOne(t, m),
             NEW n \in held \ held'
      PROVE  FindExpired(n, now)
  <2>1. /\ m \in conn[t].found /\ FindExpired(m, conn[t].at) /\ held' = Without({m})
    BY <1>2 DEF FilterOne, Removing
  <2>2. m \in Around /\ n \in Around
    BY <1>2, <2>1, ThreadFacts
  <2>3. n = m \/ SameTicket(n, m)
    BY <1>2, <2>1 DEF Without, Matching, SameTicket
  <2>4. n = m
    BY <1>2, <2>2, <2>3 DEF Inv, TicketInv
  <2>5. conn[t].at \in Nat /\ conn[t].at <= now /\ TypeInv
    BY <1>2, ThreadFacts DEF Inv, ConnOK, Conns
  <2> QED
    BY <2>1, <2>4, <2>5, ExpiryLasts
<1>3. Inv => [~reuse => \A t \in Threads :
                (Retrieve(t) \/ \E n \in Numbers : FilterOne(t, n)) =>
                  \A n \in held \ held' : FindExpired(n, now) \/ RetrieveExpired(n)]_vars
  BY <1>1, <1>2
<1> QED
  BY <1>3, InvHolds, PTL DEF ExpiryTakesOnlyExpired
=============================================================================
