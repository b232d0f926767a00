------------------------ MODULE DtlsHandshakeProofs ------------------------
(***************************************************************************)
(* Proofs for DtlsHandshake: no handshake of two honest sides fails, each  *)
(* side is handed what its peer sent, and once both are finished only the  *)
(* sender of the last flight answers what is sent again.                   *)
(*                                                                         *)
(* The first two rest on one inductive invariant, DialogueInv.  A policy   *)
(* fixes what the two sides say to each other: the type, the message_seq   *)
(* and the epoch of every message, when it is said, and the transcript at  *)
(* that point.  The invariant says that each side is at the place of this  *)
(* dialogue given by the number of messages it was handed, and that all    *)
(* records in the network, in reassembly and in the flights kept are parts *)
(* of the dialogue that were said already.  The network then has nothing   *)
(* to choose but the order and the time at which the dialogue goes on.     *)
(***************************************************************************)
EXTENDS DtlsHandshake, Integers, FiniteSetTheorems, TLAPS

\* A handshake is a dialogue whose course the policy fixes.  What follows is a
\* function of the policy pol alone.
Cookies(pol) == IF pol.cookie THEN 1 ELSE 0
Tickets(pol) == IF pol.ticket THEN 1 ELSE 0

\* The message_seq of the Finished of p, its last message.
Final(pol, p) ==
  IF p = "client" THEN Cookies(pol) + (IF pol.resume THEN 1 ELSE 2)
  ELSE Cookies(pol) + Tickets(pol) + (IF pol.resume THEN 1 ELSE 3)

\* The type of message k of p.
TypeOf(pol, p, k) ==
  IF k = Final(pol, p) THEN "Finished"
  ELSE IF p = "client" THEN IF k <= Cookies(pol) THEN "ClientHello" ELSE "ClientKeyExchange"
  ELSE IF k < Cookies(pol) THEN "HelloVerifyRequest"
  ELSE IF k = Cookies(pol) THEN "ServerHello"
  ELSE IF pol.resume \/ k > Cookies(pol) + 2 THEN "NewSessionTicket"
  ELSE IF k = Cookies(pol) + 1 THEN "ServerKeyExchange" ELSE "ServerHelloDone"

\* Transcript h and message k of p.
Add(pol, h, p, k) == Append(h, <<TypeOf(pol, p, k), k>>)

\* The transcripts after the last ClientHello, the ServerHello, the
\* ServerKeyExchange and the ServerHelloDone.
Hello(pol)    == <<<<"ClientHello", Cookies(pol)>>>>
Answered(pol) == Add(pol, Hello(pol), "server", Cookies(pol))
Keyed(pol)    == Add(pol, Answered(pol), "server", Cookies(pol) + 1)
Asked(pol)    == Add(pol, Keyed(pol), "server", Cookies(pol) + 2)

\* The transcripts that the Finished of a full handshake, first the client's and
\* then the server's, and those of an abbreviated one, the other way round, are
\* over.
FullClient(pol) == Add(pol, Asked(pol), "client", Cookies(pol) + 1)
FullTurn(pol)   == Add(pol, FullClient(pol), "client", Cookies(pol) + 2)
FullServer(pol) == IF pol.ticket THEN Add(pol, FullTurn(pol), "server", Cookies(pol) + 3) ELSE FullTurn(pol)
ShortServer(pol) ==
  IF pol.ticket THEN Add(pol, Answered(pol), "server", Cookies(pol) + 1) ELSE Answered(pol)
ShortClient(pol) == Add(pol, ShortServer(pol), "server", Final(pol, "server"))

Transcript(pol, p) ==
  IF p = "client" THEN IF pol.resume THEN ShortClient(pol) ELSE FullClient(pol)
  ELSE IF pol.resume THEN ShortServer(pol) ELSE FullServer(pol)

\* Message k of p, as sent and with some of its bytes, and the ChangeCipherSpec.
Item(pol, p, k) ==
  [type |-> TypeOf(pol, p, k), seq |-> k, epoch |-> IF k = Final(pol, p) THEN 1 ELSE 0,
   body |-> IF k = Final(pol, p) THEN Transcript(pol, p) ELSE <<>>]
Frag(pol, p, k, bytes) ==
  [type |-> TypeOf(pol, p, k), seq |-> k, epoch |-> IF k = Final(pol, p) THEN 1 ELSE 0,
   body |-> IF k = Final(pol, p) THEN Transcript(pol, p) ELSE <<>>,
   len |-> MsgLength[TypeOf(pol, p, k)], bytes |-> bytes]
Part(pol, p, k, r) == r = Frag(pol, p, k, r.bytes)
CCSItem == [type |-> CCS, seq |-> 0, epoch |-> 0, body |-> <<>>]
CCSFrag == [type |-> CCS, seq |-> 0, epoch |-> 0, body |-> <<>>, len |-> 0, bytes |-> {}]

\* What p has sent once it has sent n messages: the ChangeCipherSpec goes before
\* the Finished.
ItemsOf(pol, p, n) ==
  {Item(pol, p, k) : k \in 0..(n - 1)} \cup (IF n > Final(pol, p) THEN {CCSItem} ELSE {})
IsFrag(pol, p, n, r) == \E k \in 0..(n - 1) : Part(pol, p, k, r)
IsRecord(pol, p, n, r) == IsFrag(pol, p, n, r) \/ (n > Final(pol, p) /\ r = CCSFrag)

\* How many messages p has sent when it has been handed i, and its transcript.
Reply(pol, p, i) ==
  IF p = "client"
  THEN IF i < Cookies(pol) THEN 1
       ELSE IF i <= (IF pol.resume THEN Final(pol, "server") ELSE Cookies(pol) + 2) THEN Cookies(pol) + 1
       ELSE Final(pol, "client") + 1
  ELSE IF i <= Cookies(pol) THEN i
       ELSE IF pol.resume \/ i > Final(pol, "client") THEN Final(pol, "server") + 1
       ELSE Cookies(pol) + 3

HashOf(pol, p, i) ==
  IF p = "client"
  THEN IF i < Cookies(pol) THEN <<<<"ClientHello", 0>>>>
       ELSE IF i = Cookies(pol) THEN Hello(pol)
       ELSE IF i = Final(pol, "server") THEN Transcript(pol, "server")
       ELSE IF i = Cookies(pol) + 1 THEN Answered(pol)
       ELSE IF i = Cookies(pol) + 2 THEN Keyed(pol)
       ELSE FullTurn(pol)
  ELSE IF i <= Cookies(pol) THEN <<>>
       ELSE IF i = Final(pol, "client") THEN Transcript(pol, "client")
       ELSE Asked(pol)

-----------------------------------------------------------------------------
(* A state of the dialogue.                                                *)

\* The channel c and the handshake IO q of p are at the place of the dialogue
\* that q.in says.
ChanOk(pol, p, c, q) ==
  /\ DOMAIN c = DOMAIN NewChannel
  /\ c.state \in {"none", "pending", "active", "closed"}
  /\ q.in \in 0..(Final(pol, Peer(p)) + 1)
  /\ c.read \in {0, 1}
  /\ c.read = 1 => q.in >= Final(pol, Peer(p))
  /\ q.in > Final(pol, Peer(p)) => c.read = 1
  /\ q.out = IF p = "client" /\ c.state = "none" THEN 0 ELSE Reply(pol, p, q.in)
  /\ c.write = IF q.out > Final(pol, p) THEN 1 ELSE 0
  /\ c.state = "none" => q.in = 0 /\ c.hash = <<>>
  /\ c.state = "active" => q.in > Final(pol, Peer(p))
  /\ c.state = "pending" =>
       /\ q.in <= Final(pol, Peer(p))
       /\ c.hash = HashOf(pol, p, q.in)
       /\ IF q.in = Final(pol, Peer(p)) /\ c.read = 0 THEN c.expecting = {CCS}
          ELSE TypeOf(pol, Peer(p), q.in) \in c.expecting /\ CCS \notin c.expecting

\* What q has to send again belongs to the dialogue, and there is some once p has
\* sent a flight.
FlightsOk(pol, p, q) ==
  /\ q.flights \in Seq(Seq(ItemsOf(pol, p, q.out))) /\ q.flights # <<>>
  /\ \A j \in 1..(Len(q.flights) - 1) : q.flights[j] # <<>>
  /\ (IF p = "client" THEN q.out > 0 ELSE q.in > Cookies(pol)) => Len(q.flights) > 1 \/ q.flights[1] # <<>>
  /\ q.last_write => IF p = "client" THEN q.out > 0 ELSE q.in > Cookies(pol)

\* What q has received was sent by the peer, n messages of it.
ReceivedOk(pol, p, q, n) ==
  /\ q.in <= n
  /\ \A k \in DOMAIN q.messages : k < n /\ k \in Nat /\ Part(pol, Peer(p), k, q.messages[k])
  /\ q.ccs_epochs \subseteq (IF n > Final(pol, Peer(p)) THEN {0} ELSE {})
  /\ \A s \in q.retransmitted : IsFrag(pol, Peer(p), n, s)

\* The ClientHellos that are answered with a HelloVerifyRequest: the repeated
\* first one and the one with the cookie are not there together.
HelloOk(pol, p, q) ==
  /\ q.recreating = FALSE
  /\ q.awaiting_cookie = (p = "server" /\ pol.cookie /\ q.in = 1)
  /\ \A s \in q.client_hello : p = "server" /\ Part(pol, "client", 0, s)
  /\ \A s \in q.client_hello : Complete(s) => q.awaiting_cookie /\ NextInSequence(q) = {}

\* One side, whose peer has sent n messages.
SideOk(pol, p, c, q, n) ==
  /\ DOMAIN q = DOMAIN NewIO
  /\ ChanOk(pol, p, c, q)
  /\ FlightsOk(pol, p, q)
  /\ ReceivedOk(pol, p, q, n)
  /\ HelloOk(pol, p, q)

\* What is in the network was sent.
NetOk == \A w \in DOMAIN net : w.from \in Sides /\ IsRecord(policy, w.from, io[w.from].out, w.rec)

\* A server that waits for the cookie has nothing to process between two calls.
Settled ==
  chan["server"].state = "pending" /\ io["server"].awaiting_cookie /\ "server" \notin working
    => ~HaveMoreData(io["server"])

\* The inductive invariant: both sides are at places of the same dialogue, and
\* everything between them belongs to it.
DialogueInv ==
  /\ policy \in Policy
  /\ failed = {}
  /\ DOMAIN io = Sides /\ DOMAIN chan = Sides
  /\ \A p \in Sides : SideOk(policy, p, chan[p], io[p], io[Peer(p)].out)
  /\ NetOk
  /\ working \subseteq Sides /\ \A p \in working : chan[p].state = "pending"
  /\ Settled

(* Facts about the dialogue.                                               *)

-----------------------------------------------------------------------------
(* What the policy says of the dialogue, and what was sent.                *)

\* The policy decides whether there is a cookie exchange, a ticket and a full
\* handshake, and with them the number of the last message of each side.
LEMMA PolicyFacts ==
  ASSUME NEW pol \in Policy
  PROVE  /\ pol.resume \in BOOLEAN /\ pol.cookie \in BOOLEAN /\ pol.ticket \in BOOLEAN
         /\ Cookies(pol) \in {0, 1} /\ Tickets(pol) \in {0, 1}
         /\ pol.cookie <=> Cookies(pol) = 1
         /\ pol.ticket <=> Tickets(pol) = 1
         /\ Final(pol, "client") = Cookies(pol) + (IF pol.resume THEN 1 ELSE 2)
         /\ Final(pol, "server") = Cookies(pol) + Tickets(pol) + (IF pol.resume THEN 1 ELSE 3)
         /\ \A p : Final(pol, p) \in Nat /\ Final(pol, p) > 0
<1>1. pol.resume \in BOOLEAN /\ pol.cookie \in BOOLEAN /\ pol.ticket \in BOOLEAN
  BY DEF Policy
<1>2. Cookies(pol) \in {0, 1} /\ Tickets(pol) \in {0, 1}
  BY DEF Cookies, Tickets
<1>3. (pol.cookie <=> Cookies(pol) = 1) /\ (pol.ticket <=> Tickets(pol) = 1)
  BY DEF Cookies, Tickets
<1>4. \A p : Final(pol, p) \in Nat /\ Final(pol, p) > 0
  BY <1>2 DEF Final
<1> QED
  BY <1>1, <1>2, <1>3, <1>4 DEF Final

\* There are two sides, and each is the peer of the other.
LEMMA SidesFacts ==
  /\ Sides = {"client", "server"}
  /\ Peer("client") = "server" /\ Peer("server") = "client"
  /\ \A x : Peer(x) \in Sides
  /\ \A p \in Sides : Peer(p) # p /\ Peer(Peer(p)) = p /\ \A s \in Sides : s = p \/ s = Peer(p)
BY DEF Peer, Sides

\* A ChangeCipherSpec is not a message of the dialogue: it has no number.
LEMMA TypeFacts ==
  ASSUME NEW pol, NEW p, NEW k
  PROVE  TypeOf(pol, p, k) # CCS
BY DEF TypeOf, CCS

\* What was sent remains sent.
LEMMA SentMore ==
  ASSUME NEW pol \in Policy, NEW p, NEW m \in Nat, NEW n \in Nat, m <= n
  PROVE  /\ ItemsOf(pol, p, m) \subseteq ItemsOf(pol, p, n)
         /\ Seq(ItemsOf(pol, p, m)) \subseteq Seq(ItemsOf(pol, p, n))
         /\ Seq(Seq(ItemsOf(pol, p, m))) \subseteq Seq(Seq(ItemsOf(pol, p, n)))
         /\ \A r : IsFrag(pol, p, m, r) => IsFrag(pol, p, n, r)
         /\ \A r : IsRecord(pol, p, m, r) => IsRecord(pol, p, n, r)
<1>1. 0..(m - 1) \subseteq 0..(n - 1) /\ (m > Final(pol, p) => n > Final(pol, p))
  BY PolicyFacts
<1>2. ItemsOf(pol, p, m) \subseteq ItemsOf(pol, p, n)
  BY <1>1 DEF ItemsOf
<1>3. \A S, T : S \subseteq T => Seq(S) \subseteq Seq(T)
  OBVIOUS
<1>4. \A r : IsFrag(pol, p, m, r) => IsFrag(pol, p, n, r)
  BY <1>1 DEF IsFrag
<1> QED
  BY <1>1, <1>2, <1>3, <1>4 DEF IsRecord

\* The records of sent items are fragments of them.
LEMMA RecordsSent ==
  ASSUME NEW pol, NEW p, NEW n \in Nat, NEW items \in Seq(ItemsOf(pol, p, n))
  PROVE  \A r \in Records(items) : IsRecord(pol, p, n, r)
<1> SUFFICES ASSUME NEW i \in DOMAIN items, NEW r \in Fragments(items[i])
             PROVE  IsRecord(pol, p, n, r)
  BY DEF Records
<1>1. items[i] \in ItemsOf(pol, p, n)
  OBVIOUS
<1>2. CASE n > Final(pol, p) /\ items[i] = CCSItem
  BY <1>2 DEF Fragments, CCSItem, CCSFrag, IsMsg, IsRecord
<1>3. ASSUME NEW k \in 0..(n - 1), items[i] = Item(pol, p, k)
      PROVE  IsRecord(pol, p, n, r)
  <2>1. IsMsg(items[i])
    BY <1>3, TypeFacts DEF IsMsg, Item
  <2>2. Part(pol, p, k, r)
    BY <1>3, <2>1 DEF Fragments, Item, Frag, Part
  <2> QED
    BY <2>2 DEF IsRecord, IsFrag
<1> QED
  BY <1>1, <1>2, <1>3 DEF ItemsOf

\* A side does not mind what else its peer has sent.
LEMMA SideMore ==
  ASSUME NEW pol \in Policy, NEW p, NEW c, NEW q, NEW m \in Nat, NEW n \in Nat, m <= n,
         SideOk(pol, p, c, q, m)
  PROVE  SideOk(pol, p, c, q, n)
<1>1. q.in \in Nat
  BY PolicyFacts DEF SideOk, ChanOk
<1>2. \A k \in DOMAIN q.messages :
        k < n /\ k \in Nat /\ Part(pol, Peer(p), k, q.messages[k])
  BY DEF SideOk, ReceivedOk
<1>3. q.ccs_epochs \subseteq (IF n > Final(pol, Peer(p)) THEN {0} ELSE {})
  <2>1. q.ccs_epochs \subseteq (IF m > Final(pol, Peer(p)) THEN {0} ELSE {})
    BY DEF SideOk, ReceivedOk
  <2>2. m > Final(pol, Peer(p)) => n > Final(pol, Peer(p))
    BY PolicyFacts
  <2> QED
    BY <2>1, <2>2
<1>4. \A s \in q.retransmitted : IsFrag(pol, Peer(p), n, s)
  BY SentMore DEF SideOk, ReceivedOk
<1>5. ReceivedOk(pol, p, q, n)
  BY <1>1, <1>2, <1>3, <1>4 DEF SideOk, ReceivedOk
<1> QED
  BY <1>5 DEF SideOk

\* The number of messages sent, for which every action is to be asked.
LEMMA OutFacts ==
  ASSUME NEW pol \in Policy, NEW p \in Sides, NEW c, NEW q, ChanOk(pol, p, c, q)
  PROVE  q.in \in Nat /\ q.out \in Nat /\ q.out <= Final(pol, p) + 1
<1>1. Final(pol, p) \in Nat /\ Final(pol, Peer(p)) \in Nat
  BY PolicyFacts
<1>2. Reply(pol, p, q.in) \in Nat /\ Reply(pol, p, q.in) <= Final(pol, p) + 1
  BY <1>1, PolicyFacts DEF ChanOk, Reply, Sides
<1> QED
  BY <1>1, <1>2 DEF ChanOk

-----------------------------------------------------------------------------
(* A step of one side.                                                     *)

\* p changes to channel c and handshake IO q, its peer stays as it is.
SideSet(p, c, q) ==
  /\ DOMAIN io' = Sides /\ DOMAIN chan' = Sides
  /\ io'[p] = q /\ chan'[p] = c
  /\ \A s \in Sides \ {p} : io'[s] = io[s] /\ chan'[s] = chan[s]

\* A step of one side: that side is where it should be, it has sent no less, and
\* what it put into the network is its own.
LEMMA SideSteps ==
  ASSUME DialogueInv, NEW p \in Sides, NEW c, NEW q,
         SideOk(policy, p, c, q, io[Peer(p)].out), q.out >= io[p].out,
         SideSet(p, c, q), policy' = policy, failed' = failed,
         \A w \in DOMAIN net' : w \in DOMAIN net \/ (w.from = p /\ IsRecord(policy, p, q.out, w.rec)),
         working' \subseteq Sides, \A s \in working' : chan'[s].state = "pending",
         Settled'
  PROVE  DialogueInv'
<1>1. /\ DOMAIN io' = Sides /\ io'[p] = q /\ io'[Peer(p)] = io[Peer(p)]
      /\ DOMAIN chan' = Sides /\ chan'[p] = c /\ chan'[Peer(p)] = chan[Peer(p)]
  BY SidesFacts DEF SideSet
<1>2. policy \in Policy /\ Peer(p) \in Sides
  BY SidesFacts DEF DialogueInv
<1>3. io[p].out \in Nat /\ q.out \in Nat
  BY <1>2, OutFacts DEF DialogueInv, SideOk
<1>4. SideOk(policy, Peer(p), chan[Peer(p)], io[Peer(p)], q.out)
  BY <1>2, <1>3, SidesFacts, SideMore DEF DialogueInv
<1>5. \A s \in Sides : SideOk(policy, s, chan'[s], io'[s], io'[Peer(s)].out)
  BY <1>1, <1>4, SidesFacts
<1>6. ASSUME NEW w \in DOMAIN net' PROVE w.from \in Sides /\ IsRecord(policy, w.from, io'[w.from].out, w.rec)
  <2>1. CASE w \in DOMAIN net
    <3>1. w.from \in Sides /\ IsRecord(policy, w.from, io[w.from].out, w.rec)
      BY <2>1 DEF DialogueInv, NetOk
    <3>2. CASE w.from = p
      BY <1>1, <1>2, <1>3, <3>1, <3>2, SentMore
    <3>3. CASE w.from = Peer(p)
      BY <1>1, <3>1, <3>3
    <3> QED
      BY <3>1, <3>2, <3>3, SidesFacts
  <2>2. CASE w \notin DOMAIN net
    BY <1>1, <2>2
  <2> QED
    BY <2>1, <2>2
<1>7. NetOk'
  BY <1>6 DEF NetOk
<1>8. \A s \in Sides : SideOk(policy', s, chan'[s], io'[s], io'[Peer(s)].out)
  BY <1>5
<1> QED
  BY <1>1, <1>2, <1>7, <1>8 DEF DialogueInv

\* The network after records were sent.
LEMMA PutSends ==
  ASSUME NEW n, NEW ws, PutInto(n, ws)
  PROVE  \A w \in DOMAIN net' : w \in DOMAIN n \/ w \in ws
<1>1. PICK old \in SUBSET (DOMAIN n \ ws) :
        net' = [w \in old \cup ws |->
                  IF w \notin ws THEN n[w]
                  ELSE IF w.rec.epoch = 0 \/ w \notin DOMAIN n THEN 1
                  ELSE Min({n[w] + 1, MaxCopies})]
  BY DEF PutInto
<1> QED
  BY <1>1

\* What p puts into the network when it sends items.
LEMMA WireSends ==
  ASSUME NEW pol, NEW p, NEW n \in Nat, NEW items \in Seq(ItemsOf(pol, p, n)), NEW w \in Wire(p, Records(items))
  PROVE  w.from = p /\ IsRecord(pol, p, n, w.rec)
BY RecordsSent DEF Wire

(* Receiving a record.                                                     *)

\* p has sent a flight, which it may have to send again.
HasSent(pol, p, q) == IF p = "client" THEN q.out > 0 ELSE q.in > Cookies(pol)

\* LastFlight: what is sent again was sent before, and there is some.
LEMMA LastFlightFacts ==
  ASSUME NEW pol, NEW p, NEW q, FlightsOk(pol, p, q)
  PROVE  /\ LastFlight(q) \in Seq(ItemsOf(pol, p, q.out))
         /\ HasSent(pol, p, q) => LastFlight(q) # <<>>
<1>1. q.flights \in Seq(Seq(ItemsOf(pol, p, q.out))) /\ q.flights # <<>>
  BY DEF FlightsOk
<1>2. PICK n \in Nat \ {0} : n = Len(q.flights)
  BY <1>1
<1>3. PICK j : j = (IF n = 1 THEN 1 ELSE n - 1) /\ j \in 1..n /\ (n > 1 => j \in 1..(n - 1))
  <2>1. CASE n = 1
    <3>1. 1 \in 1..n /\ ~(n > 1)
      BY <2>1
    <3> QED
      BY <2>1, <3>1
  <2>2. CASE n # 1
    <3>1. n - 1 \in 1..n /\ n - 1 \in 1..(n - 1)
      BY <2>2
    <3> QED
      BY <2>2, <3>1
  <2> QED
    BY <2>1, <2>2
<1>4. LastFlight(q) = q.flights[j]
  BY <1>2, <1>3 DEF LastFlight
<1>5. LastFlight(q) \in Seq(ItemsOf(pol, p, q.out))
  BY <1>1, <1>2, <1>3, <1>4
<1>6. ASSUME HasSent(pol, p, q) PROVE LastFlight(q) # <<>>
  <2>1. n > 1 \/ q.flights[1] # <<>>
    BY <1>2, <1>6 DEF FlightsOk, HasSent
  <2>2. n > 1 => q.flights[j] # <<>>
    BY <1>2, <1>3 DEF FlightsOk
  <2> QED
    BY <1>2, <1>3, <1>4, <2>1, <2>2
<1> QED
  BY <1>5, <1>6

-----------------------------------------------------------------------------
(* Receiving a record: from_peer() and add_record().                       *)

\* What receiving a record leaves alone.
SamePlace(q, r) ==
  /\ DOMAIN r = DOMAIN q
  /\ r.in = q.in /\ r.out = q.out /\ r.flights = q.flights /\ r.last_write = q.last_write
  /\ r.awaiting_cookie = q.awaiting_cookie /\ r.recreating = q.recreating

\* add_record() leaves the place in the dialogue alone.
LEMMA AddRecordKeeps ==
  ASSUME NEW q, DOMAIN q = DOMAIN NewIO, NEW r, NEW again \in BOOLEAN
  PROVE  SamePlace(q, AddRecord(q, r, again).io)
<1>1. SamePlace(q, q) /\ SamePlace(q, AfterOld(q, r))
  BY DEF SamePlace, AfterOld, NewIO
<1>2. SamePlace(q, AddCCS(q, r, again).io)
  BY DEF SamePlace, AddCCS, NewIO
<1>3. SamePlace(q, PreviousClientHello(q, r, again).io)
  <2>1. \A s : SamePlace(q, [q EXCEPT !.client_hello = s])
    BY DEF SamePlace, NewIO
  <2> QED
    BY <1>1, <2>1 DEF PreviousClientHello
<1>4. SamePlace(q, PreviousServerHello(q, r).io) /\ SamePlace(q, PreviousServerHelloDone(q, r).io)
  <2>1. \A s, t : SamePlace(q, [AfterOld(q, r) EXCEPT !.server_hello = s, !.server_hello_done = t])
    BY <1>1 DEF SamePlace
  <2>2. SamePlace(q, PreviousServerHello(q, r).io)
    BY <2>1 DEF PreviousServerHello
  <2>3. SamePlace(q, PreviousServerHelloDone(q, r).io)
    BY <2>1 DEF PreviousServerHelloDone
  <2> QED
    BY <2>2, <2>3
<1>5. SamePlace(q, PreviousFinished(q, r).io)
  BY <1>1 DEF SamePlace, PreviousFinished
<1>6. SamePlace(q, Previous(q, r, again).io)
  BY <1>1, <1>3, <1>4, <1>5 DEF Previous
<1>7. CASE r.type = CCS
  BY <1>2, <1>7 DEF AddRecord
<1>8. CASE r.type # CCS /\ IsNew(q, r)
  <2>1. \A s : SamePlace(q, [q EXCEPT !.messages = s])
    BY DEF SamePlace, NewIO
  <2>2. CASE again
    BY <1>1, <1>8, <2>2 DEF AddRecord
  <2>3. CASE ~again
    BY <1>8, <2>1, <2>3 DEF AddRecord
  <2> QED
    BY <2>2, <2>3
<1>9. CASE r.type # CCS /\ ~IsNew(q, r)
  BY <1>6, <1>9 DEF AddRecord
<1> QED
  BY <1>7, <1>8, <1>9

\* Fragments of one message add up to a fragment of it.
LEMMA FragmentsAdd ==
  ASSUME NEW pol, NEW p, NEW k, NEW r, Part(pol, p, k, r), NEW opt, \A s \in opt : Part(pol, p, k, s)
  PROVE  Part(pol, p, k, AddFragment(opt, r))
<1>1. CASE opt = {}
  BY <1>1 DEF AddFragment
<1>2. CASE opt # {}
  <2>1. PICK s \in opt : AddFragment(opt, r) = [s EXCEPT !.bytes = @ \cup r.bytes]
    BY <1>2 DEF AddFragment
  <2>2. PICK b : b = s.bytes \cup r.bytes
    OBVIOUS
  <2>3. s = Frag(pol, p, k, s.bytes)
    BY DEF Part
  <2>4. [s EXCEPT !.bytes = b] = Frag(pol, p, k, b)
    BY <2>3 DEF Frag
  <2>5. AddFragment(opt, r) = Frag(pol, p, k, b)
    BY <2>1, <2>2, <2>4
  <2>6. Frag(pol, p, k, b).bytes = b
    BY DEF Frag
  <2> QED
    BY <2>5, <2>6 DEF Part
<1> QED
  BY <1>1, <1>2

\* What is known when p, whose peer has sent n messages, is given record r.
Receiving(pol, p, c, q, n, r, again) ==
  /\ pol \in Policy /\ p \in Sides /\ n \in Nat /\ n <= Final(pol, Peer(p)) + 1
  /\ SideOk(pol, p, c, q, n)
  /\ IsRecord(pol, Peer(p), n, r)
  /\ again = (c.state = "active")
  /\ c.state # "closed"
  /\ q.awaiting_cookie => ~HaveMoreData(q)

\* A record that p is given is its peer's ChangeCipherSpec or a part of message k
\* of its peer.
LEMMA RecordFacts ==
  ASSUME NEW pol, NEW p, NEW c, NEW q, NEW n, NEW r, NEW again, Receiving(pol, p, c, q, n, r, again)
  PROVE  \/ r = CCSFrag /\ n > Final(pol, Peer(p)) /\ r.type = CCS
         \/ \E k \in 0..(n - 1) : /\ Part(pol, Peer(p), k, r) /\ r.seq = k
                                  /\ r.type = TypeOf(pol, Peer(p), k) /\ r.type # CCS
<1>1. CASE r = CCSFrag /\ n > Final(pol, Peer(p))
  BY <1>1 DEF CCSFrag
<1>2. ASSUME NEW k \in 0..(n - 1), Part(pol, Peer(p), k, r)
      PROVE  r.seq = k /\ r.type = TypeOf(pol, Peer(p), k) /\ r.type # CCS
  BY <1>2, TypeFacts DEF Frag, Part
<1> QED
  BY <1>1, <1>2 DEF Receiving, IsRecord, IsFrag

\* Fragments of one message agree.
LEMMA FragmentsAgree ==
  ASSUME NEW pol, NEW p, NEW k, NEW r, Part(pol, p, k, r), NEW s, Part(pol, p, k, s)
  PROVE  ~Inconsistent(s, r)
BY DEF Frag, Part, Inconsistent

\* The slot for parts of a message that was handed over holds parts of it.
LEMMA OldSlots ==
  ASSUME NEW pol \in Policy, NEW p, NEW q, NEW n, \A s \in q.retransmitted : IsFrag(pol, p, n, s),
         NEW k, NEW r, Part(pol, p, k, r)
  PROVE  \A s \in SlotOf(q, r) : Part(pol, p, k, s)
<1> SUFFICES ASSUME NEW s \in SlotOf(q, r) PROVE Part(pol, p, k, s)
  OBVIOUS
<1>1. PICK j \in 0..(n - 1) : Part(pol, p, j, s)
  BY DEF SlotOf, IsFrag
<1>2. s.seq = r.seq
  BY DEF SlotOf
<1>3. s.seq = j /\ r.seq = k
  BY <1>1 DEF Frag, Part
<1> QED
  BY <1>1, <1>2, <1>3

\* Between honest sides add_record() throws nothing.
LEMMA NoThrow ==
  ASSUME NEW pol, NEW p, NEW c, NEW q, NEW n, NEW r, NEW again, Receiving(pol, p, c, q, n, r, again)
  PROVE  ~AddRecordThrows(q, r, again)
<1> SUFFICES ASSUME r.type # CCS PROVE ~AddRecordThrows(q, r, again)
  BY DEF AddRecordThrows
<1>1. PICK k \in 0..(n - 1) : Part(pol, Peer(p), k, r) /\ r.seq = k
  BY RecordFacts
<1>2. CASE IsNew(q, r)
  <2>1. ~again
    <3>1. k <= Final(pol, Peer(p)) /\ q.in \in Nat /\ Final(pol, Peer(p)) \in Nat
      BY PolicyFacts, OutFacts DEF Receiving, SideOk
    <3>2. q.in <= Final(pol, Peer(p))
      BY <1>1, <1>2, <3>1 DEF IsNew
    <3>3. c.state # "active"
      BY <3>1, <3>2 DEF Receiving, SideOk, ChanOk
    <3> QED
      BY <3>3 DEF Receiving
  <2>2. \A s \in SlotAt(q, r.seq) : Part(pol, Peer(p), k, s)
    BY <1>1 DEF SlotAt, Receiving, SideOk, ReceivedOk
  <2> QED
    BY <1>1, <1>2, <2>1, <2>2, FragmentsAgree DEF AddRecordThrows
<1>3. CASE ~IsNew(q, r)
  <2>1. \A s \in SlotOf(q, r) : Part(pol, Peer(p), k, s)
    BY <1>1, OldSlots DEF Receiving, SideOk, ReceivedOk
  <2>2. ASSUME NEW s \in q.client_hello, s.seq = r.seq PROVE Part(pol, Peer(p), k, s)
    <3>1. Peer(p) = "client" /\ Part(pol, "client", 0, s)
      BY <2>2 DEF Receiving, SideOk, HelloOk, Peer
    <3>2. s.seq = 0
      BY <3>1 DEF Part, Frag
    <3> QED
      BY <1>1, <2>2, <3>1, <3>2
  <2>3. \A s \in PreviousSlot(q, r, again) : Part(pol, Peer(p), k, s)
    BY <2>1, <2>2 DEF PreviousSlot
  <2> QED
    BY <1>1, <1>3, <2>3, FragmentsAgree DEF AddRecordThrows
<1> QED
  BY <1>2, <1>3

\* What is answered with the last flight comes when there is one.
LEMMA ReplayFacts ==
  ASSUME NEW pol, NEW p, NEW c, NEW q, NEW n, NEW r, NEW again, Receiving(pol, p, c, q, n, r, again),
         AddRecord(q, r, again).replay
  PROVE  HasSent(pol, p, q)
<1>1. pol \in Policy /\ p \in Sides /\ ChanOk(pol, p, c, q)
  BY DEF Receiving, SideOk
<1>2. q.in \in Nat /\ q.out \in Nat
  BY <1>1, OutFacts
<1>3. CASE again
  <2>1. q.in > Final(pol, Peer(p))
    BY <1>3 DEF Receiving, SideOk, ChanOk
  <2>2. CASE p = "client"
    <3>1. q.out = Reply(pol, p, q.in)
      BY <1>3 DEF Receiving, SideOk, ChanOk
    <3> QED
      BY <1>1, <1>2, <2>1, <2>2, <3>1, PolicyFacts, SidesFacts DEF Reply, HasSent
  <2>3. CASE p = "server"
    BY <1>1, <1>2, <2>1, <2>3, PolicyFacts, SidesFacts DEF HasSent
  <2> QED
    BY <1>1, <2>2, <2>3 DEF Sides
<1>4. CASE ~again
  <2>1. r.type # CCS /\ ~IsNew(q, r) /\ Previous(q, r, again).replay
    BY <1>4 DEF AddRecord, AddCCS
  <2>2. r.type = "ClientHello" /\ ~q.awaiting_cookie
    BY <1>4, <2>1 DEF Previous, PreviousClientHello
  <2>3. PICK k \in 0..(n - 1) : r.seq = k /\ r.type = TypeOf(pol, Peer(p), k)
    BY <2>1, RecordFacts
  <2>4. p = "server"
    BY <1>1, <2>2, <2>3, SidesFacts DEF TypeOf
  <2>5. q.in > 0 /\ ~(pol.cookie /\ q.in = 1)
    <3>1. q.in > 0
      BY <1>2, <2>1, <2>3 DEF IsNew
    <3>2. q.awaiting_cookie = (p = "server" /\ pol.cookie /\ q.in = 1)
      BY DEF Receiving, SideOk, HelloOk
    <3> QED
      BY <2>2, <2>4, <3>1, <3>2
  <2> QED
    BY <1>1, <1>2, <2>4, <2>5, PolicyFacts DEF HasSent
<1>5. again \in BOOLEAN
  BY DEF Receiving
<1> QED
  BY <1>3, <1>4, <1>5

\* The parts of a side that a record may change.
LEMMA SamePlaceOk ==
  ASSUME NEW pol, NEW p, NEW c, NEW q, NEW n, SideOk(pol, p, c, q, n), NEW r, SamePlace(q, r),
         ReceivedOk(pol, p, r, n),
         \A s \in r.client_hello : p = "server" /\ Part(pol, "client", 0, s),
         \A s \in r.client_hello : Complete(s) => r.awaiting_cookie /\ NextInSequence(r) = {}
  PROVE  SideOk(pol, p, c, r, n)
<1>1. ChanOk(pol, p, c, r)
  BY DEF SideOk, SamePlace, ChanOk
<1>2. FlightsOk(pol, p, r)
  BY DEF SideOk, SamePlace, FlightsOk
<1>3. HelloOk(pol, p, r)
  BY DEF SideOk, SamePlace, HelloOk
<1> QED
  BY <1>1, <1>2, <1>3 DEF SideOk, SamePlace

\* A record of a message that is handed over, or of one that was, does not touch
\* the messages that are waited for.
LEMMA OldOk ==
  ASSUME NEW pol, NEW p, NEW c, NEW q, NEW n, NEW r, NEW again, Receiving(pol, p, c, q, n, r, again),
         r.type # CCS, ~IsNew(q, r), NEW x, x = Previous(q, r, again).io
  PROVE  SideOk(pol, p, c, x, n)
<1>1. PICK k \in 0..(n - 1) : Part(pol, Peer(p), k, r) /\ r.seq = k /\ r.type = TypeOf(pol, Peer(p), k)
  BY RecordFacts
<1>2. SideOk(pol, p, c, q, n) /\ DOMAIN q = DOMAIN NewIO /\ ReceivedOk(pol, p, q, n) /\ HelloOk(pol, p, q)
  BY DEF Receiving, SideOk
<1>3. again \in BOOLEAN
  BY DEF Receiving
<1>4. SamePlace(q, x)
  BY <1>2, <1>3, AddRecordKeeps DEF AddRecord
<1>5. PICK a : a = AddFragment(SlotOf(q, r), r)
  OBVIOUS
<1>6. IsFrag(pol, Peer(p), n, a)
  <2>1. \A s \in SlotOf(q, r) : Part(pol, Peer(p), k, s)
    BY <1>1, <1>2, OldSlots DEF ReceivedOk, Receiving
  <2>2. Part(pol, Peer(p), k, a)
    BY <1>1, <1>5, <2>1, FragmentsAdd
  <2> QED
    BY <2>2 DEF IsFrag
<1>7. PICK y : y = AfterOld(q, r)
  OBVIOUS
<1>8. /\ \A s \in y.retransmitted : IsFrag(pol, Peer(p), n, s)
      /\ y.messages = q.messages /\ y.in = q.in /\ y.ccs_epochs = q.ccs_epochs /\ y.client_hello = q.client_hello
      /\ DOMAIN y = DOMAIN q
  BY <1>2, <1>5, <1>6, <1>7 DEF AfterOld, NewIO, ReceivedOk
<1>9. CASE r.type = "ClientHello" /\ ~again /\ q.awaiting_cookie
  <2>1. PICK opt : opt = {s \in q.client_hello : s.seq = r.seq}
    OBVIOUS
  <2>2. PICK b : b = AddFragment(opt, r)
    OBVIOUS
  <2>3. x = [q EXCEPT !.client_hello = {b}]
    BY <1>9, <2>1, <2>2 DEF Previous, PreviousClientHello
  <2>4. p = "server" /\ q.in = 1
    BY <1>2, <1>9 DEF HelloOk
  <2>5. k = 0
    BY <1>1, <2>4 DEF IsNew
  <2>6. Part(pol, "client", 0, b)
    BY <1>1, <1>2, <2>1, <2>2, <2>4, <2>5, SidesFacts, FragmentsAdd DEF HelloOk
  <2>7. /\ x.client_hello = {b} /\ x.retransmitted = q.retransmitted
        /\ x.messages = q.messages /\ x.in = q.in /\ x.ccs_epochs = q.ccs_epochs
    BY <1>2, <2>3 DEF NewIO
  <2>8. ReceivedOk(pol, p, x, n)
    BY <1>2, <2>7 DEF ReceivedOk
  <2>9. NextInSequence(x) = {}
    BY <1>9, <2>7 DEF Receiving, HaveMoreData, NextInSequence, SlotAt
  <2>10. x.awaiting_cookie
    BY <1>4, <1>9 DEF SamePlace
  <2> QED
    BY <1>2, <1>4, <2>4, <2>6, <2>7, <2>8, <2>9, <2>10, SamePlaceOk
<1>10. CASE ~(r.type = "ClientHello" /\ ~again /\ q.awaiting_cookie)
  <2>1. /\ x.retransmitted \in {q.retransmitted, y.retransmitted}
        /\ x.messages = q.messages /\ x.in = q.in /\ x.ccs_epochs = q.ccs_epochs
        /\ x.client_hello = q.client_hello
    <3>1. CASE x = q \/ x = y
      BY <1>8, <3>1
    <3>2. ASSUME NEW s, NEW t, x = [y EXCEPT !.server_hello = s, !.server_hello_done = t] PROVE <2>1
      BY <1>8, <3>2
    <3>3. ASSUME NEW s, x = [y EXCEPT !.ccs_epoch = s] PROVE <2>1
      BY <1>8, <3>3
    <3>9. ASSUME NEW s, x = [y EXCEPT !.finished_epoch = s] PROVE <2>1
      BY <1>8, <3>9
    <3>4. CASE r.type = "ClientHello"
      BY <1>7, <1>10, <3>1, <3>4 DEF Previous, PreviousClientHello
    <3>5. CASE again /\ r.type = "ServerHello"
      <4>1. \E s, t : x = [y EXCEPT !.server_hello = s, !.server_hello_done = t]
        BY <1>7, <3>5 DEF Previous, PreviousServerHello
      <4> QED
        BY <3>2, <4>1
    <3>6. CASE again /\ r.type = "ServerHelloDone"
      <4>1. \E s, t : x = [y EXCEPT !.server_hello = s, !.server_hello_done = t]
        BY <1>7, <3>6 DEF Previous, PreviousServerHelloDone
      <4> QED
        BY <3>2, <4>1
    <3>7. CASE again /\ r.type = "Finished"
      BY <1>7, <3>1, <3>3, <3>9, <3>7 DEF Previous, PreviousFinished
    <3>8. CASE ~(r.type = "ClientHello" \/ (again /\ r.type \in {"ServerHello", "ServerHelloDone", "Finished"}))
      BY <3>1, <3>8 DEF Previous
    <3> QED
      BY <1>3, <3>4, <3>5, <3>6, <3>7, <3>8
  <2>2. ReceivedOk(pol, p, x, n)
    BY <1>2, <1>8, <2>1 DEF ReceivedOk
  <2>3. NextInSequence(x) = NextInSequence(q)
    BY <2>1 DEF NextInSequence, SlotAt
  <2> QED
    BY <1>2, <1>4, <2>1, <2>2, <2>3, SamePlaceOk DEF HelloOk, SamePlace
<1> QED
  BY <1>9, <1>10

\* add_record() keeps a side in its place.
LEMMA ReceiveOk ==
  ASSUME NEW pol, NEW p, NEW c, NEW q, NEW n, NEW r, NEW again, Receiving(pol, p, c, q, n, r, again),
         NEW x, x = AddRecord(q, r, again).io
  PROVE  SideOk(pol, p, c, x, n) /\ x.out = q.out
<1>1. SideOk(pol, p, c, q, n) /\ DOMAIN q = DOMAIN NewIO /\ ReceivedOk(pol, p, q, n) /\ HelloOk(pol, p, q)
  BY DEF Receiving, SideOk
<1>2. again \in BOOLEAN
  BY DEF Receiving
<1>3. SamePlace(q, x)
  BY <1>1, <1>2, AddRecordKeeps
<1>4. CASE r.type = CCS
  <2>1. r = CCSFrag /\ n > Final(pol, Peer(p))
    BY <1>4, RecordFacts
  <2>2. PICK e : e = q.ccs_epochs \cup {0}
    OBVIOUS
  <2>4. /\ x.ccs_epochs = e /\ x.retransmitted = q.retransmitted
        /\ x.messages = q.messages /\ x.in = q.in /\ x.client_hello = q.client_hello
    <3>1. AddRecord(q, r, again) = AddCCS(q, r, again)
      BY <1>4 DEF AddRecord
    <3>2. e = q.ccs_epochs \cup {r.epoch}
      BY <2>1, <2>2 DEF CCSFrag
    <3> QED
      BY <1>1, <3>1, <3>2 DEF AddCCS, NewIO
  <2>5. ReceivedOk(pol, p, x, n)
    BY <1>1, <2>1, <2>2, <2>4 DEF ReceivedOk
  <2>6. NextInSequence(x) = NextInSequence(q)
    BY <2>4 DEF NextInSequence, SlotAt
  <2> QED
    BY <1>1, <1>3, <2>4, <2>5, <2>6, SamePlaceOk DEF HelloOk, SamePlace
<1>5. CASE r.type # CCS /\ IsNew(q, r)
  <2>1. PICK k \in 0..(n - 1) : Part(pol, Peer(p), k, r) /\ r.seq = k
    BY <1>5, RecordFacts
  <2>2. CASE again
    BY <1>1, <1>3, <1>5, <2>2 DEF AddRecord, SamePlace
  <2>3. CASE ~again
    <3>1. PICK a : a = AddFragment(SlotAt(q, k), r)
      OBVIOUS
    <3>2. Part(pol, Peer(p), k, a)
      <4>1. \A s \in SlotAt(q, k) : Part(pol, Peer(p), k, s)
        BY <1>1 DEF SlotAt, ReceivedOk
      <4> QED
        BY <2>1, <3>1, <4>1, FragmentsAdd
    <3>3. x = [q EXCEPT !.messages = With(@, k, a)]
      BY <1>5, <2>1, <2>3, <3>1 DEF AddRecord
    <3>4. /\ x.messages = With(q.messages, k, a) /\ x.retransmitted = q.retransmitted
          /\ x.ccs_epochs = q.ccs_epochs /\ x.in = q.in /\ x.client_hello = q.client_hello
      BY <1>1, <3>3 DEF NewIO
    <3>5. \A j \in DOMAIN x.messages :
            j < n /\ j \in Nat /\ Part(pol, Peer(p), j, x.messages[j])
      <4>1. DOMAIN x.messages = DOMAIN q.messages \cup {k} /\ x.messages[k] = a
            /\ \A j \in DOMAIN q.messages : j # k => x.messages[j] = q.messages[j]
        BY <3>4 DEF With
      <4>2. k < n /\ k \in Nat
        BY DEF Receiving
      <4> QED
        BY <1>1, <3>2, <4>1, <4>2 DEF ReceivedOk
    <3>6. ReceivedOk(pol, p, x, n)
      BY <1>1, <3>4, <3>5 DEF ReceivedOk
    <3>7. \A s \in x.client_hello : ~Complete(s)
      BY <1>1, <3>4 DEF HelloOk, Receiving, HaveMoreData
    <3> QED
      BY <1>1, <1>3, <3>4, <3>6, <3>7, SamePlaceOk DEF HelloOk, SamePlace
  <2> QED
    BY <1>2, <2>2, <2>3
<1>6. CASE r.type # CCS /\ ~IsNew(q, r)
  BY <1>3, <1>6, OldOk DEF AddRecord, SamePlace
<1> QED
  BY <1>4, <1>5, <1>6

(* The steps outside process_handshake_msg().                              *)

\* What the invariant says of one side.
LEMMA SideFacts ==
  ASSUME DialogueInv, NEW p \in Sides
  PROVE  /\ policy \in Policy /\ Peer(p) \in Sides
         /\ SideOk(policy, p, chan[p], io[p], io[Peer(p)].out)
         /\ ChanOk(policy, p, chan[p], io[p])
         /\ io[p].in \in Nat /\ io[p].out \in Nat /\ io[p].out <= Final(policy, p) + 1
         /\ io[Peer(p)].out \in Nat /\ io[Peer(p)].out <= Final(policy, Peer(p)) + 1
         /\ io[p].in <= io[Peer(p)].out
<1>1. policy \in Policy /\ Peer(p) \in Sides
  BY SidesFacts DEF DialogueInv
<1>2. \A s \in Sides : SideOk(policy, s, chan[s], io[s], io[Peer(s)].out) /\ ChanOk(policy, s, chan[s], io[s])
  BY DEF DialogueInv, SideOk
<1>3. \A s \in Sides : io[s].in \in Nat /\ io[s].out \in Nat /\ io[s].out <= Final(policy, s) + 1
  BY <1>1, <1>2, OutFacts
<1>4. io[p].in <= io[Peer(p)].out
  BY <1>2 DEF SideOk, ReceivedOk
<1> QED
  BY <1>1, <1>2, <1>3, <1>4

\* Who waits for the cookie is in the middle of a handshake.
LEMMA AwaitingFacts ==
  ASSUME DialogueInv, NEW p \in Sides, io[p].awaiting_cookie, chan[p].state # "closed"
  PROVE  p = "server" /\ chan[p].state = "pending"
<1>1. p = "server" /\ policy.cookie /\ io[p].in = 1
  BY SideFacts DEF SideOk, HelloOk
<1>2. Final(policy, Peer(p)) > 1
  BY <1>1, SideFacts, SidesFacts, PolicyFacts
<1>3. ~(io[p].in > Final(policy, Peer(p)))
  BY <1>1, <1>2, SideFacts, PolicyFacts
<1> QED
  BY <1>1, <1>3, SideFacts DEF ChanOk

\* A step that leaves the server alone leaves it settled.
LEMMA SettledKept ==
  ASSUME Settled, io'["server"] = io["server"], chan'["server"] = chan["server"], "server" \notin working
  PROVE  Settled'
BY DEF Settled

\* What may be received is what is known of it.
LEMMA ReceivingFacts ==
  ASSUME DialogueInv, working = {}, NEW w \in DOMAIN net, NEW p \in Sides, w.from = Peer(p),
         chan[p].state # "closed"
  PROVE  Receiving(policy, p, chan[p], io[p], io[Peer(p)].out, w.rec, chan[p].state = "active")
<1>1. IsRecord(policy, Peer(p), io[Peer(p)].out, w.rec)
  BY DEF DialogueInv, NetOk
<1>2. io[p].awaiting_cookie => ~HaveMoreData(io[p])
  BY AwaitingFacts DEF DialogueInv, Settled
<1> QED
  BY <1>1, <1>2, SideFacts DEF Receiving

\* The first record makes a server begin; a client that has not is sent none.
LEMMA BeginFacts ==
  ASSUME DialogueInv, NEW p \in Sides, chan[p].state = "none", NEW r, IsRecord(policy, Peer(p), io[Peer(p)].out, r),
         NEW c, c = [chan[p] EXCEPT !.state = "pending", !.expecting = {"ClientHello"}],
         NEW x, SideOk(policy, p, chan[p], x, io[Peer(p)].out), x.in = io[p].in, x.out = io[p].out
  PROVE  SideOk(policy, p, c, x, io[Peer(p)].out) /\ c.state = "pending"
<1>1. io[p].in = 0
  BY SideFacts DEF ChanOk
<1>2. io[Peer(p)].out > 0
  BY SideFacts, PolicyFacts DEF IsRecord, IsFrag
<1>3. p = "server"
  <2> SUFFICES ASSUME p = "client" PROVE FALSE
    BY DEF Sides
  <2>1. io["client"].out = 0
    BY SideFacts DEF ChanOk
  <2>2. io["server"].in <= 0 /\ io["server"].in \in Nat /\ ChanOk(policy, "server", chan["server"], io["server"])
    BY <2>1, SideFacts, SidesFacts
  <2>3. io["server"].out = Reply(policy, "server", io["server"].in)
    BY <2>2 DEF ChanOk
  <2>4. io["server"].out = 0
    BY <2>2, <2>3, SideFacts, PolicyFacts DEF Reply
  <2> QED
    BY <1>2, <2>4, SidesFacts
<1>4. /\ c.state = "pending" /\ c.expecting = {"ClientHello"} /\ c.read = chan[p].read
      /\ c.write = chan[p].write /\ c.hash = <<>> /\ DOMAIN c = DOMAIN NewChannel
  BY SideFacts DEF ChanOk, NewChannel
<1>5. Final(policy, "client") > 0 /\ Cookies(policy) >= 0 /\ Final(policy, "client") \in Nat /\ Cookies(policy) \in Nat
  BY SideFacts, PolicyFacts
<1>6. TypeOf(policy, "client", 0) = "ClientHello" /\ HashOf(policy, "server", 0) = <<>>
  BY <1>5 DEF TypeOf, HashOf
<1>7. ChanOk(policy, p, c, x)
  <2>1. ChanOk(policy, p, chan[p], x)
    BY DEF SideOk
  <2> QED
    BY <1>1, <1>3, <1>4, <1>5, <1>6, <2>1, SidesFacts DEF ChanOk, CCS
<1> QED
  BY <1>4, <1>7 DEF SideOk

\* Nobody has sent or been handed anything.
Quiet ==
  /\ UNCHANGED <<policy, history>>
  /\ \A s \in Sides : /\ io'[s].in = io[s].in /\ io'[s].out = io[s].out
                      /\ chan'[s].read = chan[s].read /\ chan'[s].write = chan[s].write

\* from_peer() with any record that is in the network throws nothing.
LEMMA FromPeerKeeps ==
  ASSUME DialogueInv, NEW w \in DOMAIN net, FromPeer(w)
  PROVE  DialogueInv' /\ Quiet
<1>1. PICK p \in Sides : p = Peer(w.from) /\ w.from = Peer(p)
  BY SidesFacts DEF DialogueInv, NetOk
<1>2. working = {}
  BY DEF FromPeer
<1>3. CASE net' = Without(w) /\ UNCHANGED <<policy, io, chan, working, failed, history>>
  <2>1. \A v \in DOMAIN net' : v \in DOMAIN net
    BY <1>3 DEF Without
  <2> QED
    BY <1>3, <2>1 DEF DialogueInv, NetOk, Settled, Quiet
<1>4. CASE chan[p].state # "closed"
  <2>1. PICK q : q = io[p]
    OBVIOUS
  <2>2. PICK again \in BOOLEAN : again = (chan[p].state = "active")
    OBVIOUS
  <2>3. PICK n : n = io[Peer(p)].out
    OBVIOUS
  <2>4. Receiving(policy, p, chan[p], q, n, w.rec, again)
    BY <1>1, <1>2, <1>4, <2>1, <2>2, <2>3, ReceivingFacts
  <2>5. PICK next : next = AddRecord(q, w.rec, again)
    OBVIOUS
  <2>6. PICK ws : ws = IF next.replay /\ Replays(q) THEN Wire(p, Records(LastFlight(q))) ELSE {}
    OBVIOUS
  <2>7. ~AddRecordThrows(q, w.rec, again)
    BY <2>4, NoThrow
  <2>8. FlightsOk(policy, p, q) /\ LastFlight(q) \in Seq(ItemsOf(policy, p, q.out)) /\ q.out \in Nat
    BY <2>1, <2>4, SideFacts, LastFlightFacts DEF Receiving, SideOk
  <2>9. ~(next.replay /\ LastFlight(q) = <<>>)
    BY <2>4, <2>5, <2>8, ReplayFacts, LastFlightFacts
  <2>10. CASE ~Readable(p, w.rec)
    BY <1>1, <1>3, <2>10 DEF FromPeer
  <2>11. CASE Readable(p, w.rec)
    <3>1. /\ io' = [io EXCEPT ![p] = next.io] /\ PutAfter(w, ws)
          /\ chan' = IF chan[p].state # "none" THEN chan
                     ELSE [chan EXCEPT ![p].state = "pending", ![p].expecting = {"ClientHello"}]
          /\ working' = IF again THEN {} ELSE {p}
          /\ UNCHANGED <<policy, failed, history>>
      BY <1>1, <1>4, <2>1, <2>2, <2>5, <2>6, <2>7, <2>9, <2>11 DEF FromPeer
    <3>2. PICK x : x = next.io
      OBVIOUS
    <3>3. SideOk(policy, p, chan[p], x, n) /\ x.out = q.out /\ x.in = q.in
      <4>1. SamePlace(q, x)
        BY <2>2, <2>4, <2>5, <3>2, AddRecordKeeps DEF Receiving, SideOk
      <4> QED
        BY <2>4, <2>5, <3>2, <4>1, ReceiveOk DEF SamePlace
    <3>4. PICK c : c = (IF chan[p].state # "none" THEN chan[p]
                        ELSE [chan[p] EXCEPT !.state = "pending", !.expecting = {"ClientHello"}])
      OBVIOUS
    <3>5. SideSet(p, c, x)
      BY <3>1, <3>2, <3>4 DEF DialogueInv, SideSet
    <3>6. SideOk(policy, p, c, x, n) /\ (~again => c.state = "pending") /\ c.read = chan[p].read /\ c.write = chan[p].write
      <4>1. CASE chan[p].state # "none"
        <5>1. ~again => chan[p].state = "pending"
          BY <1>4, <2>2, <4>1, SideFacts DEF ChanOk
        <5> QED
          BY <3>3, <3>4, <4>1, <5>1
      <4>2. CASE chan[p].state = "none"
        <5>1. SideOk(policy, p, c, x, n) /\ c.state = "pending"
          BY <2>1, <2>3, <2>4, <3>3, <3>4, <4>2, BeginFacts DEF Receiving
        <5> QED
          BY <3>4, <4>2, <5>1, SideFacts DEF ChanOk, NewChannel
      <4> QED
        BY <4>1, <4>2
    <3>7. ASSUME NEW v \in DOMAIN net'
          PROVE  v \in DOMAIN net \/ (v.from = p /\ IsRecord(policy, p, x.out, v.rec))
      <4>1. v \in DOMAIN net \/ v \in ws
        <5>1. PICK m \in {Without(w), net} : IF ws = {} THEN net' = m ELSE PutInto(m, ws)
          BY <3>1 DEF PutAfter
        <5>2. \A u \in DOMAIN m : u \in DOMAIN net
          BY <5>1 DEF Without
        <5> QED
          BY <5>1, <5>2, PutSends
      <4> QED
        BY <2>6, <2>8, <3>3, <4>1, WireSends
    <3>8. chan'[p] = c /\ io'[p] = x /\ \A s \in Sides \ {p} : chan'[s] = chan[s] /\ io'[s] = io[s]
      BY <3>5 DEF SideSet
    <3>9. working' \subseteq Sides /\ \A s \in working' : chan'[s].state = "pending"
      BY <3>1, <3>6, <3>8
    <3>10. Settled'
      <4>1. CASE p = "server"
        <5>1. again => c.state = "active"
          BY <2>2, <3>4
        <5> QED
          BY <3>1, <3>8, <4>1, <5>1 DEF Settled
      <4>2. CASE p = "client"
        BY <1>2, <3>8, <4>2, SettledKept DEF DialogueInv, Sides
      <4> QED
        BY <4>1, <4>2 DEF Sides
    <3>11. x.out >= io[p].out
      BY <2>1, <2>8, <3>3
    <3>12. DialogueInv'
      BY <2>3, <3>1, <3>5, <3>6, <3>7, <3>9, <3>10, <3>11, SideSteps
    <3>13. Quiet
      BY <2>1, <3>1, <3>3, <3>6, <3>8 DEF Quiet
    <3> QED
      BY <3>12, <3>13
  <2> QED
    BY <2>10, <2>11
<1> QED
  BY <1>1, <1>3, <1>4 DEF FromPeer

\* The loss of a record disturbs nothing.
LEMMA LoseKeeps ==
  ASSUME DialogueInv, NEW w \in DOMAIN net, Lose(w)
  PROVE  DialogueInv' /\ Quiet
<1>1. \A v \in DOMAIN net' : v \in DOMAIN net
  BY DEF Lose, Without
<1> QED
  BY <1>1 DEF Lose, DialogueInv, NetOk, Settled, Quiet

-----------------------------------------------------------------------------
(* Between two messages: return from the call, and timeout_check().        *)

\* What concluding a flight leaves alone.
SameRest(q, x) ==
  /\ DOMAIN x = DOMAIN q
  /\ x.in = q.in /\ x.out = q.out /\ x.last_write = q.last_write
  /\ x.messages = q.messages /\ x.ccs_epochs = q.ccs_epochs /\ x.retransmitted = q.retransmitted
  /\ x.client_hello = q.client_hello /\ x.awaiting_cookie = q.awaiting_cookie /\ x.recreating = q.recreating

\* Concluding a flight opens a new one and loses none that was sent.
LEMMA ConcludeFacts ==
  ASSUME NEW pol, NEW p, NEW q, DOMAIN q = DOMAIN NewIO, FlightsOk(pol, p, q),
         NEW x, x = ConcludeFlight(q)
  PROVE  SameRest(q, x) /\ FlightsOk(pol, p, x) /\ x.flights[Len(x.flights)] = <<>>
<1>1. CASE Last(q.flights) = <<>>
  BY <1>1 DEF ConcludeFlight, SameRest, Last
<1>2. CASE Last(q.flights) # <<>>
  <2>1. x = [q EXCEPT !.flights = Append(q.flights, <<>>)]
    BY <1>2 DEF ConcludeFlight
  <2>2. SameRest(q, x) /\ x.flights = Append(q.flights, <<>>)
    BY <2>1 DEF SameRest, NewIO
  <2>3. q.flights \in Seq(Seq(ItemsOf(pol, p, q.out))) /\ q.flights # <<>>
    BY DEF FlightsOk
  <2>4. PICK n \in Nat \ {0} : n = Len(q.flights)
    BY <2>3
  <2>5. /\ x.flights \in Seq(Seq(ItemsOf(pol, p, q.out))) /\ Len(x.flights) = n + 1
        /\ x.flights[n + 1] = <<>> /\ \A j \in 1..n : x.flights[j] = q.flights[j]
    <3>1. <<>> \in Seq(ItemsOf(pol, p, q.out))
      OBVIOUS
    <3> QED
      BY <2>2, <2>3, <2>4, <3>1
  <2>6. \A j \in 1..n : x.flights[j] # <<>>
    <3>1. q.flights[n] # <<>>
      BY <1>2, <2>4 DEF Last
    <3>2. \A j \in 1..(n - 1) : q.flights[j] # <<>>
      BY <2>4 DEF FlightsOk
    <3>3. \A j \in 1..n : j = n \/ j \in 1..(n - 1)
      OBVIOUS
    <3> QED
      BY <2>5, <3>1, <3>2, <3>3
  <2>7. Len(x.flights) > 1 /\ x.flights # <<>> /\ Len(x.flights) - 1 = n
    <3>1. n + 1 > 1 /\ n + 1 - 1 = n
      OBVIOUS
    <3> QED
      BY <2>5, <3>1
  <2>8. FlightsOk(pol, p, x)
    BY <2>2, <2>5, <2>6, <2>7 DEF FlightsOk, SameRest
  <2> QED
    BY <2>2, <2>5, <2>8
<1> QED
  BY <1>1, <1>2

\* It leaves a side where it is.
LEMMA SameRestOk ==
  ASSUME NEW pol, NEW p, NEW c, NEW q, NEW n, SideOk(pol, p, c, q, n), NEW x, SameRest(q, x), FlightsOk(pol, p, x)
  PROVE  SideOk(pol, p, c, x, n) /\ (HaveMoreData(x) <=> HaveMoreData(q))
<1>1. ChanOk(pol, p, c, x)
  BY DEF SideOk, SameRest, ChanOk
<1>2. ReceivedOk(pol, p, x, n)
  BY DEF SideOk, SameRest, ReceivedOk
<1>3. NextInSequence(x) = NextInSequence(q)
  BY DEF SameRest, NextInSequence, SlotAt
<1>4. HelloOk(pol, p, x)
  BY <1>3 DEF SideOk, SameRest, HelloOk
<1> QED
  BY <1>1, <1>2, <1>3, <1>4 DEF SideOk, SameRest, HaveMoreData

\* A record that completes no message.
LEMMA ReturnKeeps ==
  ASSUME DialogueInv, NEW p \in Sides, Return(p)
  PROVE  DialogueInv' /\ Quiet
<1>1. PICK x : x = ConcludeFlight(io[p])
  OBVIOUS
<1>2. SameRest(io[p], x) /\ FlightsOk(policy, p, x)
  BY <1>1, SideFacts, ConcludeFacts DEF SideOk
<1>3. SideOk(policy, p, chan[p], x, io[Peer(p)].out) /\ (HaveMoreData(x) <=> HaveMoreData(io[p]))
  BY <1>2, SideFacts, SameRestOk
<1>4. SideSet(p, chan[p], x)
  BY <1>1 DEF Return, DialogueInv, SideSet
<1>5. Settled'
  <2>1. CASE p = "server"
    <3> SUFFICES ASSUME chan[p].state = "pending", x.awaiting_cookie PROVE ~HaveMoreData(x)
      BY <1>4, <2>1 DEF Settled, SideSet
    <3>1. policy.cookie /\ io[p].in = 1
      <4>1. io[p].awaiting_cookie
        BY <1>2 DEF SameRest
      <4> QED
        BY <4>1, SideFacts DEF SideOk, HelloOk
    <3>2. io[p].in # Final(policy, Peer(p))
      BY <2>1, <3>1, SideFacts, SidesFacts, PolicyFacts
    <3>3. CCS \notin chan[p].expecting
      BY <3>2, SideFacts DEF ChanOk
    <3>4. NextRecord(io[p], FALSE) = {}
      <4>1. (CCS \in chan[p].expecting) = FALSE
        BY <3>3
      <4>2. NextRecord(io[p], CCS \in chan[p].expecting) = {}
        BY DEF Return, NextFor
      <4> QED
        BY <4>1, <4>2
    <3>5. NextInSequence(io[p]) = {} /\ \A s \in io[p].client_hello : ~Complete(s)
      BY <3>4 DEF NextRecord
    <3> QED
      BY <1>3, <3>5 DEF HaveMoreData
  <2>2. CASE p = "client"
    BY <1>4, <2>2, SettledKept DEF Return, DialogueInv, SideSet, Sides
  <2> QED
    BY <2>1, <2>2 DEF Sides
<1>6. x.out >= io[p].out
  BY <1>2, SideFacts DEF SameRest
<1>7. DialogueInv'
  BY <1>3, <1>4, <1>5, <1>6, SideSteps DEF Return
<1>8. Quiet
  BY <1>2, <1>4 DEF Quiet, Return, SideSet, SameRest
<1> QED
  BY <1>7, <1>8

\* timeout_check(): whoever runs a timer has a flight to send again.
LEMMA TimeoutKeeps ==
  ASSUME DialogueInv, NEW p \in Sides, TimeoutCheck(p)
  PROVE  DialogueInv' /\ Quiet
<1>1. chan[p].state = "pending" /\ working = {} /\ UNCHANGED <<policy, working, history>>
  BY DEF TimeoutCheck
<1>2. SideOk(policy, p, chan[p], io[p], io[Peer(p)].out) /\ FlightsOk(policy, p, io[p]) /\ io[p].out \in Nat
  BY SideFacts DEF SideOk
<1>3. LastFlight(io[p]) # <<>> /\ LastFlight(io[p]) \in Seq(ItemsOf(policy, p, io[p].out))
  <2>1. HasSent(policy, p, io[p])
    BY <1>2 DEF TimeoutCheck, TimerRuns, FlightsOk, HasSent
  <2> QED
    BY <1>2, <2>1, LastFlightFacts
<1>4. CASE chan' = [chan EXCEPT ![p].state = "closed"] /\ UNCHANGED <<net, io, failed>>
  <2>1. PICK c : c = [chan[p] EXCEPT !.state = "closed"]
    OBVIOUS
  <2>2. SideSet(p, c, io[p])
    BY <1>4, <2>1 DEF SideSet, DialogueInv
  <2>3. /\ DOMAIN c = DOMAIN NewChannel /\ c.state = "closed"
        /\ c.read = chan[p].read /\ c.write = chan[p].write
    BY <2>1, SideFacts DEF ChanOk, NewChannel
  <2>4. ChanOk(policy, p, c, io[p])
    BY <1>1, <2>3, SideFacts DEF ChanOk
  <2>5. SideOk(policy, p, c, io[p], io[Peer(p)].out)
    BY <1>2, <2>4 DEF SideOk
  <2>6. Settled'
    <3>1. CASE p = "server"
      BY <2>2, <2>3, <3>1 DEF SideSet, Settled
    <3>2. CASE p = "client"
      BY <1>1, <2>2, <3>2, SettledKept DEF SideSet, DialogueInv, Sides
    <3> QED
      BY <3>1, <3>2 DEF Sides
  <2>7. DialogueInv'
    BY <1>1, <1>2, <1>4, <2>2, <2>5, <2>6, SideSteps
  <2> QED
    BY <1>1, <2>2, <2>3, <2>7 DEF Quiet, SideSet
<1>5. ASSUME NEW n, io' = [io EXCEPT ![p].count = n], Put(Wire(p, Records(LastFlight(io[p])))), UNCHANGED <<chan, failed>>
      PROVE  DialogueInv' /\ Quiet
  <2>1. PICK x : x = [io[p] EXCEPT !.count = n]
    OBVIOUS
  <2>2. SideSet(p, chan[p], x)
    BY <1>5, <2>1 DEF SideSet, DialogueInv
  <2>3. SameRest(io[p], x) /\ x.flights = io[p].flights
    BY <1>2, <2>1 DEF SideOk, SameRest, NewIO
  <2>4. FlightsOk(policy, p, x)
    BY <1>2, <2>3 DEF FlightsOk, SameRest
  <2>5. SideOk(policy, p, chan[p], x, io[Peer(p)].out) /\ (HaveMoreData(x) <=> HaveMoreData(io[p]))
    BY <1>2, <2>3, <2>4, SameRestOk
  <2>6. \A w \in DOMAIN net' : w \in DOMAIN net \/ (w.from = p /\ IsRecord(policy, p, x.out, w.rec))
    <3>1. x.out = io[p].out
      BY <2>3 DEF SameRest
    <3> QED
      BY <1>2, <1>3, <1>5, <3>1, PutSends, WireSends DEF Put
  <2>7. Settled'
    BY <1>1, <1>5, <2>2, <2>3, <2>5, SidesFacts DEF SideSet, Settled, DialogueInv, SameRest
  <2>8. x.out >= io[p].out
    BY <1>2, <2>3 DEF SameRest
  <2>9. working' \subseteq Sides /\ \A s \in working' : chan'[s].state = "pending"
    BY <1>1
  <2>10. DialogueInv'
    BY <1>1, <1>5, <2>2, <2>5, <2>6, <2>7, <2>8, <2>9, SideSteps
  <2> QED
    BY <1>1, <2>2, <2>3, <2>10 DEF Quiet, SideSet, SameRest
<1> QED
  BY <1>3, <1>4, <1>5 DEF TimeoutCheck

(* Sending a flight.                                                       *)

-----------------------------------------------------------------------------
(* Sending a flight.                                                       *)

\* items are messages out..n-1 of p, the ChangeCipherSpec in its place.
Continues(pol, p, out, n, items) ==
  /\ n \in Nat /\ n > out
  /\ items \in Seq(ItemsOf(pol, p, n)) /\ items # <<>>
  /\ Cardinality({i \in DOMAIN items : IsMsg(items[i])}) = n - out
  /\ \A k \in out..(n - 1) : k < Final(pol, p) => k - out + 1 \in 1..Len(items) /\ items[k - out + 1] = Item(pol, p, k)
  /\ IF n <= Final(pol, p) THEN Len(items) = n - out
     ELSE /\ n = Final(pol, p) + 1 /\ Len(items) = n - out + 1
          /\ items[n - out] = CCSItem /\ items[n - out + 1] = Item(pol, p, Final(pol, p))

\* The types of the messages that have a number.
Types == {"ClientHello", "HelloVerifyRequest", "ServerHello", "ServerKeyExchange", "ServerHelloDone",
          "ClientKeyExchange", "NewSessionTicket", "Finished"}

\* The l messages of these types come next in the dialogue of p, before its
\* Finished.
Comes(pol, p, out, types, l) ==
  /\ pol \in Policy /\ out \in Nat /\ out = io[p].out /\ chan[p].write = 0
  /\ types \in Seq(Types) /\ l \in Nat /\ l = Len(types)
  /\ \A k \in 1..l : out + k - 1 < Final(pol, p) /\ TypeOf(pol, p, out + k - 1) = types[k]

\* The messages of a flight, without ChangeCipherSpec and Finished.
Messages(p, types) ==
  [k \in DOMAIN types |-> [type |-> types[k], seq |-> io[p].out + k - 1, epoch |-> chan[p].write, body |-> <<>>]]

\* msgs are messages out, out + 1, ... of p, l of them.
AreMessages(pol, p, out, l, n, msgs) ==
  /\ msgs \in Seq(ItemsOf(pol, p, n)) /\ Len(msgs) = l /\ DOMAIN msgs = 1..l
  /\ \A k \in 1..l : msgs[k] = Item(pol, p, out + k - 1) /\ msgs[k].type # CCS

\* Flights are numbered as the dialogue is.
LEMMA MessagesFacts ==
  ASSUME NEW pol, NEW p, NEW out, NEW types, NEW l, Comes(pol, p, out, types, l)
  PROVE  AreMessages(pol, p, out, l, out + l, Messages(p, types))
<1>1. types \in Seq(Types) /\ DOMAIN types = 1..l /\ l \in Nat /\ out \in Nat
  BY DEF Comes
<1>2. PICK n \in Nat : n = out + l
  BY <1>1
<1>3. PICK msgs : msgs = Messages(p, types)
  OBVIOUS
<1>4. ASSUME NEW k \in 1..l
      PROVE  /\ msgs[k] = Item(pol, p, out + k - 1) /\ msgs[k].type # CCS
             /\ msgs[k] \in ItemsOf(pol, p, n)
  <2>1. PICK j \in 0..(n - 1) : j = out + k - 1
    BY <1>1, <1>2
  <2>2. j < Final(pol, p) /\ TypeOf(pol, p, j) = types[k] /\ pol \in Policy
    BY <2>1 DEF Comes
  <2>3. j # Final(pol, p)
    BY <2>2, PolicyFacts
  <2>4. msgs[k] = [type |-> types[k], seq |-> j, epoch |-> 0, body |-> <<>>]
    BY <1>1, <1>3, <2>1 DEF Messages, Comes
  <2>5. msgs[k] = Item(pol, p, j)
    BY <2>2, <2>3, <2>4 DEF Item
  <2>6. msgs[k].type # CCS
    BY <2>2, <2>4, TypeFacts
  <2> QED
    BY <2>1, <2>5, <2>6 DEF ItemsOf
<1>5. msgs = [k \in 1..l |-> msgs[k]]
  BY <1>1, <1>3 DEF Messages
<1>6. msgs \in Seq(ItemsOf(pol, p, n)) /\ Len(msgs) = l /\ DOMAIN msgs = 1..l
  BY <1>1, <1>4, <1>5
<1> QED
  BY <1>2, <1>3, <1>4, <1>6 DEF AreMessages

\* A flight without Finished continues the dialogue.
LEMMA PlainFlight ==
  ASSUME NEW pol, NEW p, NEW out, NEW types, NEW l, Comes(pol, p, out, types, l), l > 0,
         out + l <= Final(pol, p), NEW h
  PROVE  Continues(pol, p, out, out + l, Flight(p, types, FALSE, h))
<1>1. l \in Nat /\ out \in Nat
  BY DEF Comes
<1>2. PICK n \in Nat : n = out + l
  BY <1>1
<1>3. PICK msgs : msgs = Messages(p, types)
  OBVIOUS
<1>4. /\ msgs \in Seq(ItemsOf(pol, p, n)) /\ Len(msgs) = l /\ DOMAIN msgs = 1..l
      /\ \A k \in 1..l : msgs[k] = Item(pol, p, out + k - 1) /\ msgs[k].type # CCS
  BY <1>2, <1>3, MessagesFacts DEF AreMessages
<1>5. Flight(p, types, FALSE, h) = msgs
  BY <1>3 DEF Flight, Messages
<1>6. {i \in DOMAIN msgs : IsMsg(msgs[i])} = 1..l
  BY <1>4 DEF IsMsg
<1>7. Cardinality(1..l) = l
  BY <1>1, FS_Interval
<1>8. msgs # <<>>
  BY <1>1, <1>4
<1>9. ASSUME NEW k \in out..(n - 1) PROVE k - out + 1 \in 1..Len(msgs) /\ msgs[k - out + 1] = Item(pol, p, k)
  <2>1. k - out + 1 \in 1..l /\ out + (k - out + 1) - 1 = k
    BY <1>1, <1>2
  <2> QED
    BY <1>4, <2>1
<1>10. n > out /\ n - out = l /\ n <= Final(pol, p)
  BY <1>1, <1>2
<1> QED
  BY <1>2, <1>4, <1>5, <1>6, <1>7, <1>8, <1>9, <1>10 DEF Continues

\* A sequence and two more elements.
Extended(S, s, l, a, b, t) ==
  /\ t \in Seq(S) /\ Len(t) = l + 2 /\ DOMAIN t = 1..(l + 2)
  /\ \A k \in 1..l : t[k] = s[k]
  /\ t[l + 1] = a /\ t[l + 2] = b

\* Appending two elements.
LEMMA AppendTwo ==
  ASSUME NEW S, NEW s \in Seq(S), NEW a \in S, NEW b \in S
  PROVE  Extended(S, s, Len(s), a, b, s \o <<a, b>>)
BY DEF Extended

\* What the Finished of a flight is over.
Over(pol, p, types, h) == h \o Hashed(p, types, FALSE) = Transcript(pol, p)

\* A Finished over the transcript that the dialogue has at its place is the last
\* message of the dialogue.
LEMMA FinalItems ==
  ASSUME NEW pol, NEW p, NEW out, NEW types, NEW l, Comes(pol, p, out, types, l),
         out + l = Final(pol, p), NEW h, Over(pol, p, types, h)
  PROVE  Flight(p, types, TRUE, h) = Messages(p, types) \o <<CCSItem, Item(pol, p, Final(pol, p))>>
<1>1. TypeOf(pol, p, Final(pol, p)) = "Finished"
  BY DEF TypeOf
<1>2. Item(pol, p, Final(pol, p)) =
        [type |-> "Finished", seq |-> Final(pol, p), epoch |-> 1, body |-> Transcript(pol, p)]
  BY <1>1 DEF Item
<1>3. io[p].out + Len(types) = Final(pol, p) /\ chan[p].write = 0
  BY DEF Comes
<1>4. chan[p].write + 1 = 1
  BY <1>3
<1>5. [type |-> "Finished", seq |-> io[p].out + Len(types), epoch |-> chan[p].write + 1,
       body |-> h \o Hashed(p, types, FALSE)] = Item(pol, p, Final(pol, p))
  BY <1>2, <1>3, <1>4 DEF Over
<1>6. [type |-> CCS, seq |-> 0, epoch |-> chan[p].write, body |-> <<>>] = CCSItem
  BY <1>3 DEF CCSItem
<1> QED
  BY <1>5, <1>6 DEF Flight, Messages

\* A flight with ChangeCipherSpec and Finished ends what p says.
LEMMA FinalFlight ==
  ASSUME NEW pol, NEW p, NEW out, NEW types, NEW l, Comes(pol, p, out, types, l),
         out + l = Final(pol, p), NEW h, Over(pol, p, types, h)
  PROVE  Continues(pol, p, out, Final(pol, p) + 1, Flight(p, types, TRUE, h))
<1>1. l \in Nat /\ out \in Nat /\ pol \in Policy
  BY DEF Comes
<1>2. PICK f \in Nat : f = Final(pol, p)
  BY <1>1, PolicyFacts
<1>3. PICK n \in Nat : n = f + 1
  OBVIOUS
<1>4. n = out + l + 1 /\ n > out /\ n - out = l + 1 /\ n - out + 1 = l + 2 /\ ~(n <= f) /\ n > f /\ f \in 0..(n - 1)
  BY <1>1, <1>2, <1>3
<1>5. PICK msgs : msgs = Messages(p, types)
  OBVIOUS
<1>6. /\ msgs \in Seq(ItemsOf(pol, p, f)) /\ Len(msgs) = l
      /\ \A k \in 1..l : msgs[k] = Item(pol, p, out + k - 1) /\ msgs[k].type # CCS
  BY <1>2, <1>5, MessagesFacts DEF AreMessages
<1>7. PICK final : final = Item(pol, p, f)
  OBVIOUS
<1>8. PICK items : items = msgs \o <<CCSItem, final>>
  OBVIOUS
<1>9. Flight(p, types, TRUE, h) = items
  BY <1>2, <1>5, <1>7, <1>8, FinalItems
<1>10. final \in ItemsOf(pol, p, n) /\ CCSItem \in ItemsOf(pol, p, n)
  BY <1>2, <1>4, <1>7 DEF ItemsOf
<1>11. msgs \in Seq(ItemsOf(pol, p, n))
  <2>1. f <= n
    BY <1>3
  <2> QED
    BY <1>1, <1>6, <2>1, SentMore
<1>12. Extended(ItemsOf(pol, p, n), msgs, Len(msgs), CCSItem, final, items)
  BY <1>8, <1>10, <1>11, AppendTwo
<1>13. /\ items \in Seq(ItemsOf(pol, p, n)) /\ Len(items) = l + 2 /\ DOMAIN items = 1..(l + 2)
       /\ \A k \in 1..l : items[k] = msgs[k]
       /\ items[l + 1] = CCSItem /\ items[l + 2] = final
  BY <1>6, <1>12 DEF Extended
<1>14. {i \in DOMAIN items : IsMsg(items[i])} = (1..l) \cup {l + 2}
  <2>2. \A k \in 1..l : IsMsg(items[k])
    BY <1>6, <1>13 DEF IsMsg
  <2>3. ~IsMsg(items[l + 1]) /\ IsMsg(items[l + 2])
    <3>1. CCSItem.type = CCS /\ final.type # CCS
      BY <1>7, TypeFacts DEF CCSItem, Item
    <3> QED
      BY <1>13, <3>1 DEF IsMsg
  <2>4. \A k \in 1..(l + 2) : k \in 1..l \/ k = l + 1 \/ k = l + 2
    BY <1>1
  <2>5. (1..l) \cup {l + 2} \subseteq 1..(l + 2) /\ l + 1 \notin (1..l) \cup {l + 2}
    BY <1>1
  <2> QED
    BY <1>13, <2>2, <2>3, <2>4, <2>5
<1>15. Cardinality((1..l) \cup {l + 2}) = l + 1
  <2>1. IsFiniteSet(1..l) /\ Cardinality(1..l) = l
    BY <1>1, FS_Interval
  <2>2. l + 2 \notin 1..l
    BY <1>1
  <2>3. Cardinality((1..l) \cup {l + 2}) = Cardinality(1..l) + 1
    <3>1. PICK S : S = 1..l
      OBVIOUS
    <3>2. PICK e : e = l + 2
      OBVIOUS
    <3>3. Cardinality(S \cup {e}) = Cardinality(S) + 1
      BY <2>1, <2>2, <3>1, <3>2, FS_AddElement
    <3> QED
      BY <3>1, <3>2, <3>3
  <2> QED
    BY <2>1, <2>3
<1>16. items # <<>>
  BY <1>1, <1>13
<1>17. ASSUME NEW k \in out..(n - 1), k < f
       PROVE  k - out + 1 \in 1..Len(items) /\ items[k - out + 1] = Item(pol, p, k)
  <2>1. k \in Int /\ out <= k /\ f = out + l
    BY <1>1, <1>2, <1>3
  <2>2. PICK j : j = k - out + 1
    OBVIOUS
  <2>3. j \in 1..l /\ j \in 1..(l + 2) /\ out + j - 1 = k
    BY <1>1, <1>17, <2>1, <2>2
  <2> QED
    BY <1>6, <1>13, <2>2, <2>3
<1> QED
  BY <1>2, <1>3, <1>4, <1>7, <1>9, <1>13, <1>14, <1>15, <1>16, <1>17 DEF Continues

\* The flights kept, the last of which may still be filled.
FlightsTyped(pol, p, q) ==
  /\ q.flights \in Seq(Seq(ItemsOf(pol, p, q.out))) /\ q.flights # <<>>
  /\ \A j \in 1..(Len(q.flights) - 1) : q.flights[j] # <<>>

\* What sending leaves alone.
SameInput(q, x) ==
  /\ DOMAIN x = DOMAIN q
  /\ x.in = q.in /\ x.messages = q.messages /\ x.ccs_epochs = q.ccs_epochs
  /\ x.retransmitted = q.retransmitted /\ x.client_hello = q.client_hello

\* Send: the flight is kept, and the messages of it are counted.
LEMMA SendFacts ==
  ASSUME NEW pol \in Policy, NEW p, NEW q, DOMAIN q = DOMAIN NewIO, q.out \in Nat, FlightsTyped(pol, p, q),
         NEW n, NEW items, Continues(pol, p, q.out, n, items), NEW x, x = Send(q, items), HasSent(pol, p, x)
  PROVE  /\ FlightsOk(pol, p, x) /\ x.out = n /\ SameInput(q, x)
         /\ x.awaiting_cookie = q.awaiting_cookie /\ x.recreating = q.recreating
<1>1. PICK d : d = Cardinality({i \in DOMAIN items : IsMsg(items[i])})
  OBVIOUS
<1>2. PICK f : f = [q.flights EXCEPT ![Len(q.flights)] = @ \o items]
  OBVIOUS
<1>3. x = [q EXCEPT !.flights = f, !.out = @ + d, !.last_write = TRUE, !.count = 0]
  BY <1>1, <1>2 DEF Send, NewIO
<1>4. /\ x.flights = f /\ x.out = q.out + d /\ x.last_write = TRUE /\ SameInput(q, x)
      /\ x.awaiting_cookie = q.awaiting_cookie /\ x.recreating = q.recreating
  BY <1>3 DEF NewIO, SameInput
<1>5. n \in Nat /\ n > q.out /\ d = n - q.out /\ items \in Seq(ItemsOf(pol, p, n)) /\ items # <<>>
  BY <1>1 DEF Continues
<1>6. x.out = n
  BY <1>4, <1>5
<1>7. q.flights \in Seq(Seq(ItemsOf(pol, p, n))) /\ q.flights # <<>>
  BY <1>5, SentMore DEF FlightsTyped
<1>8. PICK l \in Nat \ {0} : l = Len(q.flights)
  BY <1>7
<1>9. PICK e : e = q.flights[l] \o items
  OBVIOUS
<1>10. e \in Seq(ItemsOf(pol, p, n)) /\ e # <<>>
  <2>1. q.flights[l] \in Seq(ItemsOf(pol, p, n))
    BY <1>7, <1>8
  <2> QED
    BY <1>5, <1>9, <2>1
<1>11. f = [q.flights EXCEPT ![l] = e]
  BY <1>2, <1>8, <1>9
<1>12. f \in Seq(Seq(ItemsOf(pol, p, n))) /\ Len(f) = l /\ f[l] = e /\ \A j \in 1..(l - 1) : f[j] = q.flights[j]
  BY <1>7, <1>8, <1>10, <1>11
<1>13. \A j \in 1..(l - 1) : f[j] # <<>>
  BY <1>8, <1>12 DEF FlightsTyped
<1>14. f # <<>> /\ (l > 1 \/ f[1] # <<>>)
  BY <1>10, <1>12
<1>15. FlightsOk(pol, p, x)
  BY <1>4, <1>6, <1>12, <1>13, <1>14 DEF FlightsOk, HasSent
<1> QED
  BY <1>4, <1>6, <1>15

(* Taking a message.                                                       *)

-----------------------------------------------------------------------------
(* Taking a message: get_next_record().                                    *)

\* Message k of p is handed to its peer, whose handshake IO is x after it.
TookMessage(pol, p, q, n, m, x) ==
  /\ q.in \in 0..Final(pol, Peer(p)) /\ q.in < n
  /\ m = Item(pol, Peer(p), q.in) /\ m.type = TypeOf(pol, Peer(p), q.in) /\ m.seq = q.in
  /\ DOMAIN x = DOMAIN NewIO
  /\ x.in = q.in + 1 /\ x.out = q.out /\ FlightsTyped(pol, p, x)
  /\ HasSent(pol, p, q) => Len(x.flights) > 1 \/ x.flights[1] # <<>>
  /\ x.last_write => HasSent(pol, p, q)
  /\ ReceivedOk(pol, p, x, n)
  /\ x.recreating = FALSE /\ x.awaiting_cookie = FALSE
  /\ \A s \in x.client_hello : p = "server" /\ Part(pol, "client", 0, s) /\ ~Complete(s)

\* The ChangeCipherSpec is.
TookCCS(pol, p, c, q, n, m, x) ==
  /\ m = CCSItem /\ c.expecting = {CCS} /\ q.in = Final(pol, Peer(p)) /\ c.read = 0
  /\ SideOk(pol, p, c, x, n) /\ x.in = q.in /\ x.out = q.out /\ x.recreating = FALSE /\ n > Final(pol, Peer(p))

\* The server is handed the first ClientHello again.
TookAgain(pol, p, c, q, n, m, x) ==
  /\ p = "server" /\ pol.cookie /\ q.in = 1
  /\ m = Item(pol, "client", 0) /\ m.type = "ClientHello" /\ m.seq = 0
  /\ x.recreating = TRUE /\ ~HaveMoreData(x)
  /\ x.in = q.in /\ x.out = q.out /\ DOMAIN x = DOMAIN NewIO
  /\ \A y : y = [x EXCEPT !.recreating = FALSE] => SideOk(pol, p, c, y, n)

\* A message put together from its parts is the message that was sent.
LEMMA AsItemFacts ==
  ASSUME NEW pol, NEW p, NEW k, NEW s, Part(pol, p, k, s)
  PROVE  /\ AsItem(s) = Item(pol, p, k)
         /\ Item(pol, p, k).type = TypeOf(pol, p, k) /\ Item(pol, p, k).seq = k /\ s.seq = k
BY DEF Part, Frag, Item, AsItem

\* get_next_record() hands over the next message, the ChangeCipherSpec when it is
\* waited for and the Finished is next, or the first ClientHello once more; and
\* what it hands over is expected.
LEMMA TakeFacts ==
  ASSUME NEW pol \in Policy, NEW p \in Sides, NEW c, NEW q, NEW n \in Nat, SideOk(pol, p, c, q, n),
         c.state = "pending", NEW m \in NextRecord(q, CCS \in c.expecting),
         NEW x, x = AfterNext(ConcludeFlight(q), m)
  PROVE  \/ TookMessage(pol, p, q, n, m, x) /\ TypeOf(pol, Peer(p), q.in) \in c.expecting
         \/ TookCCS(pol, p, c, q, n, m, x)
         \/ TookAgain(pol, p, c, q, n, m, x) /\ "ClientHello" \in c.expecting
<1>1. PICK y : y = ConcludeFlight(q)
  OBVIOUS
<1>2. SameRest(q, y) /\ FlightsOk(pol, p, y)
  BY <1>1, ConcludeFacts DEF SideOk
<1>3. SideOk(pol, p, c, y, n) /\ (HaveMoreData(y) <=> HaveMoreData(q))
  BY <1>2, SameRestOk
<1>4. ChanOk(pol, p, c, q) /\ HelloOk(pol, p, q) /\ ReceivedOk(pol, p, q, n)
  BY DEF SideOk
<1>5. Final(pol, Peer(p)) \in Nat /\ Final(pol, Peer(p)) > 0
  BY PolicyFacts
<1>6. q.in \in 0..Final(pol, Peer(p)) /\ q.in \in Nat
  BY <1>4, <1>5 DEF ChanOk
<1>7. y.in = q.in /\ y.out = q.out /\ y.recreating = FALSE /\ DOMAIN y = DOMAIN NewIO
  BY <1>2, <1>4 DEF SameRest, HelloOk, SideOk
<1>8. CASE CCS \in c.expecting
  <2>1. q.in = Final(pol, Peer(p)) /\ c.read = 0 /\ c.expecting = {CCS}
    BY <1>4, <1>8 DEF ChanOk
  <2>2. PICK e : e \in q.ccs_epochs /\ m = [type |-> CCS, seq |-> 0, epoch |-> e, body |-> <<>>]
    <3>1. (CCS \in c.expecting) = TRUE
      BY <1>8
    <3>2. m \in NextRecord(q, TRUE)
      BY <3>1
    <3> QED
      BY <3>2 DEF NextRecord
  <2>3. e = 0 /\ n > Final(pol, Peer(p))
    BY <1>4, <2>2 DEF ReceivedOk
  <2>4. m = CCSItem
    BY <2>2, <2>3 DEF CCSItem
  <2>5. x = y
    BY <1>1, <2>2 DEF AfterNext
  <2> QED
    BY <1>3, <1>7, <2>1, <2>3, <2>4, <2>5 DEF TookCCS
<1>9. CASE CCS \notin c.expecting
  <2>1. TypeOf(pol, Peer(p), q.in) \in c.expecting
    BY <1>4, <1>9 DEF ChanOk
  <2>2. m \in NextRecord(q, FALSE)
    <3>1. (CCS \in c.expecting) = FALSE
      BY <1>9
    <3> QED
      BY <3>1
  <2>3. ASSUME NEW s \in q.client_hello, Complete(s), m = AsItem(s)
        PROVE  TookAgain(pol, p, c, q, n, m, x) /\ "ClientHello" \in c.expecting
    <3>1. p = "server" /\ Part(pol, "client", 0, s) /\ q.awaiting_cookie /\ NextInSequence(q) = {}
      BY <1>4, <2>3 DEF HelloOk
    <3>2. pol.cookie /\ q.in = 1
      BY <1>4, <3>1 DEF HelloOk
    <3>3. TypeOf(pol, "client", 0) = "ClientHello" /\ TypeOf(pol, "client", 1) = "ClientHello"
      BY <3>2, PolicyFacts DEF TypeOf
    <3>4. m = Item(pol, "client", 0) /\ m.type = "ClientHello" /\ m.seq = 0
      BY <2>3, <3>1, <3>3, AsItemFacts
    <3>5. "ClientHello" \in c.expecting
      BY <2>1, <3>1, <3>2, <3>3, SidesFacts
    <3>6. x = [y EXCEPT !.client_hello = {}, !.recreating = TRUE]
      <4>1. m.type # CCS
        BY <3>4 DEF CCS
      <4>2. m.seq < y.in
        BY <1>7, <3>2, <3>4
      <4> QED
        BY <1>1, <4>1, <4>2 DEF AfterNext
    <3>7. /\ x.recreating = TRUE /\ x.in = q.in /\ x.out = q.out /\ DOMAIN x = DOMAIN NewIO
          /\ x.client_hello = {} /\ x.messages = y.messages
      BY <1>7, <3>6 DEF NewIO
    <3>8. ~HaveMoreData(x)
      <4>1. x.messages = q.messages
        BY <1>2, <3>7 DEF SameRest
      <4>2. NextInSequence(x) = {}
        BY <3>1, <3>7, <4>1 DEF NextInSequence, SlotAt
      <4> QED
        BY <3>7, <4>2 DEF HaveMoreData
    <3>9. ASSUME NEW z, z = [x EXCEPT !.recreating = FALSE] PROVE SideOk(pol, p, c, z, n)
      <4>1. /\ z.recreating = FALSE /\ z.client_hello = {} /\ SamePlace(y, z)
            /\ z.messages = y.messages /\ z.ccs_epochs = y.ccs_epochs /\ z.retransmitted = y.retransmitted
        BY <1>7, <3>6, <3>9 DEF NewIO, SamePlace
      <4>2. ReceivedOk(pol, p, z, n)
        BY <1>3, <4>1 DEF SideOk, ReceivedOk, SamePlace
      <4> QED
        BY <1>3, <4>1, <4>2, SamePlaceOk
    <3> QED
      BY <3>1, <3>2, <3>4, <3>5, <3>7, <3>8, <3>9 DEF TookAgain
  <2>4. ASSUME NEW s \in NextInSequence(q), m = AsItem(s), \A t \in q.client_hello : ~Complete(t)
        PROVE  TookMessage(pol, p, q, n, m, x)
    <3>1. q.in \in DOMAIN q.messages /\ s = q.messages[q.in]
      BY DEF NextInSequence, SlotAt
    <3>2. q.in < n /\ Part(pol, Peer(p), q.in, s)
      BY <1>4, <3>1 DEF ReceivedOk
    <3>3. m = Item(pol, Peer(p), q.in) /\ m.type = TypeOf(pol, Peer(p), q.in) /\ m.seq = q.in /\ m.type # CCS
      BY <2>4, <3>2, AsItemFacts, TypeFacts
    <3>4. x = [y EXCEPT !.in = @ + 1, !.awaiting_cookie = @ /\ m.type # "ClientHello"]
      <4>1. ~(m.seq < y.in)
        BY <1>6, <1>7, <3>3
      <4> QED
        BY <1>1, <3>3, <4>1 DEF AfterNext
    <3>5. PICK a : a = (y.awaiting_cookie /\ m.type # "ClientHello")
      OBVIOUS
    <3>6. x = [y EXCEPT !.in = @ + 1, !.awaiting_cookie = a]
      BY <3>4, <3>5
    <3>7. /\ x.in = q.in + 1 /\ x.out = q.out /\ x.flights = y.flights /\ x.last_write = y.last_write
          /\ x.messages = y.messages /\ x.ccs_epochs = y.ccs_epochs /\ x.retransmitted = y.retransmitted
          /\ x.client_hello = y.client_hello /\ x.recreating = FALSE /\ x.awaiting_cookie = a
          /\ DOMAIN x = DOMAIN NewIO
      BY <1>7, <3>6 DEF NewIO
    <3>8. a = FALSE
      <4>1. ASSUME y.awaiting_cookie PROVE m.type = "ClientHello"
        <5>1. p = "server" /\ pol.cookie /\ q.in = 1
          BY <1>2, <1>4, <4>1 DEF SameRest, HelloOk
        <5>2. TypeOf(pol, "client", 1) = "ClientHello"
          BY <5>1, PolicyFacts DEF TypeOf
        <5>3. m.type = "ClientHello"
          BY <3>3, <5>1, <5>2, SidesFacts
        <5> QED
          BY <5>3
      <4>2. ~(y.awaiting_cookie /\ m.type # "ClientHello")
        BY <4>1
      <4> QED
        BY <3>5, <4>2
    <3>9. FlightsTyped(pol, p, x) /\ (HasSent(pol, p, y) => Len(x.flights) > 1 \/ x.flights[1] # <<>>)
      BY <1>2, <1>7, <3>7 DEF FlightsOk, FlightsTyped, HasSent
    <3>10. x.last_write => HasSent(pol, p, y)
      BY <1>2, <3>7 DEF FlightsOk, HasSent
    <3>11. HasSent(pol, p, y) <=> HasSent(pol, p, q)
      BY <1>7 DEF HasSent
    <3>12. ReceivedOk(pol, p, x, n)
      <4>1. x.in <= n
        BY <1>6, <3>2, <3>7
      <4> QED
        BY <1>3, <3>7, <4>1 DEF SideOk, ReceivedOk
    <3>13. \A t \in x.client_hello : p = "server" /\ Part(pol, "client", 0, t) /\ ~Complete(t)
      BY <1>2, <1>4, <2>4, <3>7 DEF SameRest, HelloOk
    <3> QED
      BY <1>6, <3>2, <3>3, <3>7, <3>8, <3>9, <3>10, <3>11, <3>12, <3>13 DEF TookMessage
  <2>5. CASE \E s \in q.client_hello : Complete(s)
    <3>1. PICK s \in q.client_hello : Complete(s) /\ m = AsItem(s)
      BY <2>2, <2>5 DEF NextRecord
    <3> QED
      BY <2>3, <3>1
  <2>6. CASE ~\E s \in q.client_hello : Complete(s)
    <3>1. PICK s \in NextInSequence(q) : m = AsItem(s)
      BY <2>2, <2>6 DEF NextRecord
    <3> QED
      BY <2>1, <2>4, <2>6, <3>1
  <2> QED
    BY <2>5, <2>6
<1> QED
  BY <1>8, <1>9

(* The course of the dialogue.                                             *)

-----------------------------------------------------------------------------
(* The course of the dialogue: types and transcripts.                      *)

\* Where each type of message of the server stands in the dialogue.
LEMMA ServerTypes ==
  ASSUME NEW pol \in Policy, NEW k \in 0..Final(pol, "server"), NEW t, t = TypeOf(pol, "server", k)
  PROVE  /\ t \in {"HelloVerifyRequest", "ServerHello", "ServerKeyExchange", "ServerHelloDone", "NewSessionTicket", "Finished"}
         /\ t = "HelloVerifyRequest" => pol.cookie /\ k = 0 /\ Cookies(pol) = 1
         /\ t = "ServerHello" => k = Cookies(pol)
         /\ t = "ServerKeyExchange" => ~pol.resume /\ k = Cookies(pol) + 1
         /\ t = "ServerHelloDone" => ~pol.resume /\ k = Cookies(pol) + 2
         /\ t = "NewSessionTicket" => pol.ticket /\ k = Cookies(pol) + (IF pol.resume THEN 1 ELSE 3)
         /\ t = "Finished" => k = Final(pol, "server")
<1>1. PICK a \in {0, 1} : a = Cookies(pol)
  BY PolicyFacts
<1>2. PICK b \in {0, 1} : b = Tickets(pol) /\ (pol.ticket <=> b = 1)
  BY PolicyFacts
<1>3. (pol.cookie <=> a = 1) /\ pol.resume \in BOOLEAN
  BY <1>1, PolicyFacts
<1>4. PICK f \in Nat : f = Final(pol, "server") /\ f = a + b + (IF pol.resume THEN 1 ELSE 3)
  BY <1>1, <1>2, PolicyFacts
<1>5. k \in Nat /\ k <= f
  BY <1>4
<1>6. t = IF k = f THEN "Finished" ELSE IF k < a THEN "HelloVerifyRequest" ELSE IF k = a THEN "ServerHello"
          ELSE IF pol.resume \/ k > a + 2 THEN "NewSessionTicket"
          ELSE IF k = a + 1 THEN "ServerKeyExchange" ELSE "ServerHelloDone"
  BY <1>1, <1>4 DEF TypeOf
<1>7. CASE k = f
  BY <1>1, <1>4, <1>6, <1>7
<1>8. CASE k # f /\ k < a
  BY <1>1, <1>3, <1>5, <1>6, <1>8
<1>9. CASE k # f /\ k = a
  BY <1>1, <1>5, <1>6, <1>9
<1>10. CASE k # f /\ k > a /\ pol.resume
  BY <1>1, <1>2, <1>4, <1>5, <1>6, <1>10
<1>11. CASE k # f /\ k > a /\ ~pol.resume
  BY <1>1, <1>2, <1>4, <1>5, <1>6, <1>11
<1> QED
  BY <1>1, <1>3, <1>5, <1>7, <1>8, <1>9, <1>10, <1>11

\* Where each type of message of the client does.
LEMMA ClientTypes ==
  ASSUME NEW pol \in Policy, NEW k \in 0..Final(pol, "client"), NEW t, t = TypeOf(pol, "client", k)
  PROVE  /\ t \in {"ClientHello", "ClientKeyExchange", "Finished"}
         /\ t = "ClientHello" => k <= Cookies(pol)
         /\ t = "ClientKeyExchange" => ~pol.resume /\ k = Cookies(pol) + 1
         /\ t = "Finished" => k = Final(pol, "client")
<1>1. PICK a \in {0, 1} : a = Cookies(pol)
  BY PolicyFacts
<1>4. PICK f \in Nat : f = Final(pol, "client") /\ f = a + (IF pol.resume THEN 1 ELSE 2)
  BY <1>1, PolicyFacts
<1>5. k \in Nat /\ k <= f
  BY <1>4
<1>6. t = IF k = f THEN "Finished" ELSE IF k <= a THEN "ClientHello" ELSE "ClientKeyExchange"
  BY <1>1, <1>4 DEF TypeOf
<1> QED
  BY <1>1, <1>4, <1>5, <1>6, PolicyFacts

\* The other way round.
LEMMA TypesAt ==
  ASSUME NEW pol \in Policy, NEW a, a = Cookies(pol)
  PROVE  /\ a \in {0, 1}
         /\ \A p : TypeOf(pol, p, Final(pol, p)) = "Finished"
         /\ \A k \in 0..a : TypeOf(pol, "client", k) = "ClientHello"
         /\ ~pol.resume => TypeOf(pol, "client", a + 1) = "ClientKeyExchange"
         /\ pol.cookie => TypeOf(pol, "server", 0) = "HelloVerifyRequest"
         /\ TypeOf(pol, "server", a) = "ServerHello"
         /\ ~pol.resume => TypeOf(pol, "server", a + 1) = "ServerKeyExchange" /\ TypeOf(pol, "server", a + 2) = "ServerHelloDone"
         /\ pol.ticket => TypeOf(pol, "server", a + (IF pol.resume THEN 1 ELSE 3)) = "NewSessionTicket"
<1>1. a \in {0, 1}
  BY PolicyFacts
<1>2. PICK b \in {0, 1} : b = Tickets(pol) /\ (pol.ticket <=> b = 1)
  BY PolicyFacts
<1>3. (pol.cookie <=> a = 1) /\ pol.resume \in BOOLEAN
  BY PolicyFacts
<1>4. PICK f \in Nat : f = Final(pol, "server") /\ f = a + b + (IF pol.resume THEN 1 ELSE 3)
  BY <1>1, <1>2, PolicyFacts
<1>5. PICK g \in Nat : g = Final(pol, "client") /\ g = a + (IF pol.resume THEN 1 ELSE 2)
  BY <1>1, PolicyFacts
<1>6. \A k : TypeOf(pol, "server", k) =
         IF k = f THEN "Finished" ELSE IF k < a THEN "HelloVerifyRequest" ELSE IF k = a THEN "ServerHello"
          ELSE IF pol.resume \/ k > a + 2 THEN "NewSessionTicket"
          ELSE IF k = a + 1 THEN "ServerKeyExchange" ELSE "ServerHelloDone"
  BY <1>1, <1>4 DEF TypeOf
<1>7. \A k : TypeOf(pol, "client", k) = IF k = g THEN "Finished" ELSE IF k <= a THEN "ClientHello" ELSE "ClientKeyExchange"
  BY <1>1, <1>5 DEF TypeOf
<1>8. \A p : TypeOf(pol, p, Final(pol, p)) = "Finished"
  BY DEF TypeOf
<1>9. \A k \in 0..a : TypeOf(pol, "client", k) = "ClientHello"
  BY <1>1, <1>5, <1>7
<1>10. ~pol.resume => TypeOf(pol, "client", a + 1) = "ClientKeyExchange"
  BY <1>1, <1>5, <1>7
<1>11. pol.cookie => TypeOf(pol, "server", 0) = "HelloVerifyRequest"
  BY <1>1, <1>2, <1>3, <1>4, <1>6
<1>12. TypeOf(pol, "server", a) = "ServerHello"
  BY <1>1, <1>2, <1>3, <1>4, <1>6
<1>13. ~pol.resume => TypeOf(pol, "server", a + 1) = "ServerKeyExchange" /\ TypeOf(pol, "server", a + 2) = "ServerHelloDone"
  <2> SUFFICES ASSUME ~pol.resume PROVE TypeOf(pol, "server", a + 1) = "ServerKeyExchange" /\ TypeOf(pol, "server", a + 2) = "ServerHelloDone"
    OBVIOUS
  <2>1. /\ a + 1 # f /\ ~(a + 1 < a) /\ a + 1 # a /\ ~(a + 1 > a + 2)
        /\ a + 2 # f /\ ~(a + 2 < a) /\ a + 2 # a /\ ~(a + 2 > a + 2) /\ a + 2 # a + 1
    BY <1>1, <1>2, <1>4
  <2> QED
    BY <1>6, <2>1
<1>14. pol.ticket => TypeOf(pol, "server", a + (IF pol.resume THEN 1 ELSE 3)) = "NewSessionTicket"
  BY <1>1, <1>2, <1>3, <1>4, <1>6
<1> QED
  BY <1>1, <1>8, <1>9, <1>10, <1>11, <1>12, <1>13, <1>14

\* Before a flight is answered the peer has sent nothing after it.
LEMMA NothingMore ==
  ASSUME NEW pol \in Policy, NEW p \in Sides, NEW i \in Nat, NEW j \in Nat, NEW n, NEW out,
         out = Reply(pol, p, i), j <= out, n = Reply(pol, Peer(p), j) \/ n = 0,
         \/ p = "client" /\ ~pol.resume /\ i = Cookies(pol) + 2
         \/ p = "server" /\ i <= Cookies(pol)
  PROVE  n <= i + 1
<1>1. PICK a \in {0, 1} : a = Cookies(pol)
  BY PolicyFacts
<1>2. PICK b \in {0, 1} : b = Tickets(pol)
  BY PolicyFacts
<1>3. PICK f \in Nat : f = Final(pol, "server") /\ f = a + b + (IF pol.resume THEN 1 ELSE 3)
  BY <1>1, <1>2, PolicyFacts
<1>4. PICK g \in Nat : g = Final(pol, "client") /\ g = a + (IF pol.resume THEN 1 ELSE 2)
  BY <1>1, PolicyFacts
<1>5. \A k : Reply(pol, "client", k) = IF k < a THEN 1 ELSE IF k <= (IF pol.resume THEN f ELSE a + 2) THEN a + 1 ELSE g + 1
  BY <1>1, <1>3, <1>4 DEF Reply
<1>6. \A k : Reply(pol, "server", k) = IF k <= a THEN k ELSE IF pol.resume \/ k > g THEN f + 1 ELSE a + 3
  BY <1>1, <1>3, <1>4 DEF Reply
<1>7. CASE p = "client" /\ ~pol.resume /\ i = a + 2
  <2>1. n = Reply(pol, "server", j) \/ n = 0
    BY <1>7, SidesFacts
  <2>2. out = a + 1
    BY <1>1, <1>5, <1>7
  <2>3. j <= a \/ j = a + 1
    BY <1>1, <2>2
  <2>4. ~(a + 1 <= a) /\ ~(a + 1 > g)
    BY <1>1, <1>4, <1>7
  <2>5. n <= a + 3
    BY <1>1, <1>6, <1>7, <2>1, <2>3, <2>4
  <2> QED
    BY <1>7, <2>5
<1>8. CASE p = "server" /\ i <= a
  <2>1. out = i /\ j <= i
    BY <1>6, <1>8
  <2>2. n = Reply(pol, "client", j) \/ n = 0
    BY <1>8, SidesFacts
  <2>3. CASE j < a
    BY <1>1, <1>5, <2>1, <2>2, <2>3
  <2>4. CASE ~(j < a)
    BY <1>1, <1>3, <1>5, <1>8, <2>1, <2>2, <2>4
  <2> QED
    BY <2>3, <2>4
<1> QED
  BY <1>1, <1>7, <1>8

(* The transcripts.                                                        *)

\* The entries of transcripts.
Entries == Types \X Nat

\* Concatenation with a short tuple is appending its elements.
LEMMA Appends ==
  ASSUME NEW S, NEW h \in Seq(S)
  PROVE  /\ h \o <<>> = h
         /\ \A a \in S : Append(h, a) \in Seq(S) /\ h \o <<a>> = Append(h, a)
         /\ \A a, b \in S : h \o <<a, b>> = Append(Append(h, a), b)
         /\ \A a, b, d \in S : h \o <<a, b, d>> = Append(Append(Append(h, a), b), d)
<1>1. h \o <<>> = h /\ \A a \in S : Append(h, a) \in Seq(S)
  OBVIOUS
<1>2. \A a \in S : h \o <<a>> = Append(h, a)
  OBVIOUS
<1>3. \A a, b \in S : h \o <<a, b>> = Append(Append(h, a), b)
  OBVIOUS
<1>4. \A a, b, d \in S : h \o <<a, b, d>> = Append(Append(Append(h, a), b), d)
  OBVIOUS
<1> QED
  BY <1>1, <1>2, <1>3, <1>4

\* A sequence of two elements is a pair.
LEMMA TupleOfTwo ==
  ASSUME NEW S, NEW s \in Seq(S), Len(s) = 2
  PROVE  s = <<s[1], s[2]>>
OBVIOUS

\* A sequence of three elements is a triple.
LEMMA TupleOfThree ==
  ASSUME NEW S, NEW s \in Seq(S), Len(s) = 3
  PROVE  s = <<s[1], s[2], s[3]>>
OBVIOUS

\* Appending to a tuple gives a longer tuple.
LEMMA AppendsTuple ==
  ASSUME NEW S, NEW a \in S, NEW b \in S, NEW f \in S
  PROVE  Append(<<a>>, f) = <<a, f>> /\ Append(<<a, b>>, f) = <<a, b, f>>
<1>1. Append(<<a>>, f) = <<a, f>>
  <2>1. PICK h \in Seq(S) : h = <<a>> /\ Len(h) = 1 /\ h[1] = a
    <3>1. <<a>> \in Seq(S) /\ Len(<<a>>) = 1 /\ <<a>>[1] = a
      OBVIOUS
    <3> QED
      BY <3>1
  <2>2. Append(h, f) \in Seq(S) /\ Len(Append(h, f)) = 2 /\ Append(h, f)[1] = a /\ Append(h, f)[2] = f
    BY <2>1
  <2>3. Append(h, f) = <<a, f>>
    BY <2>2, TupleOfTwo
  <2> QED
    BY <2>1, <2>3
<1>2. Append(<<a, b>>, f) = <<a, b, f>>
  <2>1. PICK h \in Seq(S) : h = <<a, b>> /\ Len(h) = 2 /\ h[1] = a /\ h[2] = b
    <3>1. <<a, b>> \in Seq(S) /\ Len(<<a, b>>) = 2 /\ <<a, b>>[1] = a /\ <<a, b>>[2] = b
      OBVIOUS
    <3> QED
      BY <3>1
  <2>2. Append(h, f) \in Seq(S) /\ Len(Append(h, f)) = 3 /\ Append(h, f)[1] = a /\ Append(h, f)[2] = b /\ Append(h, f)[3] = f
    BY <2>1
  <2>3. Append(h, f) = <<a, b, f>>
    BY <2>2, TupleOfThree
  <2> QED
    BY <2>1, <2>3
<1> QED
  BY <1>1, <1>2

\* What a flight adds to the transcript, with no message before the Finished,
LEMMA HashedNone ==
  ASSUME NEW p, io[p].out \in Nat
  PROVE  Hashed(p, <<>>, FALSE) = <<>> /\ Hashed(p, <<>>, TRUE) = <<<<"Finished", io[p].out>>>>
<1>1. PICK out \in Nat : out = io[p].out
  OBVIOUS
<1>2. PICK f : f = "Finished"
  OBVIOUS
<1>3. Append(<<>>, f) = <<f>> /\ out + 1 - 1 = out
  OBVIOUS
<1>4. [k \in DOMAIN <<f>> |-> <<(<<f>>)[k], out + k - 1>>] = <<<<f, out>>>>
  BY <1>3
<1>5. Hashed(p, <<>>, TRUE) = <<<<f, out>>>>
  BY <1>1, <1>2, <1>3, <1>4 DEF Hashed
<1>6. Hashed(p, <<>>, FALSE) = <<>>
  BY DEF Hashed
<1> QED
  BY <1>1, <1>2, <1>5, <1>6

\* with one,
LEMMA HashedOne ==
  ASSUME NEW p, io[p].out \in Nat, NEW a
  PROVE  /\ Hashed(p, <<a>>, FALSE) = <<<<a, io[p].out>>>>
         /\ Hashed(p, <<a>>, TRUE) = <<<<a, io[p].out>>, <<"Finished", io[p].out + 1>>>>
<1>1. PICK out \in Nat : out = io[p].out
  OBVIOUS
<1>2. out + 1 - 1 = out /\ out + 2 - 1 = out + 1
  OBVIOUS
<1>3. PICK f : f = "Finished"
  OBVIOUS
<1>4. Append(<<a>>, f) = <<a, f>>
  <2>1. a \in {a, f} /\ f \in {a, f}
    OBVIOUS
  <2> QED
    BY <2>1, AppendsTuple
<1>5. [k \in DOMAIN <<a>> |-> <<(<<a>>)[k], out + k - 1>>] = <<<<a, out>>>>
  BY <1>2
<1>6. [k \in DOMAIN <<a, f>> |-> <<(<<a, f>>)[k], out + k - 1>>] = <<<<a, out>>, <<f, out + 1>>>>
  BY <1>2
<1>7. Hashed(p, <<a>>, FALSE) = <<<<a, out>>>>
  BY <1>1, <1>5 DEF Hashed
<1>8. Hashed(p, <<a>>, TRUE) = <<<<a, out>>, <<f, out + 1>>>>
  BY <1>1, <1>3, <1>4, <1>6 DEF Hashed
<1> QED
  BY <1>1, <1>3, <1>7, <1>8

\* with two,
LEMMA HashedTwo ==
  ASSUME NEW p, io[p].out \in Nat, NEW a, NEW b
  PROVE  /\ Hashed(p, <<a, b>>, FALSE) = <<<<a, io[p].out>>, <<b, io[p].out + 1>>>>
         /\ Hashed(p, <<a, b>>, TRUE) = <<<<a, io[p].out>>, <<b, io[p].out + 1>>, <<"Finished", io[p].out + 2>>>>
<1>1. PICK out \in Nat : out = io[p].out
  OBVIOUS
<1>2. out + 1 - 1 = out /\ out + 2 - 1 = out + 1 /\ out + 3 - 1 = out + 2
  OBVIOUS
<1>3. PICK f : f = "Finished"
  OBVIOUS
<1>4. Append(<<a, b>>, f) = <<a, b, f>>
  <2>1. a \in {a, b, f} /\ b \in {a, b, f} /\ f \in {a, b, f}
    OBVIOUS
  <2> QED
    BY <2>1, AppendsTuple
<1>5. [k \in DOMAIN <<a, b>> |-> <<(<<a, b>>)[k], out + k - 1>>] = <<<<a, out>>, <<b, out + 1>>>>
  BY <1>2
<1>6. [k \in DOMAIN <<a, b, f>> |-> <<(<<a, b, f>>)[k], out + k - 1>>] = <<<<a, out>>, <<b, out + 1>>, <<f, out + 2>>>>
  BY <1>2
<1>7. Hashed(p, <<a, b>>, FALSE) = <<<<a, out>>, <<b, out + 1>>>>
  BY <1>1, <1>5 DEF Hashed
<1>8. Hashed(p, <<a, b>>, TRUE) = <<<<a, out>>, <<b, out + 1>>, <<f, out + 2>>>>
  BY <1>1, <1>3, <1>4, <1>6 DEF Hashed
<1> QED
  BY <1>1, <1>3, <1>7, <1>8

\* and with three and no Finished.
LEMMA HashedThree ==
  ASSUME NEW p, io[p].out \in Nat, NEW a, NEW b, NEW d
  PROVE  Hashed(p, <<a, b, d>>, FALSE) = <<<<a, io[p].out>>, <<b, io[p].out + 1>>, <<d, io[p].out + 2>>>>
<1>1. PICK out \in Nat : out = io[p].out
  OBVIOUS
<1>2. out + 1 - 1 = out /\ out + 2 - 1 = out + 1 /\ out + 3 - 1 = out + 2
  OBVIOUS
<1>3. [k \in DOMAIN <<a, b, d>> |-> <<(<<a, b, d>>)[k], out + k - 1>>] = <<<<a, out>>, <<b, out + 1>>, <<d, out + 2>>>>
  BY <1>2
<1> QED
  BY <1>1, <1>3 DEF Hashed

\* Transcripts are sequences of entries.
LEMMA TranscriptsTyped ==
  ASSUME NEW pol \in Policy
  PROVE  /\ \A p : Transcript(pol, p) \in Seq(Entries)
         /\ \A p, i : HashOf(pol, p, i) \in Seq(Entries)
         /\ Hello(pol) \in Seq(Entries) /\ Answered(pol) \in Seq(Entries)
<1>1. \A p, k : TypeOf(pol, p, k) \in Types
  BY DEF TypeOf, Types
<1>2. ASSUME NEW h \in Seq(Entries), NEW p, NEW k \in Nat PROVE Add(pol, h, p, k) \in Seq(Entries)
  <2>1. <<TypeOf(pol, p, k), k>> \in Entries
    BY <1>1 DEF Entries
  <2> QED
    BY <2>1 DEF Add
<1>3. Cookies(pol) \in Nat /\ Cookies(pol) + 1 \in Nat /\ Cookies(pol) + 2 \in Nat /\ Cookies(pol) + 3 \in Nat
  BY PolicyFacts
<1>4. Final(pol, "server") \in Nat
  BY PolicyFacts
<1>5. Hello(pol) \in Seq(Entries) /\ <<>> \in Seq(Entries) /\ <<<<"ClientHello", 0>>>> \in Seq(Entries)
  <2>1. <<"ClientHello", Cookies(pol)>> \in Entries /\ <<"ClientHello", 0>> \in Entries
    BY <1>3 DEF Entries, Types
  <2> QED
    BY <2>1 DEF Hello
<1>6. Answered(pol) \in Seq(Entries) /\ Keyed(pol) \in Seq(Entries) /\ Asked(pol) \in Seq(Entries)
  BY <1>2, <1>3, <1>5 DEF Answered, Keyed, Asked
<1>7. FullClient(pol) \in Seq(Entries) /\ FullTurn(pol) \in Seq(Entries) /\ FullServer(pol) \in Seq(Entries)
  BY <1>2, <1>3, <1>6 DEF FullClient, FullTurn, FullServer
<1>8. ShortServer(pol) \in Seq(Entries) /\ ShortClient(pol) \in Seq(Entries)
  BY <1>2, <1>3, <1>4, <1>6 DEF ShortServer, ShortClient
<1>9. \A p : Transcript(pol, p) \in Seq(Entries)
  BY <1>7, <1>8 DEF Transcript
<1> QED
  BY <1>5, <1>6, <1>7, <1>9 DEF HashOf

\* The transcript of a side, message by message: up to the ServerHello,
LEMMA HashTable ==
  ASSUME NEW pol \in Policy, NEW a, a = Cookies(pol)
  PROVE  /\ HashOf(pol, "client", 0) = <<<<"ClientHello", 0>>>>
         /\ HashOf(pol, "client", a) = Hello(pol) /\ Hello(pol) = <<<<"ClientHello", a>>>>
         /\ HashOf(pol, "client", a + 1) = Append(Hello(pol), <<"ServerHello", a>>)
         /\ Answered(pol) = Append(Hello(pol), <<"ServerHello", a>>)
         /\ \A p \in Sides : HashOf(pol, p, Final(pol, Peer(p))) = Transcript(pol, Peer(p))
         /\ \A i \in 0..a : HashOf(pol, "server", i) = <<>>
<1>1. a \in {0, 1}
  BY PolicyFacts
<1>2. Final(pol, "server") \in Nat /\ Final(pol, "server") > a /\ Final(pol, "client") \in Nat /\ Final(pol, "client") > a
  BY <1>1, PolicyFacts
<1>3. Final(pol, "server") = a + 1 => pol.resume /\ ~pol.ticket
  BY <1>1, PolicyFacts
<1>4. HashOf(pol, "client", a) = Hello(pol) /\ Hello(pol) = <<<<"ClientHello", a>>>>
  BY <1>1 DEF HashOf, Hello
<1>5. HashOf(pol, "client", 0) = <<<<"ClientHello", 0>>>>
  BY <1>1 DEF HashOf, Hello
<1>6. Answered(pol) = Append(Hello(pol), <<"ServerHello", a>>)
  BY TypesAt DEF Answered, Add
<1>7. HashOf(pol, "client", a + 1) = Answered(pol)
  <2>1. ~(a + 1 < a) /\ a + 1 # a
    BY <1>1
  <2>2. CASE a + 1 = Final(pol, "server")
    <3>1. pol.resume /\ ~pol.ticket
      BY <1>3, <2>2
    <3> QED
      BY <2>1, <2>2, <3>1 DEF HashOf, Transcript, ShortServer
  <2>3. CASE a + 1 # Final(pol, "server")
    BY <2>1, <2>3 DEF HashOf
  <2> QED
    BY <2>2, <2>3
<1>8. HashOf(pol, "client", Final(pol, "server")) = Transcript(pol, "server")
  BY <1>1, <1>2 DEF HashOf
<1>9. HashOf(pol, "server", Final(pol, "client")) = Transcript(pol, "client")
  BY <1>1, <1>2 DEF HashOf
<1>10. \A i \in 0..a : HashOf(pol, "server", i) = <<>>
  BY <1>1 DEF HashOf
<1> QED
  BY <1>4, <1>5, <1>6, <1>7, <1>8, <1>9, <1>10, SidesFacts

\* in a full handshake,
LEMMA FullHashTable ==
  ASSUME NEW pol \in Policy, NEW a, a = Cookies(pol), ~pol.resume
  PROVE  /\ HashOf(pol, "client", a + 2) = Append(HashOf(pol, "client", a + 1), <<"ServerKeyExchange", a + 1>>)
         /\ Transcript(pol, "client") = Append(Append(HashOf(pol, "client", a + 2), <<"ServerHelloDone", a + 2>>),
                                               <<"ClientKeyExchange", a + 1>>)
         /\ HashOf(pol, "client", a + 3) = Append(Transcript(pol, "client"), <<"Finished", a + 2>>)
         /\ pol.ticket => HashOf(pol, "client", a + 4) = Append(HashOf(pol, "client", a + 3), <<"NewSessionTicket", a + 3>>)
         /\ HashOf(pol, "server", a + 1) =
              Append(Append(Append(Hello(pol), <<"ServerHello", a>>), <<"ServerKeyExchange", a + 1>>),
                     <<"ServerHelloDone", a + 2>>)
         /\ HashOf(pol, "server", a + 2) = Append(HashOf(pol, "server", a + 1), <<"ClientKeyExchange", a + 1>>)
         /\ Transcript(pol, "server") =
              IF pol.ticket THEN Append(Append(Transcript(pol, "client"), <<"Finished", a + 2>>), <<"NewSessionTicket", a + 3>>)
              ELSE Append(Transcript(pol, "client"), <<"Finished", a + 2>>)
<1>1. a \in {0, 1}
  BY PolicyFacts
<1>2. Final(pol, "client") = a + 2 /\ Final(pol, "server") = IF pol.ticket THEN a + 4 ELSE a + 3
  BY <1>1, PolicyFacts
<1>3. /\ Keyed(pol) = Append(Answered(pol), <<"ServerKeyExchange", a + 1>>)
      /\ Asked(pol) = Append(Keyed(pol), <<"ServerHelloDone", a + 2>>)
      /\ FullClient(pol) = Append(Asked(pol), <<"ClientKeyExchange", a + 1>>)
  BY TypesAt DEF Keyed, Asked, FullClient, Add
<1>4. FullTurn(pol) = Append(FullClient(pol), <<"Finished", a + 2>>)
  <2>1. TypeOf(pol, "client", a + 2) = "Finished"
    BY <1>2, TypesAt
  <2> QED
    BY <2>1 DEF FullTurn, Add
<1>5. FullServer(pol) = IF pol.ticket THEN Append(FullTurn(pol), <<"NewSessionTicket", a + 3>>) ELSE FullTurn(pol)
  <2>1. pol.ticket => TypeOf(pol, "server", a + 3) = "NewSessionTicket"
    BY TypesAt
  <2> QED
    BY <2>1 DEF FullServer, Add
<1>6. Transcript(pol, "client") = FullClient(pol) /\ Transcript(pol, "server") = FullServer(pol)
  BY DEF Transcript
<1>7. HashOf(pol, "client", a + 1) = Answered(pol)
  BY HashTable
<1>8. HashOf(pol, "client", a + 2) = Keyed(pol)
  <2>1. ~(a + 2 < a) /\ a + 2 # a /\ a + 2 # Final(pol, "server") /\ a + 2 # a + 1
    BY <1>1, <1>2
  <2> QED
    BY <2>1 DEF HashOf
<1>9. HashOf(pol, "client", a + 3) = FullTurn(pol)
  <2>1. ~(a + 3 < a) /\ a + 3 # a /\ a + 3 # a + 1 /\ a + 3 # a + 2
    BY <1>1
  <2>2. CASE pol.ticket
    <3>1. a + 3 # Final(pol, "server")
      BY <1>1, <1>2, <2>2
    <3> QED
      BY <2>1, <3>1 DEF HashOf
  <2>3. CASE ~pol.ticket
    <3>1. a + 3 = Final(pol, "server")
      BY <1>2, <2>3
    <3> QED
      BY <1>5, <1>6, <2>1, <2>3, <3>1 DEF HashOf
  <2> QED
    BY <2>2, <2>3
<1>10. pol.ticket => HashOf(pol, "client", a + 4) = FullServer(pol)
  <2> SUFFICES ASSUME pol.ticket PROVE HashOf(pol, "client", a + 4) = FullServer(pol)
    OBVIOUS
  <2>1. a + 4 = Final(pol, "server")
    BY <1>2
  <2> QED
    BY <1>6, <2>1, HashTable, SidesFacts
<1>11. HashOf(pol, "server", a + 1) = Asked(pol)
  <2>1. ~(a + 1 <= a) /\ a + 1 # Final(pol, "client")
    BY <1>1, <1>2
  <2> QED
    BY <2>1 DEF HashOf
<1>12. HashOf(pol, "server", a + 2) = FullClient(pol)
  BY <1>2, <1>6, HashTable, SidesFacts
<1>13. Answered(pol) = Append(Hello(pol), <<"ServerHello", a>>)
  BY HashTable
<1> QED
  BY <1>3, <1>4, <1>5, <1>6, <1>7, <1>8, <1>9, <1>10, <1>11, <1>12, <1>13

\* and in an abbreviated one.
LEMMA ShortHashTable ==
  ASSUME NEW pol \in Policy, NEW a, a = Cookies(pol), pol.resume
  PROVE  /\ pol.ticket => HashOf(pol, "client", a + 2) = Append(HashOf(pol, "client", a + 1), <<"NewSessionTicket", a + 1>>)
         /\ Transcript(pol, "server") =
              IF pol.ticket THEN Append(Append(Hello(pol), <<"ServerHello", a>>), <<"NewSessionTicket", a + 1>>)
              ELSE Append(Hello(pol), <<"ServerHello", a>>)
         /\ Transcript(pol, "client") = Append(Transcript(pol, "server"), <<"Finished", Final(pol, "server")>>)
         /\ HashOf(pol, "server", a + 1) = Transcript(pol, "client")
<1>1. a \in {0, 1}
  BY PolicyFacts
<1>2. Final(pol, "client") = a + 1 /\ Final(pol, "server") = IF pol.ticket THEN a + 2 ELSE a + 1
  BY <1>1, PolicyFacts
<1>3. ShortServer(pol) = IF pol.ticket THEN Append(Answered(pol), <<"NewSessionTicket", a + 1>>) ELSE Answered(pol)
  <2>1. pol.ticket => TypeOf(pol, "server", a + 1) = "NewSessionTicket"
    BY TypesAt
  <2> QED
    BY <2>1 DEF ShortServer, Add
<1>4. ShortClient(pol) = Append(ShortServer(pol), <<"Finished", Final(pol, "server")>>)
  BY TypesAt DEF ShortClient, Add
<1>5. Transcript(pol, "server") = ShortServer(pol) /\ Transcript(pol, "client") = ShortClient(pol)
  BY DEF Transcript
<1>6. HashOf(pol, "server", a + 1) = Transcript(pol, "client")
  BY <1>2, HashTable, SidesFacts
<1>7. pol.ticket => HashOf(pol, "client", a + 2) = Transcript(pol, "server")
  BY <1>2, HashTable, SidesFacts
<1>8. HashOf(pol, "client", a + 1) = Answered(pol) /\ Answered(pol) = Append(Hello(pol), <<"ServerHello", a>>)
  BY HashTable
<1> QED
  BY <1>3, <1>4, <1>5, <1>6, <1>7, <1>8

(* Handling a message.                                                     *)

-----------------------------------------------------------------------------
(* What a handler does to the invariant.                                   *)

\* No answer is sent.
LEMMA MessageOk ==
  ASSUME NEW pol \in Policy, NEW p \in Sides, NEW q, NEW n \in Nat, NEW m, NEW x, TookMessage(pol, p, q, n, m, x),
         HasSent(pol, p, q), NEW c, ChanOk(pol, p, c, x)
  PROVE  SideOk(pol, p, c, x, n)
<1>1. x.in = q.in + 1 /\ x.out = q.out /\ q.in \in Nat /\ DOMAIN x = DOMAIN NewIO /\ ReceivedOk(pol, p, x, n)
  BY PolicyFacts DEF TookMessage
<1>2. HasSent(pol, p, x) /\ ~(p = "server" /\ pol.cookie /\ x.in = 1)
  BY <1>1, PolicyFacts DEF HasSent, Sides
<1>3. FlightsOk(pol, p, x)
  BY <1>2 DEF TookMessage, FlightsTyped, FlightsOk, HasSent
<1>4. HelloOk(pol, p, x)
  BY <1>2 DEF TookMessage, HelloOk
<1> QED
  BY <1>1, <1>3, <1>4 DEF SideOk

\* An answer is sent.
LEMMA ReplyOk ==
  ASSUME NEW pol \in Policy, NEW p \in Sides, NEW q, NEW n \in Nat, NEW m, NEW x, TookMessage(pol, p, q, n, m, x),
         q.out \in Nat, p = "server" => q.in >= Cookies(pol),
         NEW k, NEW items, Continues(pol, p, q.out, k, items), NEW y, y = Send(x, items),
         NEW c, NEW z, z.in = q.in + 1, z.out = k, ChanOk(pol, p, c, z)
  PROVE  SideOk(pol, p, c, y, n) /\ y.out = k
<1>1. x.in = q.in + 1 /\ x.out = q.out /\ q.in \in Nat /\ DOMAIN x = DOMAIN NewIO /\ ReceivedOk(pol, p, x, n)
  BY PolicyFacts DEF TookMessage
<1>2. p = "server" => x.in > Cookies(pol)
  BY <1>1, PolicyFacts
<1>3. PICK d : d = Cardinality({i \in DOMAIN items : IsMsg(items[i])})
  OBVIOUS
<1>4. y.in = x.in /\ y.out = q.out + d
  BY <1>1, <1>3 DEF Send, NewIO
<1>5. k \in Nat /\ k > q.out /\ d = k - q.out
  BY <1>3 DEF Continues
<1>6. y.out = k /\ y.out > 0
  BY <1>4, <1>5
<1>7. HasSent(pol, p, y)
  BY <1>2, <1>4, <1>6 DEF HasSent, Sides
<1>8. /\ FlightsOk(pol, p, y) /\ SameInput(x, y)
      /\ y.awaiting_cookie = x.awaiting_cookie /\ y.recreating = x.recreating
  BY <1>1, <1>7, SendFacts DEF TookMessage
<1>9. ReceivedOk(pol, p, y, n) /\ DOMAIN y = DOMAIN NewIO
  BY <1>1, <1>8 DEF SameInput, ReceivedOk
<1>10. ~(p = "server" /\ pol.cookie /\ y.in = 1)
  BY <1>1, <1>2, <1>4, PolicyFacts
<1>11. HelloOk(pol, p, y)
  BY <1>8, <1>10 DEF TookMessage, SameInput, HelloOk
<1>12. ChanOk(pol, p, c, y)
  <2>1. y.in = z.in /\ y.out = z.out
    BY <1>1, <1>4, <1>6
  <2> QED
    BY <2>1 DEF ChanOk
<1> QED
  BY <1>6, <1>8, <1>9, <1>11, <1>12 DEF SideOk

\* items are what p has said in this step.
Adds(p, items) ==
  \/ sent' = [sent EXCEPT ![p] = @ \o items]
  \/ \E v : items = <<v>> /\ sent' = [sent EXCEPT ![p] = Append(@, v)]
  \/ items = <<>> /\ sent' = [sent EXCEPT ![p] = @]

\* p says items, its peer nothing.
Says(p, items) ==
  /\ policy' = policy
  /\ Adds(p, items)
  /\ \A s \in Sides \ {p} : io'[s] = io[s] /\ chan'[s] = chan[s]
  /\ \/ items = <<>> /\ io'[p].out = io[p].out
     \/ Continues(policy, p, io[p].out, io'[p].out, items)

\* A side that is processing a message goes on to a place of the dialogue, and
\* says what is next in it.
LEMMA SpeaksKeeps ==
  ASSUME DialogueInv, NEW p \in Sides, working = {p}, NEW c, NEW y, NEW items,
         SideOk(policy, p, c, y, io[Peer(p)].out),
         (items = <<>> /\ y.out = io[p].out) \/ Continues(policy, p, io[p].out, y.out, items),
         io' = [io EXCEPT ![p] = y], chan' = [chan EXCEPT ![p] = c],
         IF items = <<>> THEN UNCHANGED net ELSE Put(Wire(p, Records(items))),
         Adds(p, items), UNCHANGED <<policy, failed>>,
         \/ working' = working /\ c.state = "pending"
         \/ working' = {} /\ c.state = "active"
  PROVE  DialogueInv' /\ Says(p, items) /\ io'[p] = y /\ chan'[p] = c
<1>1. SideSet(p, c, y)
  BY DEF SideSet, DialogueInv
<1>2. io'[p] = y /\ chan'[p] = c /\ \A s \in Sides \ {p} : io'[s] = io[s] /\ chan'[s] = chan[s]
  BY <1>1 DEF SideSet
<1>3. y.out >= io[p].out /\ y.out \in Nat
  <2>1. io[p].out \in Nat
    BY SideFacts
  <2>2. CASE y.out = io[p].out
    BY <2>1, <2>2
  <2>3. CASE Continues(policy, p, io[p].out, y.out, items)
    <3>1. y.out \in Nat /\ y.out > io[p].out
      BY <2>3 DEF Continues
    <3> QED
      BY <2>1, <3>1
  <2> QED
    BY <2>2, <2>3
<1>4. \A w \in DOMAIN net' : w \in DOMAIN net \/ (w.from = p /\ IsRecord(policy, p, y.out, w.rec))
  <2>1. CASE items = <<>>
    BY <2>1
  <2>2. CASE items # <<>>
    <3>1. items \in Seq(ItemsOf(policy, p, y.out))
      BY <2>2 DEF Continues
    <3> QED
      BY <1>3, <2>2, <3>1, PutSends, WireSends DEF Put
  <2> QED
    BY <2>1, <2>2
<1>5. working' \subseteq Sides /\ \A s \in working' : chan'[s].state = "pending"
  BY <1>2
<1>6. Settled'
  <2>1. CASE p = "server"
    BY <1>2, <2>1 DEF Settled
  <2>2. CASE p = "client"
    BY <1>2, <2>2, SettledKept DEF DialogueInv, Sides
  <2> QED
    BY <2>1, <2>2 DEF Sides
<1>7. DialogueInv'
  BY <1>1, <1>3, <1>4, <1>5, <1>6, SideSteps
<1>8. Says(p, items)
  BY <1>2 DEF Says
<1> QED
  BY <1>2, <1>7, <1>8

\* The handshake of p goes on, or ends.
LEMMA ProceedKeeps ==
  ASSUME DialogueInv, NEW p \in Sides, working = {p}, NEW c, NEW x, NEW items, Proceed(p, c, x, items), c.state = "pending",
         NEW y, y = IF items = <<>> THEN x ELSE Send(x, items),
         SideOk(policy, p, c, y, io[Peer(p)].out),
         (items = <<>> /\ y.out = io[p].out) \/ Continues(policy, p, io[p].out, y.out, items)
  PROVE  DialogueInv' /\ Says(p, items) /\ io'[p] = y /\ chan'[p] = c /\ failed' = failed
<1>1. /\ io' = [io EXCEPT ![p] = y] /\ chan' = [chan EXCEPT ![p] = c]
      /\ IF items = <<>> THEN UNCHANGED net ELSE Put(Wire(p, Records(items)))
      /\ Adds(p, items) /\ UNCHANGED <<policy, failed>> /\ working' = working
  BY DEF Proceed, Adds
<1> QED
  BY <1>1, SpeaksKeeps

\* The channel when the session is activated.
ActiveChannel(c) == [c EXCEPT !.state = "active", !.expecting = {}]

\* p is active and has said items.
Activated(p, d, y, items) ==
  DialogueInv' /\ Says(p, items) /\ io'[p].in = y.in /\ io'[p].out = y.out /\ chan'[p] = d /\ failed' = failed

\* activate_session() with the handshake at its end.
LEMMA ActivateKeeps ==
  ASSUME DialogueInv, NEW p \in Sides, working = {p}, NEW c, NEW x, NEW items, Activate(p, c, x, items),
         DOMAIN c = DOMAIN NewChannel,
         NEW y, y = IF items = <<>> THEN x ELSE Send(x, items),
         NEW d, d = ActiveChannel(c),
         SideOk(policy, p, d, y, io[Peer(p)].out),
         (items = <<>> /\ y.out = io[p].out) \/ Continues(policy, p, io[p].out, y.out, items)
  PROVE  Activated(p, d, y, items)
<1>1. PICK z : z = Finalize(y, SentTerminal(p))
  OBVIOUS
<1>2. /\ io' = [io EXCEPT ![p] = z] /\ chan' = [chan EXCEPT ![p] = d]
      /\ IF items = <<>> THEN UNCHANGED net ELSE Put(Wire(p, Records(items)))
      /\ Adds(p, items) /\ UNCHANGED <<policy, failed>> /\ working' = {}
  BY <1>1 DEF Activate, Adds, ActiveChannel
<1>3. PICK u : u = ConcludeFlight(y)
  OBVIOUS
<1>4. SameRest(y, u) /\ FlightsOk(policy, p, u) /\ DOMAIN u = DOMAIN NewIO
  BY <1>3, ConcludeFacts DEF SideOk, SameRest
<1>5. SameRest(u, z) /\ z.flights = u.flights
  BY <1>1, <1>3, <1>4 DEF Finalize, SameRest, NewIO
<1>6. SameRest(y, z) /\ FlightsOk(policy, p, z)
  BY <1>4, <1>5 DEF SameRest, FlightsOk
<1>7. SideOk(policy, p, d, z, io[Peer(p)].out)
  BY <1>6, SameRestOk
<1>8. d.state = "active" /\ z.out = y.out /\ z.in = y.in
  BY <1>6 DEF NewChannel, SameRest, ActiveChannel
<1>9. (items = <<>> /\ z.out = io[p].out) \/ Continues(policy, p, io[p].out, z.out, items)
  BY <1>8
<1>10. d.state = "active" /\ working' = {}
  BY <1>2, <1>8
<1>11. DialogueInv' /\ Says(p, items) /\ io'[p] = z /\ chan'[p] = d
  BY <1>2, <1>7, <1>9, <1>10, SpeaksKeeps
<1> QED
  BY <1>2, <1>8, <1>11 DEF Activated

\* p is processing message m of its peer, and its handshake IO is x.
Handling(p, m, x) ==
  /\ DialogueInv /\ p \in Sides /\ working = {p}
  /\ TookMessage(policy, p, io[p], io[Peer(p)].out, m, x)
  /\ m.type \in chan[p].expecting

\* p has been handed it, and may have answered.
Handled(p) ==
  /\ DialogueInv' /\ (\E items : Says(p, items))
  /\ io'[p].in = io[p].in + 1 /\ chan'[p].read = chan[p].read /\ failed' = failed

\* Where a side is that is processing a message.
LEMMA PlaceFacts ==
  ASSUME NEW p, NEW m, NEW x, Handling(p, m, x)
  PROVE  /\ policy \in Policy /\ p \in Sides
         /\ DOMAIN chan[p] = DOMAIN NewChannel /\ chan[p].state = "pending"
         /\ chan[p].hash = HashOf(policy, p, io[p].in)
         /\ chan[p].read = IF io[p].in = Final(policy, Peer(p)) THEN 1 ELSE 0
         /\ io[p].out = Reply(policy, p, io[p].in) /\ io[p].out \in Nat
         /\ chan[p].write = IF io[p].out > Final(policy, p) THEN 1 ELSE 0
         /\ io[p].in \in 0..Final(policy, Peer(p)) /\ io[p].in \in Nat
         /\ m = Item(policy, Peer(p), io[p].in) /\ m.type = TypeOf(policy, Peer(p), io[p].in) /\ m.seq = io[p].in
         /\ x.in = io[p].in + 1 /\ x.out = io[p].out
<1>1. DialogueInv /\ p \in Sides /\ chan[p].state = "pending"
  BY DEF Handling, DialogueInv
<1>2. ChanOk(policy, p, chan[p], io[p]) /\ policy \in Policy /\ io[p].out \in Nat
  BY <1>1, SideFacts
<1>3. Final(policy, Peer(p)) \in Nat
  BY <1>2, PolicyFacts
<1>4. /\ m = Item(policy, Peer(p), io[p].in) /\ m.type = TypeOf(policy, Peer(p), io[p].in) /\ m.seq = io[p].in
      /\ x.in = io[p].in + 1 /\ x.out = io[p].out /\ io[p].in \in 0..Final(policy, Peer(p))
  BY DEF Handling, TookMessage
<1>5. io[p].in \in Nat
  BY <1>3, <1>4
<1>6. m.type \in chan[p].expecting /\ m.type # CCS
  BY <1>4, TypeFacts DEF Handling
<1>7. CASE io[p].in = Final(policy, Peer(p))
  <2>1. chan[p].read # 0
    BY <1>1, <1>2, <1>6, <1>7 DEF ChanOk
  <2>2. chan[p].read = 1
    BY <1>2, <2>1 DEF ChanOk
  <2> QED
    BY <1>1, <1>2, <1>4, <1>5, <1>7, <2>2 DEF ChanOk
<1>8. CASE io[p].in # Final(policy, Peer(p))
  <2>1. ~(io[p].in >= Final(policy, Peer(p)))
    BY <1>3, <1>4, <1>5, <1>8
  <2>2. chan[p].read = 0
    BY <1>2, <2>1 DEF ChanOk
  <2> QED
    BY <1>1, <1>2, <1>4, <1>5, <1>8, <2>2 DEF ChanOk
<1> QED
  BY <1>7, <1>8

\* The channel of a handshake that goes on.
LEMMA ChanPlace ==
  ASSUME NEW pol \in Policy, NEW p \in Sides, NEW c, DOMAIN c = DOMAIN NewChannel, c.state = "pending",
         NEW z, z.in \in 0..Final(pol, Peer(p)), z.out = Reply(pol, p, z.in),
         c.write = (IF z.out > Final(pol, p) THEN 1 ELSE 0), c.read = 0, c.hash = HashOf(pol, p, z.in),
         IF z.in = Final(pol, Peer(p)) THEN c.expecting = {CCS}
         ELSE TypeOf(pol, Peer(p), z.in) \in c.expecting /\ CCS \notin c.expecting
  PROVE  ChanOk(pol, p, c, z)
<1>1. Final(pol, Peer(p)) \in Nat
  BY PolicyFacts
<1>2. z.in \in Nat /\ z.in <= Final(pol, Peer(p)) /\ z.in \in 0..(Final(pol, Peer(p)) + 1) /\ ~(z.in > Final(pol, Peer(p)))
  BY <1>1
<1> QED
  BY <1>2 DEF ChanOk

\* What comes at place i of the dialogue of p.
Awaits(pol, p, i, types) ==
  IF i = Final(pol, Peer(p)) THEN types = {CCS} ELSE TypeOf(pol, Peer(p), i) \in types /\ CCS \notin types

\* Message i of its peer is not answered by p, which then waits for types.
HearsAt(pol, p, i, types) ==
  /\ i < Final(pol, Peer(p)) /\ Reply(pol, p, i + 1) = Reply(pol, p, i)
  /\ HashOf(pol, p, i + 1) = Append(HashOf(pol, p, i), <<TypeOf(pol, Peer(p), i), i>>)
  /\ Awaits(pol, p, i + 1, types)

\* A handler that hashes its message, says nothing and waits for the next one.
LEMMA HearsOnly ==
  ASSUME NEW p, NEW m, NEW x, Handling(p, m, x), NEW types,
         Proceed(p, Expect(WithHash(chan[p], m), types), x, <<>>),
         HearsAt(policy, p, io[p].in, types), HasSent(policy, p, io[p])
  PROVE  Handled(p)
<1>0. PICK i : /\ i = io[p].in /\ i < Final(policy, Peer(p)) /\ Reply(policy, p, i + 1) = Reply(policy, p, i)
               /\ HashOf(policy, p, i + 1) = Append(HashOf(policy, p, i), <<TypeOf(policy, Peer(p), i), i>>)
               /\ Awaits(policy, p, i + 1, types)
  BY DEF HearsAt
<1>1. policy \in Policy /\ p \in Sides /\ i \in Nat /\ Final(policy, Peer(p)) \in Nat
  BY <1>0, PlaceFacts, PolicyFacts
<1>2. PICK c : c = Expect(WithHash(chan[p], m), types)
  OBVIOUS
<1>3. /\ DOMAIN c = DOMAIN NewChannel /\ c.state = "pending" /\ c.read = chan[p].read /\ c.write = chan[p].write
      /\ c.hash = Append(chan[p].hash, <<m.type, m.seq>>) /\ c.expecting = types
  BY <1>2, PlaceFacts DEF Expect, WithHash, NewChannel
<1>4. c.read = 0
  BY <1>0, <1>1, <1>3, PlaceFacts
<1>5. x.in = i + 1 /\ x.out = Reply(policy, p, i + 1) /\ x.out = io[p].out
  BY <1>0, PlaceFacts
<1>6. c.hash = HashOf(policy, p, x.in) /\ c.write = IF x.out > Final(policy, p) THEN 1 ELSE 0
  <2>1. c.hash = HashOf(policy, p, i + 1)
    BY <1>0, <1>3, PlaceFacts
  <2>2. c.write = IF io[p].out > Final(policy, p) THEN 1 ELSE 0
    BY <1>3, PlaceFacts
  <2> QED
    BY <1>5, <2>1, <2>2
<1>7. x.in \in 0..Final(policy, Peer(p))
  BY <1>0, <1>1, <1>5
<1>8. ChanOk(policy, p, c, x)
  BY <1>1, <1>3, <1>4, <1>5, <1>6, <1>7, <1>0, ChanPlace DEF Awaits
<1>9. SideOk(policy, p, c, x, io[Peer(p)].out)
  <2>1. io[Peer(p)].out \in Nat
    BY <1>1, SideFacts DEF Handling
  <2> QED
    BY <1>1, <1>8, <2>1, MessageOk DEF Handling
<1>10. x = IF <<>> = <<>> THEN x ELSE Send(x, <<>>)
  OBVIOUS
<1>11. DialogueInv' /\ Says(p, <<>>) /\ io'[p] = x /\ chan'[p] = c /\ failed' = failed
  BY <1>1, <1>2, <1>3, <1>5, <1>9, <1>10, ProceedKeeps DEF Handling
<1> QED
  BY <1>0, <1>3, <1>5, <1>11 DEF Handled

\* It is answered with items, and the channel of p becomes c.
RepliesAt(pol, p, i, out, c, items) ==
  /\ i < Final(pol, Peer(p)) /\ (p = "server" => i >= Cookies(pol))
  /\ Continues(pol, p, out, Reply(pol, p, i + 1), items)
  /\ DOMAIN c = DOMAIN NewChannel /\ c.state = "pending"
  /\ c.write = (IF Reply(pol, p, i + 1) > Final(pol, p) THEN 1 ELSE 0)
  /\ c.hash = HashOf(pol, p, i + 1) /\ Awaits(pol, p, i + 1, c.expecting)

\* A handler that answers with a flight.
LEMMA Replies ==
  ASSUME NEW p, NEW m, NEW x, Handling(p, m, x), NEW c, NEW items, Proceed(p, c, x, items),
         RepliesAt(policy, p, io[p].in, io[p].out, c, items), c.read = chan[p].read
  PROVE  Handled(p)
<1>0. PICK i, k : /\ i = io[p].in /\ i < Final(policy, Peer(p)) /\ (p = "server" => i >= Cookies(policy))
                  /\ k = Reply(policy, p, i + 1) /\ Continues(policy, p, io[p].out, k, items)
                  /\ DOMAIN c = DOMAIN NewChannel /\ c.state = "pending"
                  /\ c.write = (IF k > Final(policy, p) THEN 1 ELSE 0)
                  /\ c.hash = HashOf(policy, p, i + 1) /\ Awaits(policy, p, i + 1, c.expecting)
  BY DEF RepliesAt
<1>1. policy \in Policy /\ p \in Sides /\ i \in Nat /\ Final(policy, Peer(p)) \in Nat /\ io[p].out \in Nat
  BY <1>0, PlaceFacts, PolicyFacts
<1>2. PICK z : z = [in |-> i + 1, out |-> k]
  OBVIOUS
<1>3. z.in = i + 1 /\ z.out = k /\ z.in \in 0..Final(policy, Peer(p))
  BY <1>0, <1>1, <1>2
<1>4. c.read = 0
  BY <1>0, <1>1, PlaceFacts
<1>5. ChanOk(policy, p, c, z)
  BY <1>0, <1>1, <1>3, <1>4, ChanPlace DEF Awaits
<1>6. PICK y : y = Send(x, items)
  OBVIOUS
<1>7. io[Peer(p)].out \in Nat
  BY <1>0, <1>1, SideFacts DEF Handling
<1>8. SideOk(policy, p, c, y, io[Peer(p)].out) /\ y.out = k
  <2>1. PICK q : q = io[p]
    OBVIOUS
  <2>2. PICK n : n = io[Peer(p)].out
    OBVIOUS
  <2>3. /\ TookMessage(policy, p, q, n, m, x) /\ q.out \in Nat /\ (p = "server" => q.in >= Cookies(policy))
        /\ Continues(policy, p, q.out, k, items) /\ z.in = q.in + 1 /\ n \in Nat
    BY <1>0, <1>1, <1>3, <1>7, <2>1, <2>2 DEF Handling
  <2>4. /\ policy \in Policy /\ p \in Sides /\ n \in Nat
        /\ TookMessage(policy, p, q, n, m, x) /\ q.out \in Nat /\ (p = "server" => q.in >= Cookies(policy))
        /\ Continues(policy, p, q.out, k, items) /\ y = Send(x, items)
        /\ z.in = q.in + 1 /\ z.out = k /\ ChanOk(policy, p, c, z)
    BY <1>1, <1>3, <1>5, <1>6, <2>3
  <2>5. SideOk(policy, p, c, y, n) /\ y.out = k
    BY <2>4, ReplyOk
  <2> QED
    BY <1>0, <2>2, <2>5
<1>9. items # <<>>
  BY <1>0 DEF Continues
<1>10. DialogueInv' /\ Says(p, items) /\ io'[p] = y /\ chan'[p] = c /\ failed' = failed
  BY <1>0, <1>1, <1>6, <1>8, <1>9, ProceedKeeps DEF Handling
<1>11. y.in = i + 1
  BY <1>0, <1>6, PlaceFacts DEF Send, Handling, TookMessage, NewIO
<1> QED
  BY <1>0, <1>10, <1>11 DEF Handled

\* The channel of a side that sends messages and hashes them, then its Finished.
LEMMA SendHashFacts ==
  ASSUME NEW c, DOMAIN c = DOMAIN NewChannel, NEW p, NEW types
  PROVE  /\ DOMAIN SendHash(c, p, types, FALSE) = DOMAIN NewChannel
         /\ SendHash(c, p, types, FALSE).state = c.state /\ SendHash(c, p, types, FALSE).read = c.read
         /\ SendHash(c, p, types, FALSE).write = c.write /\ SendHash(c, p, types, FALSE).expecting = c.expecting
         /\ SendHash(c, p, types, FALSE).hash = c.hash \o Hashed(p, types, FALSE)
<1>1. PICK t : t = Hashed(p, types, FALSE)
  OBVIOUS
<1>2. PICK d : d = [c EXCEPT !.hash = c.hash \o t]
  OBVIOUS
<1>3. d = SendHash(c, p, types, FALSE)
  BY <1>1, <1>2 DEF SendHash
<1>4. /\ DOMAIN d = DOMAIN NewChannel /\ d.state = c.state /\ d.read = c.read /\ d.write = c.write
      /\ d.hash = c.hash \o t /\ d.expecting = c.expecting
  BY <1>2 DEF NewChannel
<1> QED
  BY <1>1, <1>3, <1>4

\* Its channel after its Finished.
FinishedChannel(c, p, types) == NextWrite(SendHash(c, p, types, TRUE))

\* d is channel c when it has sent messages of these types and its Finished.
Finishes(c, p, types, d) ==
  /\ DOMAIN d = DOMAIN NewChannel /\ d.state = c.state /\ d.read = c.read /\ d.expecting = c.expecting
  /\ d.write = 1 /\ d.hash = c.hash \o Hashed(p, types, TRUE)

\* The write side of the channel changes with it.
LEMMA FinishedChannelFacts ==
  ASSUME NEW c, DOMAIN c = DOMAIN NewChannel, c.write = 0, NEW p, NEW types
  PROVE  Finishes(c, p, types, FinishedChannel(c, p, types))
<1>1. PICK t : t = c.hash \o Hashed(p, types, TRUE)
  OBVIOUS
<1>2. PICK e : e = [c EXCEPT !.hash = t]
  OBVIOUS
<1>3. PICK d : d = [e EXCEPT !.write = e.write + 1]
  OBVIOUS
<1>4. e = SendHash(c, p, types, TRUE)
  BY <1>1, <1>2 DEF SendHash
<1>5. d = FinishedChannel(c, p, types)
  BY <1>3, <1>4 DEF FinishedChannel, NextWrite
<1>6. /\ DOMAIN e = DOMAIN NewChannel /\ e.state = c.state /\ e.read = c.read /\ e.expecting = c.expecting
      /\ e.write = 0 /\ e.hash = t
  BY <1>2 DEF NewChannel
<1>7. /\ DOMAIN d = DOMAIN NewChannel /\ d.state = c.state /\ d.read = c.read /\ d.expecting = c.expecting
      /\ d.write = 1 /\ d.hash = t
  BY <1>3, <1>6 DEF NewChannel
<1> QED
  BY <1>1, <1>5, <1>7 DEF Finishes

\* Expect changes what is expected only.
LEMMA ExpectFacts ==
  ASSUME NEW c, DOMAIN c = DOMAIN NewChannel, NEW exp
  PROVE  /\ DOMAIN Expect(c, exp) = DOMAIN NewChannel /\ Expect(c, exp).state = c.state /\ Expect(c, exp).read = c.read
         /\ Expect(c, exp).write = c.write /\ Expect(c, exp).hash = c.hash /\ Expect(c, exp).expecting = exp
BY DEF Expect, NewChannel

(* The messages of the server.                                             *)

\* The numbers that the course of the dialogue depends on.
Course(pol, a, f, g) ==
  /\ a \in {0, 1} /\ f \in Nat /\ g \in Nat
  /\ a = Cookies(pol) /\ f = Final(pol, "server") /\ g = Final(pol, "client")
  /\ pol.resume => g = a + 1 /\ f = IF pol.ticket THEN a + 2 ELSE a + 1
  /\ ~pol.resume => g = a + 2 /\ f = IF pol.ticket THEN a + 4 ELSE a + 3
  /\ \A i : Reply(pol, "client", i) = IF i < a THEN 1 ELSE IF i <= (IF pol.resume THEN f ELSE a + 2) THEN a + 1 ELSE g + 1
  /\ \A i : Reply(pol, "server", i) = IF i <= a THEN i ELSE IF pol.resume \/ i > g THEN f + 1 ELSE a + 3

\* What the policy says of them.
LEMMA CourseFacts ==
  ASSUME NEW pol \in Policy
  PROVE  Course(pol, Cookies(pol), Final(pol, "server"), Final(pol, "client"))
<1>1. PICK a \in {0, 1} : a = Cookies(pol)
  BY PolicyFacts
<1>2. PICK b \in {0, 1} : b = Tickets(pol) /\ (pol.ticket <=> b = 1)
  BY PolicyFacts
<1>3. PICK f \in Nat : f = Final(pol, "server") /\ f = a + b + (IF pol.resume THEN 1 ELSE 3)
  BY <1>1, <1>2, PolicyFacts
<1>4. PICK g \in Nat : g = Final(pol, "client") /\ g = a + (IF pol.resume THEN 1 ELSE 2)
  BY <1>1, PolicyFacts
<1>5. (pol.resume => g = a + 1 /\ f = IF pol.ticket THEN a + 2 ELSE a + 1)
      /\ (~pol.resume => g = a + 2 /\ f = IF pol.ticket THEN a + 4 ELSE a + 3)
  <2>1. CASE pol.resume
    BY <1>1, <1>2, <1>3, <1>4, <2>1
  <2>2. CASE ~pol.resume
    BY <1>1, <1>2, <1>3, <1>4, <2>2
  <2> QED
    BY <2>1, <2>2
<1>6. \A i : Reply(pol, "client", i) = IF i < a THEN 1 ELSE IF i <= (IF pol.resume THEN f ELSE a + 2) THEN a + 1 ELSE g + 1
  BY <1>1, <1>3, <1>4 DEF Reply
<1>7. \A i : Reply(pol, "server", i) = IF i <= a THEN i ELSE IF pol.resume \/ i > g THEN f + 1 ELSE a + 3
  BY <1>1, <1>3, <1>4 DEF Reply
<1> QED
  BY <1>1, <1>3, <1>4, <1>5, <1>6, <1>7 DEF Course

-----------------------------------------------------------------------------
(* The handlers of the client.                                             *)

\* The client is sent a cookie: it says hello again.
LEMMA HelloVerifyRequestKeeps ==
  ASSUME NEW m, NEW x, Handling("client", m, x), m.type = "HelloVerifyRequest", HelloVerifyRequest("client", m, x)
  PROVE  Handled("client")
<1>1. policy \in Policy /\ io["client"].in \in 0..Final(policy, "server")
  BY PlaceFacts, SidesFacts
<1>2. policy.cookie /\ io["client"].in = 0 /\ Cookies(policy) = 1
  BY <1>1, PlaceFacts, ServerTypes, SidesFacts
<1>3. PICK f, g : Course(policy, 1, f, g)
  BY <1>1, <1>2, CourseFacts
<1>4. /\ Reply(policy, "client", 0) = 1 /\ Reply(policy, "client", 1) = 2 /\ f > 1 /\ g >= 2
      /\ g = Final(policy, "client") /\ f = Final(policy, "server") /\ f \in Nat /\ g \in Nat
  BY <1>3 DEF Course
<1>5. io["client"].out = 1 /\ chan["client"].write = 0
  BY <1>2, <1>4, PlaceFacts
<1>6. Comes(policy, "client", 1, <<"ClientHello">>, 1)
  <2>1. TypeOf(policy, "client", 1) = "ClientHello"
    BY <1>1, <1>2, TypesAt
  <2>2. <<"ClientHello">> \in Seq(Types) /\ Len(<<"ClientHello">>) = 1
    BY DEF Types
  <2>3. \A k \in 1..1 : k = 1 /\ 1 + k - 1 = 1 /\ 1 < Final(policy, "client")
    BY <1>4
  <2> QED
    BY <1>1, <1>5, <2>1, <2>2, <2>3 DEF Comes
<1>7. PICK items : items = Flight("client", <<"ClientHello">>, FALSE, <<>>)
  OBVIOUS
<1>8. Continues(policy, "client", 1, 2, items)
  <2>1. 1 + 1 <= Final(policy, "client") /\ 1 > 0 /\ 1 + 1 = 2
    BY <1>4
  <2> QED
    BY <1>6, <1>7, <2>1, PlainFlight
<1>9. PICK c : c = [chan["client"] EXCEPT !.hash = Hashed("client", <<"ClientHello">>, FALSE),
                                           !.expecting = {"ServerHello", "HelloVerifyRequest"}]
  OBVIOUS
<1>10. Hashed("client", <<"ClientHello">>, FALSE) = <<<<"ClientHello", 1>>>>
  <2>1. io["client"].out \in Nat
    BY <1>5
  <2>2. Hashed("client", <<"ClientHello">>, FALSE) = <<<<"ClientHello", io["client"].out>>>>
    BY <2>1, HashedOne
  <2> QED
    BY <1>5, <2>2
<1>11. HashOf(policy, "client", 1) = <<<<"ClientHello", 1>>>>
  BY <1>1, <1>2, HashTable
<1>12. /\ DOMAIN c = DOMAIN NewChannel /\ c.state = "pending" /\ c.read = chan["client"].read /\ c.write = 0
       /\ c.hash = HashOf(policy, "client", 1) /\ c.expecting = {"ServerHello", "HelloVerifyRequest"}
  BY <1>5, <1>9, <1>10, <1>11, PlaceFacts DEF NewChannel
<1>13. Awaits(policy, "client", 1, c.expecting)
  <2>1. TypeOf(policy, "server", 1) = "ServerHello" /\ 1 # Final(policy, "server")
    BY <1>1, <1>2, <1>4, TypesAt
  <2> QED
    BY <1>12, <2>1, SidesFacts DEF Awaits, CCS
<1>14. Proceed("client", c, x, items)
  BY <1>7, <1>9 DEF HelloVerifyRequest
<1>15. io["client"].in + 1 = 1 /\ 0 < Final(policy, Peer("client")) /\ ~(2 > Final(policy, "client"))
  BY <1>2, <1>4, SidesFacts
<1>16. RepliesAt(policy, "client", io["client"].in, io["client"].out, c, items)
  BY <1>2, <1>4, <1>5, <1>8, <1>12, <1>13, <1>15 DEF RepliesAt
<1> QED
  BY <1>12, <1>14, <1>16, Replies

\* The client waits for the rest of the flight, or for the Finished.
LEMMA ServerHelloKeeps ==
  ASSUME NEW m, NEW x, Handling("client", m, x), m.type = "ServerHello", ServerHello("client", m, x)
  PROVE  Handled("client")
<1>1. policy \in Policy /\ io["client"].in \in 0..Final(policy, "server")
  BY PlaceFacts, SidesFacts
<1>2. PICK a, f, g : Course(policy, a, f, g)
  BY <1>1, CourseFacts
<1>3. /\ a = Cookies(policy) /\ a \in {0, 1} /\ f > a /\ f = Final(policy, "server") /\ f \in Nat
      /\ Reply(policy, "client", a) = a + 1 /\ Reply(policy, "client", a + 1) = a + 1
  BY <1>2 DEF Course
<1>4. io["client"].in = a
  BY <1>1, <1>3, PlaceFacts, ServerTypes, SidesFacts
<1>5. HasSent(policy, "client", io["client"])
  BY <1>3, <1>4, PlaceFacts DEF HasSent
<1>6. HashOf(policy, "client", a + 1) = Append(HashOf(policy, "client", a), <<TypeOf(policy, "server", a), a>>)
  BY <1>1, <1>3, HashTable, TypesAt
<1>7. PICK types : types = IF policy.resume THEN TicketOrCCS ELSE {"ServerKeyExchange", "ServerHelloDone"}
  OBVIOUS
<1>8. Awaits(policy, "client", a + 1, types)
  <2>1. CASE policy.resume /\ policy.ticket
    <3>1. a + 1 # f /\ TypeOf(policy, "server", a + 1) = "NewSessionTicket"
      BY <1>1, <1>2, <1>3, <2>1, TypesAt DEF Course
    <3> QED
      BY <1>3, <1>7, <2>1, <3>1, SidesFacts DEF Awaits, TicketOrCCS, CCS
  <2>2. CASE policy.resume /\ ~policy.ticket
    <3>1. a + 1 = f
      BY <1>2, <2>2 DEF Course
    <3> QED
      BY <1>3, <1>7, <2>2, <3>1, SidesFacts DEF Awaits, TicketOrCCS
  <2>3. CASE ~policy.resume
    <3>1. a + 1 # f /\ TypeOf(policy, "server", a + 1) = "ServerKeyExchange"
      BY <1>1, <1>2, <1>3, <2>3, TypesAt DEF Course
    <3> QED
      BY <1>3, <1>7, <2>3, <3>1, SidesFacts DEF Awaits, CCS
  <2> QED
    BY <2>1, <2>2, <2>3
<1>9. Proceed("client", Expect(WithHash(chan["client"], m), types), x, <<>>)
  BY <1>7 DEF ServerHello
<1>10. HearsAt(policy, "client", io["client"].in, types)
  BY <1>3, <1>4, <1>6, <1>8, SidesFacts DEF HearsAt
<1> QED
  BY <1>5, <1>9, <1>10, HearsOnly

\* The client waits for the end of the flight.
LEMMA ServerKeyExchangeKeeps ==
  ASSUME NEW m, NEW x, Handling("client", m, x), m.type = "ServerKeyExchange", ServerKeyExchange("client", m, x)
  PROVE  Handled("client")
<1>1. policy \in Policy /\ io["client"].in \in 0..Final(policy, "server")
  BY PlaceFacts, SidesFacts
<1>2. PICK a, f, g : Course(policy, a, f, g)
  BY <1>1, CourseFacts
<1>3. ~policy.resume /\ io["client"].in = a + 1 /\ a = Cookies(policy)
  BY <1>1, <1>2, PlaceFacts, ServerTypes, SidesFacts DEF Course
<1>4. /\ a \in {0, 1} /\ f > a + 2 /\ f = Final(policy, "server") /\ f \in Nat
      /\ Reply(policy, "client", a + 1) = a + 1 /\ Reply(policy, "client", a + 2) = a + 1
  BY <1>2, <1>3 DEF Course
<1>5. HasSent(policy, "client", io["client"])
  BY <1>3, <1>4, PlaceFacts DEF HasSent
<1>6. HashOf(policy, "client", a + 2) = Append(HashOf(policy, "client", a + 1), <<TypeOf(policy, "server", a + 1), a + 1>>)
  <2>1. HashOf(policy, "client", a + 2) = Append(HashOf(policy, "client", a + 1), <<"ServerKeyExchange", a + 1>>)
    BY <1>1, <1>3, FullHashTable
  <2>2. TypeOf(policy, "server", a + 1) = "ServerKeyExchange"
    BY <1>1, <1>3, TypesAt
  <2> QED
    BY <2>1, <2>2
<1>7. Awaits(policy, "client", a + 2, {"ServerHelloDone"})
  <2>1. a + 2 # f /\ TypeOf(policy, "server", a + 2) = "ServerHelloDone"
    BY <1>1, <1>3, <1>4, TypesAt
  <2> QED
    BY <1>4, <2>1, SidesFacts DEF Awaits, CCS
<1>8. Proceed("client", Expect(WithHash(chan["client"], m), {"ServerHelloDone"}), x, <<>>)
  BY DEF ServerKeyExchange
<1>9. a + 1 + 1 = a + 2 /\ a + 1 < f
  BY <1>4
<1>10. HearsAt(policy, "client", a + 1, {"ServerHelloDone"})
  BY <1>4, <1>6, <1>7, <1>9, SidesFacts DEF HearsAt
<1> QED
  BY <1>3, <1>5, <1>8, <1>10, HearsOnly

\* The client waits for the ChangeCipherSpec.
LEMMA NewSessionTicketKeeps ==
  ASSUME NEW m, NEW x, Handling("client", m, x), m.type = "NewSessionTicket", NewSessionTicket("client", m, x)
  PROVE  Handled("client")
<1>1. policy \in Policy /\ io["client"].in \in 0..Final(policy, "server")
  BY PlaceFacts, SidesFacts
<1>2. PICK a, f, g : Course(policy, a, f, g)
  BY <1>1, CourseFacts
<1>3. PICK i : i = a + (IF policy.resume THEN 1 ELSE 3)
  OBVIOUS
<1>4. policy.ticket /\ io["client"].in = i /\ a = Cookies(policy)
  BY <1>1, <1>2, <1>3, PlaceFacts, ServerTypes, SidesFacts DEF Course
<1>5. /\ a \in {0, 1} /\ f = Final(policy, "server") /\ f \in Nat /\ i \in Nat /\ i < f /\ i + 1 = f
      /\ Reply(policy, "client", i + 1) = Reply(policy, "client", i) /\ Reply(policy, "client", i) > 0
  BY <1>2, <1>3, <1>4 DEF Course
<1>6. HasSent(policy, "client", io["client"])
  BY <1>4, <1>5, PlaceFacts DEF HasSent
<1>7. HashOf(policy, "client", i + 1) = Append(HashOf(policy, "client", i), <<TypeOf(policy, "server", i), i>>)
  <2>1. TypeOf(policy, "server", i) = "NewSessionTicket"
    BY <1>1, <1>3, <1>4, TypesAt
  <2>2. CASE policy.resume
    <3>1. i = a + 1 /\ i + 1 = a + 2
      BY <1>3, <1>5, <2>2
    <3> QED
      BY <1>1, <1>4, <2>1, <2>2, <3>1, ShortHashTable
  <2>3. CASE ~policy.resume
    <3>1. i = a + 3 /\ i + 1 = a + 4
      BY <1>3, <1>5, <2>3
    <3>2. HashOf(policy, "client", a + 4) = Append(HashOf(policy, "client", a + 3), <<"NewSessionTicket", a + 3>>)
      BY <1>1, <1>4, <2>3, FullHashTable
    <3> QED
      BY <2>1, <3>1, <3>2
  <2> QED
    BY <2>2, <2>3
<1>8. Awaits(policy, "client", i + 1, {CCS})
  BY <1>5, SidesFacts DEF Awaits
<1>9. Proceed("client", Expect(WithHash(chan["client"], m), {CCS}), x, <<>>)
  BY DEF NewSessionTicket
<1>10. HearsAt(policy, "client", i, {CCS})
  BY <1>5, <1>7, <1>8, SidesFacts DEF HearsAt
<1> QED
  BY <1>4, <1>6, <1>9, <1>10, HearsOnly

\* No message follows before the flight is answered.
LEMMA NoMoreData ==
  ASSUME NEW p, NEW m, NEW x, Handling(p, m, x),
         \/ p = "client" /\ ~policy.resume /\ io[p].in = Cookies(policy) + 2
         \/ p = "server" /\ io[p].in <= Cookies(policy)
         \/ io[p].in = Final(policy, Peer(p))
  PROVE  ~HaveMoreData(x)
<1>1. policy \in Policy /\ p \in Sides /\ io[p].in \in Nat /\ io[p].out = Reply(policy, p, io[p].in) /\ x.in = io[p].in + 1
  BY PlaceFacts
<1>2. DialogueInv /\ Peer(p) \in Sides /\ Peer(Peer(p)) = p
  BY <1>1, SidesFacts DEF Handling
<1>3. PICK n \in Nat : n = io[Peer(p)].out
  BY <1>1, <1>2, SideFacts
<1>4. n <= io[p].in + 1
  <2>1. CASE io[p].in = Final(policy, Peer(p))
    BY <1>1, <1>2, <1>3, <2>1, SideFacts
  <2>2. CASE io[p].in # Final(policy, Peer(p))
    <3>1. PICK j \in Nat : j = io[Peer(p)].in /\ j <= io[p].out
      BY <1>2, SideFacts
    <3>2. n = Reply(policy, Peer(p), j) \/ n = 0
      <4>1. ChanOk(policy, Peer(p), chan[Peer(p)], io[Peer(p)])
        BY <1>2, SideFacts
      <4> QED
        BY <1>3, <3>1, <4>1 DEF ChanOk
    <3> QED
      BY <1>1, <2>2, <3>1, <3>2, NothingMore
  <2> QED
    BY <2>1, <2>2
<1>5. ReceivedOk(policy, p, x, n) /\ \A s \in x.client_hello : ~Complete(s)
  BY <1>3 DEF Handling, TookMessage
<1>6. x.in \notin DOMAIN x.messages
  BY <1>1, <1>3, <1>4, <1>5 DEF ReceivedOk
<1>7. NextInSequence(x) = {}
  BY <1>6 DEF NextInSequence, SlotAt
<1> QED
  BY <1>5, <1>7 DEF HaveMoreData

\* The client answers with its key exchange and its Finished.
LEMMA ServerHelloDoneKeeps ==
  ASSUME NEW m, NEW x, Handling("client", m, x), m.type = "ServerHelloDone", ServerHelloDone("client", m, x)
  PROVE  Handled("client")
<1>1. policy \in Policy /\ io["client"].in \in 0..Final(policy, "server")
  BY PlaceFacts, SidesFacts
<1>2. PICK a, f, g : Course(policy, a, f, g)
  BY <1>1, CourseFacts
<1>3. ~policy.resume /\ io["client"].in = a + 2 /\ a = Cookies(policy)
  BY <1>1, <1>2, PlaceFacts, ServerTypes, SidesFacts DEF Course
<1>4. /\ a \in {0, 1} /\ f > a + 2 /\ f = Final(policy, "server") /\ f \in Nat /\ g = a + 2 /\ g = Final(policy, "client")
      /\ Reply(policy, "client", a + 2) = a + 1 /\ Reply(policy, "client", a + 3) = g + 1
  BY <1>2, <1>3 DEF Course
<1>5. io["client"].out = a + 1 /\ chan["client"].write = 0 /\ io["client"].out \in Nat
  BY <1>3, <1>4, PlaceFacts
<1>6. PICK c : c = WithHash(chan["client"], m)
  OBVIOUS
<1>7. PICK h : h = Append(HashOf(policy, "client", a + 2), <<"ServerHelloDone", a + 2>>)
  OBVIOUS
<1>8. /\ DOMAIN c = DOMAIN NewChannel /\ c.state = "pending" /\ c.read = chan["client"].read /\ c.write = 0
      /\ c.hash = h
  BY <1>3, <1>5, <1>6, <1>7, PlaceFacts DEF WithHash, NewChannel
<1>9. h \in Seq(Entries) /\ <<"ClientKeyExchange", a + 1>> \in Entries /\ <<"Finished", a + 2>> \in Entries
  <2>1. <<"ServerHelloDone", a + 2>> \in Entries /\ <<"ClientKeyExchange", a + 1>> \in Entries /\ <<"Finished", a + 2>> \in Entries
    BY <1>4 DEF Entries, Types
  <2> QED
    BY <1>1, <1>7, <2>1, TranscriptsTyped, Appends
<1>23. PICK e1 \in Entries : e1 = <<"ClientKeyExchange", a + 1>>
  BY <1>9
<1>24. PICK e2 \in Entries : e2 = <<"Finished", a + 2>>
  BY <1>9
<1>10. Hashed("client", <<"ClientKeyExchange">>, FALSE) = <<e1>> /\ Hashed("client", <<"ClientKeyExchange">>, TRUE) = <<e1, e2>>
  <2>1. a + 1 + 1 = a + 2
    BY <1>4
  <2> QED
    BY <1>5, <1>23, <1>24, <2>1, HashedOne
<1>25. h \o <<e1>> = Append(h, e1) /\ h \o <<e1, e2>> = Append(Append(h, e1), e2)
  BY <1>9, Appends
<1>26. Transcript(policy, "client") = Append(h, e1)
  BY <1>1, <1>3, <1>7, <1>23, FullHashTable
<1>27. HashOf(policy, "client", a + 3) = Append(Transcript(policy, "client"), e2)
  BY <1>1, <1>3, <1>24, FullHashTable
<1>11. Over(policy, "client", <<"ClientKeyExchange">>, h)
  BY <1>10, <1>25, <1>26 DEF Over
<1>12. h \o Hashed("client", <<"ClientKeyExchange">>, TRUE) = HashOf(policy, "client", a + 3)
  BY <1>10, <1>25, <1>26, <1>27
<1>13. Comes(policy, "client", a + 1, <<"ClientKeyExchange">>, 1)
  <2>1. TypeOf(policy, "client", a + 1) = "ClientKeyExchange"
    BY <1>1, <1>3, TypesAt
  <2>2. <<"ClientKeyExchange">> \in Seq(Types) /\ Len(<<"ClientKeyExchange">>) = 1
    BY DEF Types
  <2>3. \A k \in 1..1 : k = 1 /\ a + 1 + k - 1 = a + 1 /\ a + 1 < Final(policy, "client")
    BY <1>4
  <2> QED
    BY <1>1, <1>4, <1>5, <2>1, <2>2, <2>3 DEF Comes
<1>14. PICK items : items = Flight("client", <<"ClientKeyExchange">>, TRUE, h)
  OBVIOUS
<1>15. Continues(policy, "client", a + 1, g + 1, items)
  <2>1. a + 1 + 1 = Final(policy, "client")
    BY <1>4
  <2> QED
    BY <1>4, <1>11, <1>13, <1>14, <2>1, FinalFlight
<1>28. PICK b : b = Expect(c, TicketOrCCS)
  OBVIOUS
<1>16. PICK d : d = FinishedChannel(b, "client", <<"ClientKeyExchange">>)
  OBVIOUS
<1>17. /\ DOMAIN d = DOMAIN NewChannel /\ d.state = "pending" /\ d.read = chan["client"].read /\ d.write = 1
       /\ d.hash = HashOf(policy, "client", a + 3) /\ d.expecting = TicketOrCCS
  <2>1. /\ DOMAIN b = DOMAIN NewChannel /\ b.state = c.state /\ b.read = c.read /\ b.write = 0 /\ b.hash = h
        /\ b.expecting = TicketOrCCS
    BY <1>8, <1>28, ExpectFacts
  <2>2. /\ DOMAIN d = DOMAIN NewChannel /\ d.state = b.state /\ d.read = b.read /\ d.expecting = b.expecting
        /\ d.write = 1 /\ d.hash = b.hash \o Hashed("client", <<"ClientKeyExchange">>, TRUE)
    <3>1. Finishes(b, "client", <<"ClientKeyExchange">>, d)
      BY <1>16, <2>1, FinishedChannelFacts
    <3> QED
      BY <3>1 DEF Finishes
  <2> QED
    BY <1>8, <1>12, <2>1, <2>2
<1>18. Awaits(policy, "client", a + 3, TicketOrCCS)
  <2>1. CASE policy.ticket
    <3>1. a + 3 # f /\ TypeOf(policy, "server", a + 3) = "NewSessionTicket"
      BY <1>1, <1>2, <1>3, <1>4, <2>1, TypesAt DEF Course
    <3> QED
      BY <1>4, <2>1, <3>1, SidesFacts DEF Awaits, TicketOrCCS, CCS
  <2>2. CASE ~policy.ticket
    <3>1. a + 3 = f
      BY <1>2, <1>3, <2>2 DEF Course
    <3> QED
      BY <1>4, <2>2, <3>1, SidesFacts DEF Awaits, TicketOrCCS
  <2> QED
    BY <2>1, <2>2
<1>19. ~HaveMoreData(x)
  BY <1>3, NoMoreData
<1>20. Proceed("client", d, x, items)
  BY <1>6, <1>8, <1>14, <1>16, <1>19, <1>28 DEF ServerHelloDone, FinishedChannel
<1>21. a + 2 + 1 = a + 3 /\ a + 2 < Final(policy, Peer("client")) /\ g + 1 > Final(policy, "client")
  BY <1>4, SidesFacts
<1>22. RepliesAt(policy, "client", a + 2, a + 1, d, items)
  BY <1>4, <1>15, <1>17, <1>18, <1>21 DEF RepliesAt
<1> QED
  BY <1>3, <1>5, <1>17, <1>20, <1>22, Replies

-----------------------------------------------------------------------------
(* The handlers of the server.                                             *)

\* The server waits for the ChangeCipherSpec.
LEMMA ClientKeyExchangeKeeps ==
  ASSUME NEW m, NEW x, Handling("server", m, x), m.type = "ClientKeyExchange", ClientKeyExchange("server", m, x)
  PROVE  Handled("server")
<1>1. policy \in Policy /\ io["server"].in \in 0..Final(policy, "client")
  BY PlaceFacts, SidesFacts
<1>2. PICK a, f, g : Course(policy, a, f, g)
  BY <1>1, CourseFacts
<1>3. ~policy.resume /\ io["server"].in = a + 1 /\ a = Cookies(policy)
  BY <1>1, <1>2, PlaceFacts, ClientTypes, SidesFacts DEF Course
<1>4. /\ a \in {0, 1} /\ g = a + 2 /\ g = Final(policy, "client") /\ g \in Nat
      /\ Reply(policy, "server", a + 1) = a + 3 /\ Reply(policy, "server", a + 2) = a + 3
  BY <1>2, <1>3 DEF Course
<1>5. HasSent(policy, "server", io["server"])
  BY <1>3, <1>4 DEF HasSent
<1>6. HashOf(policy, "server", a + 2) = Append(HashOf(policy, "server", a + 1), <<TypeOf(policy, "client", a + 1), a + 1>>)
  <2>1. HashOf(policy, "server", a + 2) = Append(HashOf(policy, "server", a + 1), <<"ClientKeyExchange", a + 1>>)
    BY <1>1, <1>3, FullHashTable
  <2>2. TypeOf(policy, "client", a + 1) = "ClientKeyExchange"
    BY <1>1, <1>3, TypesAt
  <2> QED
    BY <2>1, <2>2
<1>7. Awaits(policy, "server", a + 2, {CCS})
  BY <1>4, SidesFacts DEF Awaits
<1>8. Proceed("server", Expect(WithHash(chan["server"], m), {CCS}), x, <<>>)
  BY DEF ClientKeyExchange
<1>9. a + 1 + 1 = a + 2 /\ a + 1 < g
  BY <1>4
<1>10. HearsAt(policy, "server", a + 1, {CCS})
  BY <1>4, <1>6, <1>7, <1>9, SidesFacts DEF HearsAt
<1> QED
  BY <1>3, <1>5, <1>8, <1>10, HearsOnly

(* The messages of the client.                                             *)

\* The HelloVerifyRequest is message 0 of a server that asks for a cookie.
LEMMA VerifyContinues ==
  ASSUME NEW pol \in Policy, pol.cookie, NEW v, v = Item(pol, "server", 0)
  PROVE  Continues(pol, "server", 0, 1, <<v>>) /\ Records(<<v>>) = Fragments(v)
<1>1. Final(pol, "server") \in Nat /\ Final(pol, "server") > 1
  BY PolicyFacts
<1>2. v \in ItemsOf(pol, "server", 1)
  <2>1. 0 \in 0..(1 - 1)
    OBVIOUS
  <2> QED
    BY <2>1 DEF ItemsOf
<1>3. <<v>> \in Seq(ItemsOf(pol, "server", 1)) /\ Len(<<v>>) = 1 /\ <<v>>[1] = v /\ DOMAIN <<v>> = {1} /\ <<v>> # <<>>
  BY <1>2
<1>4. IsMsg(v)
  BY TypeFacts DEF IsMsg, Item
<1>5. {i \in DOMAIN <<v>> : IsMsg(<<v>>[i])} = {1}
  BY <1>3, <1>4
<1>6. Cardinality({1}) = 1
  BY FS_Singleton
<1>7. \A k \in 0..(1 - 1) : k = 0 /\ k - 0 + 1 = 1
  OBVIOUS
<1>8. 1 \in Nat /\ 1 > 0 /\ 1 - 0 = 1 /\ 1 <= Final(pol, "server")
  BY <1>1
<1>9. \A k \in 0..(1 - 1) : k < Final(pol, "server") => k - 0 + 1 \in 1..Len(<<v>>) /\ <<v>>[k - 0 + 1] = Item(pol, "server", k)
  BY <1>3, <1>7
<1>10. Continues(pol, "server", 0, 1, <<v>>)
  BY <1>3, <1>5, <1>6, <1>8, <1>9 DEF Continues
<1>11. Records(<<v>>) = Fragments(v)
  BY <1>3 DEF Records
<1> QED
  BY <1>10, <1>11

\* The channel of the server that has sent it.
LEMMA VerifyChannel ==
  ASSUME NEW pol \in Policy, pol.cookie, NEW c, DOMAIN c = DOMAIN NewChannel, c.state = "pending", c.read = 0, c.write = 0,
         NEW m, NEW d, d = Expect([WithHash(c, m) EXCEPT !.hash = <<>>], {"ClientHello"}),
         NEW y, y.in = 1, y.out = 1
  PROVE  ChanOk(pol, "server", d, y) /\ d.state = "pending" /\ d.read = 0
<1>1. /\ DOMAIN d = DOMAIN NewChannel /\ d.state = "pending" /\ d.read = 0 /\ d.write = 0
      /\ d.hash = <<>> /\ d.expecting = {"ClientHello"}
  BY DEF Expect, WithHash, NewChannel
<1>2. Cookies(pol) = 1
  BY PolicyFacts
<1>3. PICK f, g : Course(pol, 1, f, g)
  BY <1>2, CourseFacts
<1>4. /\ f > 1 /\ g > 1 /\ f = Final(pol, "server") /\ g = Final(pol, "client") /\ f \in Nat /\ g \in Nat
      /\ Reply(pol, "server", 1) = 1
  BY <1>3 DEF Course
<1>5. y.in \in 0..Final(pol, Peer("server")) /\ y.out = Reply(pol, "server", y.in)
      /\ d.write = (IF y.out > Final(pol, "server") THEN 1 ELSE 0) /\ y.in # Final(pol, Peer("server"))
  <2>1. 1 \in 0..g /\ 1 # g /\ ~(1 > f)
    BY <1>4
  <2>2. Peer("server") = "client"
    BY SidesFacts
  <2>3. y.in \in 0..Final(pol, Peer("server")) /\ y.in # Final(pol, Peer("server"))
    BY <1>4, <2>1, <2>2
  <2>4. ~(y.out > Final(pol, "server")) /\ y.out = Reply(pol, "server", y.in)
    BY <1>4, <2>1
  <2> QED
    BY <1>1, <2>3, <2>4
<1>6. d.hash = HashOf(pol, "server", y.in)
  <2>1. PICK i : i = Cookies(pol)
    OBVIOUS
  <2>2. \A k \in 0..i : HashOf(pol, "server", k) = <<>>
    BY <2>1, HashTable
  <2>3. 1 \in 0..i
    BY <1>2, <2>1
  <2>4. HashOf(pol, "server", 1) = <<>>
    BY <2>2, <2>3
  <2> QED
    BY <1>1, <2>4
<1>7. TypeOf(pol, Peer("server"), y.in) \in d.expecting /\ CCS \notin d.expecting
  BY <1>1, <1>2, TypesAt, SidesFacts DEF CCS
<1>8. "server" \in Sides
  BY DEF Sides
<1> QED
  BY <1>1, <1>5, <1>6, <1>7, <1>8, ChanPlace

\* The first ClientHello, answered with the HelloVerifyRequest.
LEMMA VerifyKeeps ==
  ASSUME NEW m, NEW x, Handling("server", m, x), m.type = "ClientHello", ClientHello("server", m, x),
         policy.cookie, m.seq = 0
  PROVE  Handled("server")
<1>1. /\ policy \in Policy /\ "server" \in Sides /\ io["server"].in = 0 /\ DOMAIN chan["server"] = DOMAIN NewChannel
      /\ chan["server"].state = "pending" /\ DialogueInv /\ working = {"server"}
  BY PlaceFacts DEF Handling
<1>2. Cookies(policy) = 1
  BY <1>1, PolicyFacts
<1>3. PICK f, g : Course(policy, 1, f, g)
  BY <1>1, <1>2, CourseFacts
<1>4. /\ f > 1 /\ g > 1 /\ f = Final(policy, "server") /\ g = Final(policy, "client") /\ f \in Nat /\ g \in Nat
      /\ Reply(policy, "server", 0) = 0
  BY <1>3 DEF Course
<1>5. io["server"].out = 0 /\ chan["server"].write = 0 /\ chan["server"].read = 0 /\ x.out = 0 /\ x.in = 1
  BY <1>1, <1>4, PlaceFacts, SidesFacts
<1>6. ~HaveMoreData(x)
  BY <1>1, <1>2, NoMoreData
<1>7. /\ x.recreating = FALSE /\ DOMAIN x = DOMAIN NewIO /\ FlightsTyped(policy, "server", x)
      /\ (x.last_write => HasSent(policy, "server", io["server"]))
      /\ ReceivedOk(policy, "server", x, io["client"].out)
      /\ \A s \in x.client_hello : "server" = "server" /\ Part(policy, "client", 0, s) /\ ~Complete(s)
  BY SidesFacts DEF Handling, TookMessage
<1>8. HelloVerifySeq(x) = 0
  BY <1>5, <1>7 DEF HelloVerifySeq
<1>9. PICK v : v = Item(policy, "server", 0)
  OBVIOUS
<1>10. v = [type |-> "HelloVerifyRequest", seq |-> HelloVerifySeq(x), epoch |-> chan["server"].write, body |-> <<>>]
  <2>1. TypeOf(policy, "server", 0) = "HelloVerifyRequest" /\ 0 # Final(policy, "server")
    BY <1>1, <1>4, TypesAt
  <2> QED
    BY <1>5, <1>8, <1>9, <2>1 DEF Item
<1>11. PICK d : d = Expect([WithHash(chan["server"], m) EXCEPT !.hash = <<>>], {"ClientHello"})
  OBVIOUS
<1>12. PICK y : y = SendHelloVerify(x)
  OBVIOUS
<1>13. /\ io' = [io EXCEPT !["server"] = y] /\ chan' = [chan EXCEPT !["server"] = d]
       /\ Put(Wire("server", Fragments(v))) /\ UNCHANGED <<policy, working, failed>>
       /\ sent' = [sent EXCEPT !["server"] = Append(@, v)]
  BY <1>6, <1>7, <1>10, <1>11, <1>12 DEF ClientHello
<1>14. /\ DOMAIN y = DOMAIN NewIO /\ y.in = 1 /\ y.out = 1 /\ y.awaiting_cookie = TRUE /\ y.recreating = FALSE
       /\ y.flights = x.flights /\ y.last_write = x.last_write /\ y.messages = x.messages
       /\ y.ccs_epochs = x.ccs_epochs /\ y.retransmitted = x.retransmitted /\ y.client_hello = x.client_hello
  BY <1>5, <1>7, <1>8, <1>12 DEF SendHelloVerify, NewIO
<1>15. ChanOk(policy, "server", d, y) /\ d.state = "pending" /\ d.read = 0
  BY <1>1, <1>5, <1>11, <1>14, VerifyChannel
<1>16. FlightsOk(policy, "server", y)
  <2>1. ~HasSent(policy, "server", io["server"])
    BY <1>1, <1>2 DEF HasSent
  <2>2. Seq(Seq(ItemsOf(policy, "server", 0))) \subseteq Seq(Seq(ItemsOf(policy, "server", 1)))
    BY <1>1, SentMore
  <2> QED
    BY <1>2, <1>5, <1>7, <1>14, <2>1, <2>2 DEF FlightsTyped, FlightsOk
<1>17. ReceivedOk(policy, "server", y, io["client"].out)
  BY <1>5, <1>7, <1>14 DEF ReceivedOk
<1>18. HelloOk(policy, "server", y)
  BY <1>7, <1>14 DEF HelloOk
<1>19. SideOk(policy, "server", d, y, io[Peer("server")].out)
  BY <1>14, <1>15, <1>16, <1>17, <1>18, SidesFacts DEF SideOk
<1>20. Continues(policy, "server", io["server"].out, y.out, <<v>>) /\ Records(<<v>>) = Fragments(v)
  BY <1>1, <1>5, <1>9, <1>14, VerifyContinues
<1>21. <<v>> # <<>> /\ Adds("server", <<v>>)
  BY <1>13 DEF Adds
<1>22. PICK items : items = <<v>>
  OBVIOUS
<1>23. IF items = <<>> THEN UNCHANGED net ELSE Put(Wire("server", Records(items)))
  BY <1>13, <1>20, <1>21, <1>22
<1>24. Continues(policy, "server", io["server"].out, y.out, items) /\ Adds("server", items)
  BY <1>20, <1>21, <1>22
<1>25. working' = working /\ d.state = "pending" /\ UNCHANGED <<policy, failed>>
  BY <1>13, <1>15
<1>26. DialogueInv' /\ Says("server", items) /\ io'["server"] = y /\ chan'["server"] = d
  BY <1>1, <1>13, <1>19, <1>23, <1>24, <1>25, SpeaksKeeps
<1> QED
  BY <1>1, <1>5, <1>13, <1>14, <1>15, <1>26 DEF Handled

\* The first ClientHello again.
Repeated(p) ==
  /\ DialogueInv' /\ Says(p, <<>>)
  /\ io'[p].in = io[p].in /\ chan'[p].read = chan[p].read /\ failed' = failed

\* The HelloVerifyRequest is sent once more under its number, and nothing else
\* changes.
LEMMA AgainKeeps ==
  ASSUME DialogueInv, working = {"server"}, NEW m, NEW x,
         TookAgain(policy, "server", chan["server"], io["server"], io["client"].out, m, x),
         ClientHello("server", m, x)
  PROVE  Repeated("server")
<1>1. /\ policy.cookie /\ io["server"].in = 1 /\ m.seq = 0 /\ x.recreating = TRUE /\ ~HaveMoreData(x)
      /\ x.in = 1 /\ x.out = io["server"].out /\ DOMAIN x = DOMAIN NewIO
  BY DEF TookAgain
<1>2. policy \in Policy /\ "server" \in Sides /\ ChanOk(policy, "server", chan["server"], io["server"])
  BY SideFacts DEF Sides
<1>3. chan["server"].state = "pending"
  BY DEF DialogueInv
<1>4. Cookies(policy) = 1
  BY <1>1, <1>2, PolicyFacts
<1>5. PICK f, g : Course(policy, 1, f, g)
  BY <1>2, <1>4, CourseFacts
<1>6. /\ f > 1 /\ g > 1 /\ f = Final(policy, "server") /\ g = Final(policy, "client") /\ f \in Nat /\ g \in Nat
      /\ Reply(policy, "server", 1) = 1
  BY <1>5 DEF Course
<1>7. io["server"].out = 1 /\ DOMAIN chan["server"] = DOMAIN NewChannel
  BY <1>1, <1>2, <1>3, <1>6 DEF ChanOk
<1>8. chan["server"].write = 0 /\ chan["server"].read = 0
  BY <1>1, <1>2, <1>6, <1>7, SidesFacts DEF ChanOk
<1>9. HelloVerifySeq(x) = 0
  BY <1>1, <1>7 DEF HelloVerifySeq
<1>10. PICK v : v = Item(policy, "server", 0)
  OBVIOUS
<1>11. v = [type |-> "HelloVerifyRequest", seq |-> HelloVerifySeq(x), epoch |-> chan["server"].write, body |-> <<>>]
  <2>1. TypeOf(policy, "server", 0) = "HelloVerifyRequest" /\ 0 # Final(policy, "server")
    BY <1>1, <1>2, <1>6, TypesAt
  <2> QED
    BY <1>8, <1>9, <1>10, <2>1 DEF Item
<1>12. PICK d : d = Expect([WithHash(chan["server"], m) EXCEPT !.hash = <<>>], {"ClientHello"})
  OBVIOUS
<1>13. PICK y : y = SendHelloVerify(x)
  OBVIOUS
<1>14. /\ io' = [io EXCEPT !["server"] = y] /\ chan' = [chan EXCEPT !["server"] = d]
       /\ Put(Wire("server", Fragments(v))) /\ UNCHANGED <<policy, working, failed>>
       /\ sent' = [sent EXCEPT !["server"] = @]
  BY <1>1, <1>11, <1>12, <1>13 DEF ClientHello
<1>15. PICK z : z = [x EXCEPT !.recreating = FALSE]
  OBVIOUS
<1>16. SideOk(policy, "server", chan["server"], z, io["client"].out)
  BY <1>15 DEF TookAgain
<1>17. z.awaiting_cookie = TRUE /\ z.in = 1 /\ z.out = 1
  BY <1>1, <1>7, <1>15, <1>16 DEF SideOk, HelloOk, NewIO
<1>18. /\ SamePlace(z, y) /\ y.in = 1 /\ y.out = 1 /\ y.messages = z.messages
       /\ y.ccs_epochs = z.ccs_epochs /\ y.retransmitted = z.retransmitted /\ y.client_hello = z.client_hello
  <2>1. /\ DOMAIN y = DOMAIN NewIO /\ y.in = 1 /\ y.out = 1 /\ y.awaiting_cookie = TRUE /\ y.recreating = FALSE
        /\ y.flights = x.flights /\ y.last_write = x.last_write /\ y.messages = x.messages
        /\ y.ccs_epochs = x.ccs_epochs /\ y.retransmitted = x.retransmitted /\ y.client_hello = x.client_hello
    BY <1>1, <1>7, <1>9, <1>13 DEF SendHelloVerify, NewIO
  <2>2. /\ DOMAIN z = DOMAIN NewIO /\ z.in = x.in /\ z.out = x.out /\ z.recreating = FALSE
        /\ z.flights = x.flights /\ z.last_write = x.last_write /\ z.messages = x.messages
        /\ z.ccs_epochs = x.ccs_epochs /\ z.retransmitted = x.retransmitted /\ z.client_hello = x.client_hello
    BY <1>1, <1>15 DEF NewIO
  <2> QED
    BY <1>17, <2>1, <2>2 DEF SamePlace
<1>19. SideOk(policy, "server", chan["server"], y, io["client"].out)
  <2>1. ReceivedOk(policy, "server", y, io["client"].out)
    BY <1>16, <1>17, <1>18 DEF SideOk, ReceivedOk
  <2>2. NextInSequence(y) = NextInSequence(z)
    BY <1>17, <1>18 DEF NextInSequence, SlotAt
  <2>3. \A s \in z.client_hello : Part(policy, "client", 0, s) /\ (Complete(s) => NextInSequence(z) = {})
    BY <1>16 DEF SideOk, HelloOk
  <2>4. y.awaiting_cookie
    BY <1>17, <1>18 DEF SamePlace
  <2>5. /\ \A s \in y.client_hello : "server" = "server" /\ Part(policy, "client", 0, s)
        /\ \A s \in y.client_hello : Complete(s) => y.awaiting_cookie /\ NextInSequence(y) = {}
    BY <1>18, <2>2, <2>3, <2>4
  <2>6. SamePlace(z, y)
    BY <1>18
  <2> QED
    BY <1>16, <2>1, <2>5, <2>6, SamePlaceOk
<1>20. ChanOk(policy, "server", d, y) /\ d.state = "pending" /\ d.read = 0
  BY <1>1, <1>2, <1>3, <1>7, <1>8, <1>12, <1>18, VerifyChannel
<1>21. SideOk(policy, "server", d, y, io[Peer("server")].out)
  BY <1>19, <1>20, SidesFacts DEF SideOk
<1>22. SideSet("server", d, y)
  BY <1>14 DEF SideSet, DialogueInv
<1>23. \A w \in DOMAIN net' : w \in DOMAIN net \/ (w.from = "server" /\ IsRecord(policy, "server", y.out, w.rec))
  <2>1. PICK items : items = <<v>>
    OBVIOUS
  <2>2. items \in Seq(ItemsOf(policy, "server", 1)) /\ Records(items) = Fragments(v)
    BY <1>1, <1>2, <1>10, <2>1, VerifyContinues DEF Continues
  <2>3. \A w \in Wire("server", Records(items)) : w.from = "server" /\ IsRecord(policy, "server", 1, w.rec)
    BY <2>2, WireSends
  <2> QED
    BY <1>14, <1>18, <2>2, <2>3, PutSends DEF Put
<1>24. y.out >= io["server"].out
  BY <1>7, <1>18
<1>25. io'["server"] = y /\ chan'["server"] = d /\ \A s \in Sides \ {"server"} : io'[s] = io[s] /\ chan'[s] = chan[s]
  BY <1>22 DEF SideSet
<1>26. working' \subseteq Sides /\ (\A s \in working' : chan'[s].state = "pending") /\ Settled'
  BY <1>2, <1>14, <1>20, <1>25 DEF Settled
<1>27. DialogueInv'
  BY <1>2, <1>14, <1>21, <1>22, <1>23, <1>24, <1>26, SideSteps
<1>28. Says("server", <<>>)
  BY <1>7, <1>14, <1>18, <1>25 DEF Says, Adds
<1> QED
  BY <1>1, <1>8, <1>14, <1>18, <1>20, <1>25, <1>27, <1>28 DEF Repeated

\* The ClientHello that the server answers with its flight.
HelloAt(a, m, x, c) ==
  /\ a \in {0, 1} /\ a = Cookies(policy) /\ policy \in Policy
  /\ io["server"].in = a /\ io["server"].out = a /\ chan["server"].write = 0 /\ chan["server"].read = 0
  /\ DOMAIN c = DOMAIN NewChannel /\ c.state = "pending" /\ c.read = 0 /\ c.write = 0
  /\ c.hash = Hello(policy) /\ c.hash \in Seq(Entries) /\ c = WithHash(chan["server"], m)
  /\ ~HaveMoreData(x)

\* The server that handles it has said nothing but a HelloVerifyRequest.
LEMMA HelloFacts ==
  ASSUME NEW m, NEW x, Handling("server", m, x), m.type = "ClientHello", ~(policy.cookie /\ m.seq = 0)
  PROVE  \E a, c : HelloAt(a, m, x, c)
<1>1. /\ policy \in Policy /\ io["server"].in \in 0..Final(policy, "client") /\ io["server"].in \in Nat
      /\ DOMAIN chan["server"] = DOMAIN NewChannel /\ chan["server"].state = "pending" /\ m.seq = io["server"].in
  BY PlaceFacts, SidesFacts
<1>2. PICK a, f, g : Course(policy, a, f, g)
  BY <1>1, CourseFacts
<1>3. a \in {0, 1} /\ a = Cookies(policy) /\ (policy.cookie <=> a = 1)
  BY <1>1, <1>2, PolicyFacts DEF Course
<1>4. io["server"].in <= a
  BY <1>1, <1>3, PlaceFacts, ClientTypes, SidesFacts
<1>5. io["server"].in = a
  BY <1>1, <1>3, <1>4
<1>6. /\ f > a /\ g > a /\ f = Final(policy, "server") /\ g = Final(policy, "client") /\ f \in Nat /\ g \in Nat
      /\ Reply(policy, "server", a) = a /\ ~(a > f) /\ a # g
  BY <1>2 DEF Course
<1>7. io["server"].out = a
  BY <1>5, <1>6, PlaceFacts
<1>8. chan["server"].write = 0 /\ chan["server"].read = 0
  BY <1>5, <1>6, <1>7, PlaceFacts, SidesFacts
<1>9. chan["server"].hash = <<>>
  <2>1. HashOf(policy, "server", a) = <<>>
    <3>1. a \in 0..a
      BY <1>3
    <3>2. \A i \in 0..a : HashOf(policy, "server", i) = <<>>
      BY <1>1, <1>3, HashTable
    <3> QED
      BY <3>1, <3>2
  <2> QED
    BY <1>5, <2>1, PlaceFacts
<1>10. PICK e : e = <<"ClientHello", a>>
  OBVIOUS
<1>11. Append(<<>>, e) = <<e>>
  OBVIOUS
<1>12. Hello(policy) = <<e>> /\ Hello(policy) \in Seq(Entries)
  BY <1>1, <1>3, <1>10, HashTable, TranscriptsTyped
<1>13. PICK c : c = WithHash(chan["server"], m)
  OBVIOUS
<1>14. /\ DOMAIN c = DOMAIN NewChannel /\ c.state = chan["server"].state /\ c.read = chan["server"].read
       /\ c.write = chan["server"].write /\ c.hash = Append(chan["server"].hash, <<m.type, m.seq>>)
  BY <1>1, <1>13 DEF WithHash, NewChannel
<1>15. c.hash = Hello(policy)
  BY <1>1, <1>5, <1>9, <1>10, <1>11, <1>12, <1>14
<1>16. ~HaveMoreData(x)
  BY <1>3, <1>4, NoMoreData
<1> QED
  BY <1>1, <1>3, <1>5, <1>7, <1>8, <1>12, <1>13, <1>14, <1>15, <1>16 DEF HelloAt

\* What the server adds to the transcript.
LEMMA ServerEntries ==
  ASSUME NEW a \in {0, 1}
  PROVE  /\ <<"ServerHello", a>> \in Entries /\ <<"ServerKeyExchange", a + 1>> \in Entries
         /\ <<"ServerHelloDone", a + 2>> \in Entries /\ <<"NewSessionTicket", a + 1>> \in Entries
         /\ <<"NewSessionTicket", a + 3>> \in Entries
         /\ \A k \in Nat : <<"Finished", k>> \in Entries
BY DEF Entries, Types

\* A full handshake.
LEMMA ClientHelloFull ==
  ASSUME NEW m, NEW x, Handling("server", m, x), m.type = "ClientHello", ClientHello("server", m, x),
         ~(policy.cookie /\ m.seq = 0), ~policy.resume
  PROVE  Handled("server")
<1>1. PICK a, c : HelloAt(a, m, x, c)
  BY HelloFacts
<1>2. PICK f, g : Course(policy, a, f, g)
  BY <1>1, CourseFacts DEF HelloAt
<1>3. /\ a \in {0, 1} /\ a = Cookies(policy) /\ policy \in Policy
      /\ io["server"].in = a /\ io["server"].out = a /\ chan["server"].write = 0 /\ chan["server"].read = 0
      /\ DOMAIN c = DOMAIN NewChannel /\ c.state = "pending" /\ c.read = 0 /\ c.write = 0
      /\ c.hash = Hello(policy) /\ c.hash \in Seq(Entries) /\ c = WithHash(chan["server"], m)
      /\ ~HaveMoreData(x)
  BY <1>1 DEF HelloAt
<1>4. /\ f >= a + 3 /\ f = Final(policy, "server") /\ f \in Nat /\ g = a + 2 /\ g = Final(policy, "client")
      /\ Reply(policy, "server", a + 1) = a + 3
  BY <1>2, <1>3 DEF Course
<1>5. PICK e1 \in Entries : e1 = <<"ServerHello", a>>
  BY <1>3, ServerEntries
<1>6. PICK e2 \in Entries : e2 = <<"ServerKeyExchange", a + 1>>
  BY <1>3, ServerEntries
<1>7. PICK e3 \in Entries : e3 = <<"ServerHelloDone", a + 2>>
  BY <1>3, ServerEntries
<1>8. Hashed("server", session_create, FALSE) = <<e1, e2, e3>>
  <2>1. io["server"].out \in Nat
    BY <1>3
  <2>2. PICK t1, t2, t3 : t1 = "ServerHello" /\ t2 = "ServerKeyExchange" /\ t3 = "ServerHelloDone"
    OBVIOUS
  <2>3. Hashed("server", <<t1, t2, t3>>, FALSE) = <<<<t1, io["server"].out>>, <<t2, io["server"].out + 1>>, <<t3, io["server"].out + 2>>>>
    BY <2>1, HashedThree
  <2> QED
    BY <1>3, <1>5, <1>6, <1>7, <2>2, <2>3 DEF session_create
<1>9. Hello(policy) \o <<e1, e2, e3>> = Append(Append(Append(Hello(policy), e1), e2), e3)
  BY <1>3, Appends
<1>10. HashOf(policy, "server", a + 1) = Append(Append(Append(Hello(policy), e1), e2), e3)
  BY <1>3, <1>5, <1>6, <1>7, FullHashTable
<1>11. Comes(policy, "server", a, session_create, 3)
  <2>1. PICK t1, t2, t3 : t1 = "ServerHello" /\ t2 = "ServerKeyExchange" /\ t3 = "ServerHelloDone"
    OBVIOUS
  <2>2. TypeOf(policy, "server", a) = t1 /\ TypeOf(policy, "server", a + 1) = t2 /\ TypeOf(policy, "server", a + 2) = t3
    BY <1>3, <2>1, TypesAt
  <2>3. t1 \in Types /\ t2 \in Types /\ t3 \in Types
    BY <2>1 DEF Types
  <2>4. PICK types : types = <<t1, t2, t3>>
    OBVIOUS
  <2>5. types \in Seq(Types) /\ Len(types) = 3 /\ types[1] = t1 /\ types[2] = t2 /\ types[3] = t3
    BY <2>3, <2>4
  <2>6. \A k \in 1..3 : (k = 1 \/ k = 2 \/ k = 3) /\ a + k - 1 < f
    BY <1>3, <1>4
  <2>7. a + 1 - 1 = a /\ a + 2 - 1 = a + 1 /\ a + 3 - 1 = a + 2
    BY <1>3
  <2>8. \A k \in 1..3 : a + k - 1 < Final(policy, "server") /\ TypeOf(policy, "server", a + k - 1) = types[k]
    BY <1>4, <2>2, <2>5, <2>6, <2>7
  <2>9. Comes(policy, "server", a, types, 3)
    BY <1>3, <2>5, <2>8 DEF Comes
  <2> QED
    BY <2>1, <2>4, <2>9 DEF session_create
<1>12. PICK h : h = Hello(policy)
  OBVIOUS
<1>13. PICK items : items = Flight("server", session_create, FALSE, h)
  OBVIOUS
<1>14. Continues(policy, "server", a, a + 3, items)
  <2>1. a + 3 <= Final(policy, "server") /\ 3 > 0
    BY <1>4
  <2> QED
    BY <1>11, <1>13, <2>1, PlainFlight
<1>15. PICK b : b = Expect(c, {"ClientKeyExchange"})
  OBVIOUS
<1>16. PICK d : d = SendHash(b, "server", session_create, FALSE)
  OBVIOUS
<1>17. /\ DOMAIN b = DOMAIN NewChannel /\ b.state = "pending" /\ b.read = 0 /\ b.write = 0
       /\ b.hash = Hello(policy) /\ b.expecting = {"ClientKeyExchange"}
  BY <1>3, <1>15, ExpectFacts
<1>18. /\ DOMAIN d = DOMAIN NewChannel /\ d.state = "pending" /\ d.read = 0 /\ d.write = 0
       /\ d.hash = b.hash \o Hashed("server", session_create, FALSE) /\ d.expecting = {"ClientKeyExchange"}
  <2>1. PICK types : types = session_create
    OBVIOUS
  <2>2. /\ DOMAIN SendHash(b, "server", types, FALSE) = DOMAIN NewChannel
        /\ SendHash(b, "server", types, FALSE).state = b.state /\ SendHash(b, "server", types, FALSE).read = b.read
        /\ SendHash(b, "server", types, FALSE).write = b.write /\ SendHash(b, "server", types, FALSE).expecting = b.expecting
        /\ SendHash(b, "server", types, FALSE).hash = b.hash \o Hashed("server", types, FALSE)
    BY <1>17, SendHashFacts
  <2> QED
    BY <1>16, <1>17, <2>1, <2>2
<1>19. d.hash = HashOf(policy, "server", a + 1)
  BY <1>8, <1>9, <1>10, <1>17, <1>18
<1>20. Awaits(policy, "server", a + 1, {"ClientKeyExchange"})
  <2>1. TypeOf(policy, "client", a + 1) = "ClientKeyExchange" /\ a + 1 # Final(policy, "client")
    BY <1>3, <1>4, TypesAt
  <2> QED
    BY <2>1, SidesFacts DEF Awaits, CCS
<1>21. Proceed("server", d, x, items)
  <2>1. policy.resume = FALSE
    BY <1>3, PolicyFacts
  <2>2. items = Flight("server", session_create, policy.resume, c.hash)
    BY <1>3, <1>12, <1>13, <2>1
  <2> QED
    BY <1>3, <1>15, <1>16, <2>2 DEF ClientHello
<1>22. a < Final(policy, Peer("server")) /\ a >= Cookies(policy) /\ ~(a + 3 > Final(policy, "server"))
  BY <1>3, <1>4, SidesFacts
<1>23. RepliesAt(policy, "server", a, a, d, items)
  BY <1>4, <1>14, <1>18, <1>19, <1>20, <1>22 DEF RepliesAt
<1> QED
  BY <1>3, <1>18, <1>21, <1>23, Replies

\* An abbreviated handshake.
ResumeFlight(a, types, l) ==
  /\ Comes(policy, "server", a, types, l) /\ a + l = Final(policy, "server")
  /\ Over(policy, "server", types, Hello(policy))
  /\ Hello(policy) \o Hashed("server", types, TRUE) = HashOf(policy, "server", a + 1)

\* session_resume() sends what is next, and its Finished is over the transcript.
LEMMA ResumeFlightFacts ==
  ASSUME NEW m, NEW x, NEW a, NEW c, HelloAt(a, m, x, c), policy.resume
  PROVE  \E l : ResumeFlight(a, session_resume, l)
<1>1. /\ a \in {0, 1} /\ a = Cookies(policy) /\ policy \in Policy
      /\ io["server"].in = a /\ io["server"].out = a /\ chan["server"].write = 0
      /\ Hello(policy) \in Seq(Entries)
  BY DEF HelloAt
<1>2. PICK f, g : Course(policy, a, f, g)
  BY <1>1, CourseFacts
<1>3. f = Final(policy, "server") /\ f \in Nat /\ f = IF policy.ticket THEN a + 2 ELSE a + 1
  BY <1>2 DEF Course
<1>4. PICK e1 \in Entries : e1 = <<"ServerHello", a>>
  BY <1>1, ServerEntries
<1>5. PICK e2 \in Entries : e2 = <<"NewSessionTicket", a + 1>>
  BY <1>1, ServerEntries
<1>6. PICK e3 \in Entries : e3 = <<"Finished", f>>
  BY <1>1, <1>3, ServerEntries
<1>7. PICK h \in Seq(Entries) : h = Hello(policy)
  BY <1>1
<1>8. HashOf(policy, "server", a + 1) = Append(Transcript(policy, "server"), e3)
  BY <1>1, <1>3, <1>6, ShortHashTable
<1>9. PICK t1, t2 : t1 = "ServerHello" /\ t2 = "NewSessionTicket"
  OBVIOUS
<1>10. t1 \in Types /\ t2 \in Types /\ TypeOf(policy, "server", a) = t1
  BY <1>1, <1>9, TypesAt DEF Types
<1>11. io["server"].out \in Nat
  BY <1>1
<1>12. CASE ~policy.ticket
  <2>1. PICK types : types = <<t1>>
    OBVIOUS
  <2>2. types = session_resume
    BY <1>9, <1>12, <2>1 DEF session_resume, Ticket
  <2>3. types \in Seq(Types) /\ Len(types) = 1 /\ types[1] = t1
    BY <1>10, <2>1
  <2>4. f = a + 1
    BY <1>3, <1>12
  <2>5. \A k \in 1..1 : k = 1 /\ a + k - 1 = a /\ a + k - 1 < f
    BY <1>1, <2>4
  <2>6. \A k \in 1..1 : a + k - 1 < Final(policy, "server") /\ TypeOf(policy, "server", a + k - 1) = types[k]
    BY <1>3, <1>10, <2>3, <2>5
  <2>7. Comes(policy, "server", a, types, 1)
    BY <1>1, <2>3, <2>6 DEF Comes
  <2>8. Hashed("server", types, FALSE) = <<e1>> /\ Hashed("server", types, TRUE) = <<e1, e3>>
    BY <1>1, <1>4, <1>6, <1>9, <1>11, <2>1, <2>4, HashedOne
  <2>9. h \o <<e1>> = Append(h, e1) /\ h \o <<e1, e3>> = Append(Append(h, e1), e3)
    BY Appends
  <2>10. Transcript(policy, "server") = Append(h, e1)
    BY <1>1, <1>4, <1>7, <1>12, ShortHashTable
  <2>11. Over(policy, "server", types, Hello(policy))
    BY <1>7, <2>8, <2>9, <2>10 DEF Over
  <2>12. Hello(policy) \o Hashed("server", types, TRUE) = HashOf(policy, "server", a + 1)
    BY <1>7, <1>8, <2>8, <2>9, <2>10
  <2>13. a + 1 = Final(policy, "server")
    BY <1>3, <2>4
  <2>14. ResumeFlight(a, types, 1)
    BY <2>7, <2>11, <2>12, <2>13 DEF ResumeFlight
  <2> QED
    BY <2>2, <2>14
<1>13. CASE policy.ticket
  <2>1. PICK types : types = <<t1, t2>>
    OBVIOUS
  <2>2. types = session_resume
    BY <1>9, <1>13, <2>1 DEF session_resume, Ticket
  <2>3. types \in Seq(Types) /\ Len(types) = 2 /\ types[1] = t1 /\ types[2] = t2
    BY <1>10, <2>1
  <2>4. f = a + 2
    BY <1>3, <1>13
  <2>5. \A k \in 1..2 : (k = 1 \/ k = 2) /\ a + k - 1 < f
    BY <1>1, <2>4
  <2>15. a + 1 - 1 = a /\ a + 2 - 1 = a + 1
    BY <1>1
  <2>16. TypeOf(policy, "server", a + 1) = t2
    BY <1>1, <1>9, <1>13, TypesAt
  <2>6. \A k \in 1..2 : a + k - 1 < Final(policy, "server") /\ TypeOf(policy, "server", a + k - 1) = types[k]
    BY <1>3, <1>10, <2>3, <2>5, <2>15, <2>16
  <2>7. Comes(policy, "server", a, types, 2)
    BY <1>1, <2>3, <2>6 DEF Comes
  <2>8. Hashed("server", types, FALSE) = <<e1, e2>> /\ Hashed("server", types, TRUE) = <<e1, e2, e3>>
    <3>1. /\ Hashed("server", <<t1, t2>>, FALSE) = <<<<t1, io["server"].out>>, <<t2, io["server"].out + 1>>>>
          /\ Hashed("server", <<t1, t2>>, TRUE) =
               <<<<t1, io["server"].out>>, <<t2, io["server"].out + 1>>, <<"Finished", io["server"].out + 2>>>>
      BY <1>11, HashedTwo
    <3>2. <<t1, io["server"].out>> = e1 /\ <<t2, io["server"].out + 1>> = e2 /\ <<"Finished", io["server"].out + 2>> = e3
      BY <1>1, <1>4, <1>5, <1>6, <1>9, <2>4
    <3> QED
      BY <2>1, <3>1, <3>2
  <2>9. h \o <<e1, e2>> = Append(Append(h, e1), e2) /\ h \o <<e1, e2, e3>> = Append(Append(Append(h, e1), e2), e3)
    BY Appends
  <2>10. Transcript(policy, "server") = Append(Append(h, e1), e2)
    BY <1>1, <1>4, <1>5, <1>7, <1>13, ShortHashTable
  <2>11. Over(policy, "server", types, Hello(policy))
    BY <1>7, <2>8, <2>9, <2>10 DEF Over
  <2>12. Hello(policy) \o Hashed("server", types, TRUE) = HashOf(policy, "server", a + 1)
    BY <1>7, <1>8, <2>8, <2>9, <2>10
  <2>13. a + 2 = Final(policy, "server")
    BY <1>3, <2>4
  <2>14. ResumeFlight(a, types, 2)
    BY <2>7, <2>11, <2>12, <2>13 DEF ResumeFlight
  <2> QED
    BY <2>2, <2>14
<1> QED
  BY <1>12, <1>13

\* The server answers with its Finished.
LEMMA ClientHelloShort ==
  ASSUME NEW m, NEW x, Handling("server", m, x), m.type = "ClientHello", ClientHello("server", m, x),
         ~(policy.cookie /\ m.seq = 0), policy.resume
  PROVE  Handled("server")
<1>1. PICK a, c : HelloAt(a, m, x, c)
  BY HelloFacts
<1>2. PICK f, g : Course(policy, a, f, g)
  BY <1>1, CourseFacts DEF HelloAt
<1>3. /\ a \in {0, 1} /\ a = Cookies(policy) /\ policy \in Policy
      /\ io["server"].in = a /\ io["server"].out = a /\ chan["server"].write = 0 /\ chan["server"].read = 0
      /\ DOMAIN c = DOMAIN NewChannel /\ c.state = "pending" /\ c.read = 0 /\ c.write = 0
      /\ c.hash = Hello(policy) /\ c.hash \in Seq(Entries) /\ c = WithHash(chan["server"], m)
      /\ ~HaveMoreData(x)
  BY <1>1 DEF HelloAt
<1>4. /\ f = Final(policy, "server") /\ f \in Nat /\ g = a + 1 /\ g = Final(policy, "client")
      /\ Reply(policy, "server", a + 1) = f + 1 /\ f + 1 > f
  BY <1>2, <1>3 DEF Course
<1>5. PICK l : ResumeFlight(a, session_resume, l)
  BY <1>1, ResumeFlightFacts
<1>6. PICK types : types = session_resume
  OBVIOUS
<1>7. /\ Comes(policy, "server", a, types, l) /\ a + l = Final(policy, "server")
      /\ Over(policy, "server", types, Hello(policy))
      /\ Hello(policy) \o Hashed("server", types, TRUE) = HashOf(policy, "server", a + 1)
  BY <1>5, <1>6 DEF ResumeFlight
<1>8. PICK items : items = Flight("server", types, TRUE, Hello(policy))
  OBVIOUS
<1>9. Continues(policy, "server", a, f + 1, items)
  BY <1>4, <1>7, <1>8, FinalFlight
<1>10. PICK b : b = Expect(c, {CCS})
  OBVIOUS
<1>11. PICK d : d = FinishedChannel(b, "server", types)
  OBVIOUS
<1>12. /\ DOMAIN b = DOMAIN NewChannel /\ b.state = "pending" /\ b.read = 0 /\ b.write = 0
       /\ b.hash = Hello(policy) /\ b.expecting = {CCS}
  BY <1>3, <1>10, ExpectFacts
<1>13. Finishes(b, "server", types, d)
  BY <1>11, <1>12, FinishedChannelFacts
<1>14. /\ DOMAIN d = DOMAIN NewChannel /\ d.state = "pending" /\ d.read = 0 /\ d.write = 1
       /\ d.hash = HashOf(policy, "server", a + 1) /\ d.expecting = {CCS}
  BY <1>7, <1>12, <1>13 DEF Finishes
<1>15. Awaits(policy, "server", a + 1, {CCS})
  BY <1>4, SidesFacts DEF Awaits
<1>16. Proceed("server", d, x, items)
  <2>1. policy.resume = TRUE
    BY <1>3, PolicyFacts
  <2>2. items = Flight("server", types, policy.resume, c.hash)
    BY <1>3, <1>8, <2>1
  <2> QED
    BY <1>3, <1>6, <1>10, <1>11, <2>2 DEF ClientHello, FinishedChannel
<1>17. a < Final(policy, Peer("server")) /\ a >= Cookies(policy)
  BY <1>3, <1>4, SidesFacts
<1>18. RepliesAt(policy, "server", a, a, d, items)
  BY <1>4, <1>9, <1>14, <1>15, <1>17 DEF RepliesAt
<1> QED
  BY <1>3, <1>14, <1>16, <1>18, Replies

(* The end of a handshake.                                                 *)

-----------------------------------------------------------------------------
(* ChangeCipherSpec and Finished.                                          *)

\* p reads under the next epoch.
Switched(p) ==
  /\ DialogueInv' /\ Says(p, <<>>)
  /\ io'[p].in = io[p].in /\ chan[p].read = 0 /\ chan'[p].read = 1 /\ failed' = failed

\* Only the read epoch changes.
LEMMA ChangeCipherSpecKeeps ==
  ASSUME DialogueInv, NEW p \in Sides, working = {p}, NEW m, NEW x,
         TookCCS(policy, p, chan[p], io[p], io[Peer(p)].out, m, x), ChangeCipherSpec(p, m, x)
  PROVE  Switched(p)
<1>1. /\ io[p].in = Final(policy, Peer(p)) /\ chan[p].read = 0
      /\ SideOk(policy, p, chan[p], x, io[Peer(p)].out) /\ x.in = io[p].in /\ x.out = io[p].out
  BY DEF TookCCS
<1>2. policy \in Policy /\ chan[p].state = "pending"
  BY DEF DialogueInv
<1>3. ChanOk(policy, p, chan[p], x) /\ DOMAIN chan[p] = DOMAIN NewChannel
  BY <1>1 DEF SideOk, ChanOk
<1>4. PICK d : d = [Expect(chan[p], {"Finished"}) EXCEPT !.read = @ + 1]
  OBVIOUS
<1>5. /\ DOMAIN d = DOMAIN NewChannel /\ d.state = chan[p].state /\ d.read = 0 + 1 /\ d.write = chan[p].write
      /\ d.hash = chan[p].hash /\ d.expecting = {"Finished"}
  <2>1. PICK e : e = Expect(chan[p], {"Finished"})
    OBVIOUS
  <2>2. /\ DOMAIN e = DOMAIN NewChannel /\ e.state = chan[p].state /\ e.read = 0 /\ e.write = chan[p].write
        /\ e.hash = chan[p].hash /\ e.expecting = {"Finished"}
    BY <1>1, <1>3, <2>1, ExpectFacts
  <2>3. d = [e EXCEPT !.read = e.read + 1]
    BY <1>4, <2>1
  <2> QED
    BY <2>2, <2>3 DEF NewChannel
<1>6. d.read = 1
  BY <1>5
<1>7. TypeOf(policy, Peer(p), Final(policy, Peer(p))) = "Finished"
  BY <1>2, TypesAt
<1>8. ChanOk(policy, p, d, x)
  <2>1. TypeOf(policy, Peer(p), x.in) \in d.expecting /\ CCS \notin d.expecting
    BY <1>1, <1>5, <1>7 DEF CCS
  <2>2. x.in >= Final(policy, Peer(p)) /\ x.in \in Nat
    BY <1>1, <1>2, PolicyFacts, SidesFacts
  <2> QED
    BY <1>2, <1>3, <1>5, <1>6, <2>1, <2>2 DEF ChanOk
<1>9. SideOk(policy, p, d, x, io[Peer(p)].out)
  BY <1>1, <1>8 DEF SideOk
<1>10. x = IF <<>> = <<>> THEN x ELSE Send(x, <<>>)
  OBVIOUS
<1>11. Proceed(p, d, x, <<>>)
  BY <1>4 DEF ChangeCipherSpec
<1>12. d.state = "pending"
  BY <1>2, <1>5
<1>13. DialogueInv' /\ Says(p, <<>>) /\ io'[p] = x /\ chan'[p] = d /\ failed' = failed
  BY <1>1, <1>9, <1>10, <1>11, <1>12, ProceedKeeps
<1> QED
  BY <1>1, <1>6, <1>13 DEF Switched

\* The channel of an established association.
LEMMA ChanActive ==
  ASSUME NEW pol \in Policy, NEW p \in Sides, NEW c, DOMAIN c = DOMAIN NewChannel, c.state = "active", c.read = 1,
         NEW z, z.in = Final(pol, Peer(p)) + 1, z.out = Reply(pol, p, Final(pol, Peer(p)) + 1),
         c.write = (IF z.out > Final(pol, p) THEN 1 ELSE 0)
  PROVE  ChanOk(pol, p, c, z)
<1>1. Final(pol, Peer(p)) \in Nat
  BY PolicyFacts, SidesFacts
<1>2. z.in \in 0..(Final(pol, Peer(p)) + 1) /\ z.in >= Final(pol, Peer(p)) /\ z.in > Final(pol, Peer(p))
  BY <1>1
<1> QED
  BY <1>2 DEF ChanOk

\* ActiveChannel changes the state and what is expected only.
LEMMA ActiveFacts ==
  ASSUME NEW c, DOMAIN c = DOMAIN NewChannel, NEW d, d = ActiveChannel(c)
  PROVE  DOMAIN d = DOMAIN NewChannel /\ d.state = "active" /\ d.read = c.read /\ d.write = c.write
BY DEF NewChannel, ActiveChannel

\* The Finished of its peer, and what p has to do with it.
FinishedAt(p, m, x, c) ==
  /\ policy \in Policy /\ p \in Sides /\ io[p].in = Final(policy, Peer(p)) /\ chan[p].read = 1
  /\ m.body = chan[p].hash /\ ~HaveMoreData(x)
  /\ c = WithHash(chan[p], m) /\ DOMAIN c = DOMAIN NewChannel /\ c.read = 1 /\ c.write = chan[p].write
  /\ c.hash = Append(Transcript(policy, Peer(p)), <<"Finished", Final(policy, Peer(p))>>)
  /\ HasSent(policy, p, io[p])

\* The Finished verifies: it is over the transcript of the side that is handed it.
LEMMA FinishedFacts ==
  ASSUME NEW p, NEW m, NEW x, Handling(p, m, x), m.type = "Finished"
  PROVE  \E c : FinishedAt(p, m, x, c)
<1>1. /\ policy \in Policy /\ p \in Sides /\ DOMAIN chan[p] = DOMAIN NewChannel
      /\ io[p].in \in 0..Final(policy, Peer(p)) /\ m.type = TypeOf(policy, Peer(p), io[p].in) /\ m.seq = io[p].in
      /\ m = Item(policy, Peer(p), io[p].in)
  BY PlaceFacts
<1>2. io[p].in = Final(policy, Peer(p))
  <2>1. CASE p = "client"
    BY <1>1, <2>1, ServerTypes, SidesFacts
  <2>2. CASE p = "server"
    BY <1>1, <2>2, ClientTypes, SidesFacts
  <2> QED
    BY <1>1, <2>1, <2>2 DEF Sides
<1>3. chan[p].read = 1
  BY <1>2, PlaceFacts
<1>4. chan[p].hash = Transcript(policy, Peer(p))
  <2>1. chan[p].hash = HashOf(policy, p, io[p].in)
    BY PlaceFacts
  <2>2. \A s \in Sides : HashOf(policy, s, Final(policy, Peer(s))) = Transcript(policy, Peer(s))
    BY <1>1, HashTable
  <2> QED
    BY <1>1, <1>2, <2>1, <2>2
<1>5. m.body = chan[p].hash
  BY <1>1, <1>2, <1>4 DEF Item
<1>6. ~HaveMoreData(x)
  BY <1>2, NoMoreData
<1>7. PICK c : c = WithHash(chan[p], m)
  OBVIOUS
<1>8. /\ DOMAIN c = DOMAIN NewChannel /\ c.read = chan[p].read /\ c.write = chan[p].write
      /\ c.hash = Append(chan[p].hash, <<m.type, m.seq>>)
  BY <1>1, <1>7 DEF WithHash, NewChannel
<1>9. c.hash = Append(Transcript(policy, Peer(p)), <<"Finished", Final(policy, Peer(p))>>)
  BY <1>1, <1>2, <1>4, <1>8
<1>10. HasSent(policy, p, io[p])
  <2>1. PICK a, f, g : Course(policy, a, f, g)
    BY <1>1, CourseFacts
  <2>2. a \in {0, 1} /\ f > a /\ g > a /\ f \in Nat /\ g \in Nat /\ f = Final(policy, "server") /\ g = Final(policy, "client")
        /\ a = Cookies(policy) /\ Reply(policy, "client", f) > 0
    BY <2>1 DEF Course
  <2>3. CASE p = "client"
    <3>1. io[p].out = Reply(policy, "client", f)
      BY <1>2, <2>2, <2>3, PlaceFacts, SidesFacts
    <3> QED
      BY <2>2, <2>3, <3>1 DEF HasSent
  <2>4. CASE p = "server"
    BY <1>2, <2>2, <2>4, SidesFacts DEF HasSent
  <2> QED
    BY <1>1, <2>3, <2>4 DEF Sides
<1> QED
  BY <1>1, <1>2, <1>3, <1>5, <1>6, <1>7, <1>8, <1>9, <1>10 DEF FinishedAt

\* p has sent its own Finished before.
LEMMA LastFinished ==
  ASSUME NEW p, NEW m, NEW x, Handling(p, m, x), NEW c, FinishedAt(p, m, x, c), Activate(p, c, x, <<>>),
         Reply(policy, p, Final(policy, Peer(p)) + 1) = Reply(policy, p, Final(policy, Peer(p)))
  PROVE  Handled(p)
<1>1. /\ policy \in Policy /\ p \in Sides /\ io[p].in = Final(policy, Peer(p)) /\ chan[p].read = 1
      /\ DOMAIN c = DOMAIN NewChannel /\ c.read = 1 /\ c.write = chan[p].write /\ HasSent(policy, p, io[p])
  BY DEF FinishedAt
<1>2. /\ io[p].out = Reply(policy, p, io[p].in) /\ chan[p].write = (IF io[p].out > Final(policy, p) THEN 1 ELSE 0)
      /\ x.in = io[p].in + 1 /\ x.out = io[p].out
  BY PlaceFacts
<1>3. PICK d : d = ActiveChannel(c)
  OBVIOUS
<1>4. DOMAIN d = DOMAIN NewChannel /\ d.state = "active" /\ d.read = c.read /\ d.write = c.write
  BY <1>1, <1>3, ActiveFacts
<1>5. x.in = Final(policy, Peer(p)) + 1 /\ x.out = Reply(policy, p, Final(policy, Peer(p)) + 1)
  BY <1>1, <1>2
<1>6. d.write = (IF x.out > Final(policy, p) THEN 1 ELSE 0) /\ d.read = 1
  BY <1>1, <1>2, <1>4
<1>7. ChanOk(policy, p, d, x)
  BY <1>1, <1>4, <1>5, <1>6, ChanActive
<1>8. SideOk(policy, p, d, x, io[Peer(p)].out)
  <2>1. io[Peer(p)].out \in Nat
    BY <1>1, SideFacts DEF Handling
  <2> QED
    BY <1>1, <1>7, <2>1, MessageOk DEF Handling
<1>9. x = IF <<>> = <<>> THEN x ELSE Send(x, <<>>)
  OBVIOUS
<1>10. DialogueInv /\ working = {p}
  BY DEF Handling
<1>11. Activated(p, d, x, <<>>)
  <2>1. p \in Sides /\ DOMAIN c = DOMAIN NewChannel /\ x.out = io[p].out
    BY <1>1, <1>2
  <2> QED
    BY <1>3, <1>8, <1>9, <1>10, <2>1, ActivateKeeps
<1> QED
  BY <1>1, <1>2, <1>4, <1>11 DEF Handled, Activated

\* p answers with its own.
AnswersWith(p, types, l, h) ==
  /\ Comes(policy, p, io[p].out, types, l) /\ io[p].out + l = Final(policy, p)
  /\ Over(policy, p, types, h)
  /\ Reply(policy, p, Final(policy, Peer(p)) + 1) = Final(policy, p) + 1

\* It becomes active with its Finished sent.
LEMMA FirstFinished ==
  ASSUME NEW p, NEW m, NEW x, Handling(p, m, x), NEW c, FinishedAt(p, m, x, c), NEW types, NEW l, AnswersWith(p, types, l, c.hash),
         Activate(p, FinishedChannel(c, p, types), x, Flight(p, types, TRUE, c.hash))
  PROVE  Handled(p)
<1>1. /\ policy \in Policy /\ p \in Sides /\ io[p].in = Final(policy, Peer(p)) /\ chan[p].read = 1
      /\ DOMAIN c = DOMAIN NewChannel /\ c.read = 1 /\ c.write = chan[p].write
  BY DEF FinishedAt
<1>2. /\ Comes(policy, p, io[p].out, types, l) /\ io[p].out + l = Final(policy, p)
      /\ Over(policy, p, types, c.hash)
      /\ Reply(policy, p, Final(policy, Peer(p)) + 1) = Final(policy, p) + 1
  BY DEF AnswersWith
<1>3. c.write = 0
  BY <1>1, <1>2 DEF Comes
<1>4. PICK e : e = FinishedChannel(c, p, types)
  OBVIOUS
<1>5. DOMAIN e = DOMAIN NewChannel /\ e.read = 1 /\ e.write = 1
  <2>1. Finishes(c, p, types, e)
    BY <1>1, <1>3, <1>4, FinishedChannelFacts
  <2> QED
    BY <1>1, <2>1 DEF Finishes
<1>6. PICK d : d = ActiveChannel(e)
  OBVIOUS
<1>7. DOMAIN d = DOMAIN NewChannel /\ d.state = "active" /\ d.read = 1 /\ d.write = 1
  BY <1>5, <1>6, ActiveFacts
<1>8. PICK items : items = Flight(p, types, TRUE, c.hash)
  OBVIOUS
<1>9. Continues(policy, p, io[p].out, Final(policy, p) + 1, items)
  BY <1>2, <1>8, FinalFlight
<1>10. PICK k : k = Final(policy, p) + 1
  OBVIOUS
<1>11. Final(policy, p) \in Nat /\ Final(policy, Peer(p)) \in Nat /\ k > Final(policy, p)
  BY <1>1, <1>10, PolicyFacts, SidesFacts
<1>12. PICK z : z = [in |-> Final(policy, Peer(p)) + 1, out |-> k]
  OBVIOUS
<1>13. z.in = Final(policy, Peer(p)) + 1 /\ z.out = k /\ z.out = Reply(policy, p, Final(policy, Peer(p)) + 1)
  BY <1>2, <1>10, <1>12
<1>14. d.write = (IF z.out > Final(policy, p) THEN 1 ELSE 0)
  BY <1>7, <1>11, <1>13
<1>15. ChanOk(policy, p, d, z)
  BY <1>1, <1>7, <1>13, <1>14, ChanActive
<1>16. PICK y : y = Send(x, items)
  OBVIOUS
<1>17. SideOk(policy, p, d, y, io[Peer(p)].out) /\ y.out = k
  <2>1. PICK q : q = io[p]
    OBVIOUS
  <2>2. PICK n : n = io[Peer(p)].out
    OBVIOUS
  <2>3. n \in Nat /\ q.out \in Nat
    BY <1>1, <2>1, <2>2, SideFacts DEF Handling
  <2>4. p = "server" => q.in >= Cookies(policy)
    BY <1>1, <2>1, PolicyFacts, SidesFacts
  <2>5. TookMessage(policy, p, q, n, m, x) /\ Continues(policy, p, q.out, k, items) /\ z.in = q.in + 1 /\ z.out = k
    BY <1>1, <1>9, <1>10, <1>13, <2>1, <2>2 DEF Handling
  <2>6. SideOk(policy, p, d, y, n) /\ y.out = k
    BY <1>1, <1>15, <1>16, <2>3, <2>4, <2>5, ReplyOk
  <2> QED
    BY <2>2, <2>6
<1>18. items # <<>>
  BY <1>9 DEF Continues
<1>19. y = IF items = <<>> THEN x ELSE Send(x, items)
  BY <1>16, <1>18
<1>20. DialogueInv /\ working = {p} /\ Activate(p, e, x, items)
  BY <1>4, <1>8 DEF Handling
<1>21. Continues(policy, p, io[p].out, y.out, items)
  BY <1>9, <1>10, <1>17
<1>22. Activated(p, d, y, items)
  <2>1. p \in Sides /\ DOMAIN e = DOMAIN NewChannel /\ SideOk(policy, p, d, y, io[Peer(p)].out)
    BY <1>1, <1>5, <1>17
  <2> QED
    BY <1>6, <1>19, <1>20, <1>21, <2>1, ActivateKeeps
<1>23. y.in = io[p].in + 1
  <2>1. x.in = io[p].in + 1 /\ DOMAIN x = DOMAIN NewIO
    BY DEF Handling, TookMessage
  <2> QED
    BY <1>16, <2>1 DEF Send, NewIO
<1> QED
  BY <1>1, <1>7, <1>22, <1>23 DEF Handled, Activated

\* The client is handed the Finished of the server.
LEMMA ServerFinishedKeeps ==
  ASSUME NEW m, NEW x, Handling("client", m, x), m.type = "Finished", ServerFinished(m, x)
  PROVE  Handled("client")
<1>1. PICK c : FinishedAt("client", m, x, c)
  BY FinishedFacts
<1>2. /\ policy \in Policy /\ io["client"].in = Final(policy, "server") /\ m.body = chan["client"].hash /\ ~HaveMoreData(x)
      /\ c = WithHash(chan["client"], m)
      /\ c.hash = Append(Transcript(policy, "server"), <<"Finished", Final(policy, "server")>>)
  BY <1>1, SidesFacts DEF FinishedAt
<1>3. PICK a, f, g : Course(policy, a, f, g)
  BY <1>2, CourseFacts
<1>4. /\ a \in {0, 1} /\ a = Cookies(policy) /\ f \in Nat /\ g \in Nat /\ f = Final(policy, "server") /\ g = Final(policy, "client")
  BY <1>3 DEF Course
<1>5. CASE ~policy.resume
  <2>1. Reply(policy, "client", f + 1) = Reply(policy, "client", f)
    BY <1>3, <1>5 DEF Course
  <2>2. Activate("client", c, x, <<>>)
    BY <1>2, <1>5 DEF ServerFinished, Finished
  <2>3. Reply(policy, "client", Final(policy, Peer("client")) + 1) = Reply(policy, "client", Final(policy, Peer("client")))
    BY <1>4, <2>1, SidesFacts
  <2> QED
    BY <1>1, <2>2, <2>3, LastFinished
<1>6. CASE policy.resume
  <2>1. g = a + 1 /\ Reply(policy, "client", f) = g /\ Reply(policy, "client", f + 1) = g + 1 /\ ~(g > g) /\ g + 0 = g
    <3>1. g = a + 1 /\ f > a
      BY <1>3, <1>6 DEF Course
    <3> QED
      BY <1>3, <1>4, <1>6, <3>1 DEF Course
  <2>2. io["client"].out = g /\ chan["client"].write = 0
    BY <1>2, <1>4, <2>1, PlaceFacts
  <2>3. Comes(policy, "client", g, <<>>, 0)
    <3>1. <<>> \in Seq(Types) /\ Len(<<>>) = 0 /\ \A k \in 1..0 : FALSE
      OBVIOUS
    <3> QED
      BY <1>2, <1>4, <2>2, <3>1 DEF Comes
  <2>4. Over(policy, "client", <<>>, c.hash)
    <3>1. Transcript(policy, "client") = c.hash
      BY <1>2, <1>4, <1>6, ShortHashTable
    <3>2. c.hash \in Seq(Entries)
      BY <1>2, <3>1, TranscriptsTyped
    <3>3. Hashed("client", <<>>, FALSE) = <<>>
      BY <1>4, <2>2, HashedNone
    <3>4. c.hash \o <<>> = c.hash
      BY <3>2, Appends
    <3> QED
      BY <3>1, <3>3, <3>4 DEF Over
  <2>5. Reply(policy, "client", Final(policy, Peer("client")) + 1) = Final(policy, "client") + 1
    BY <1>4, <2>1, SidesFacts
  <2>6. AnswersWith("client", <<>>, 0, c.hash)
    BY <1>4, <2>1, <2>2, <2>3, <2>4, <2>5 DEF AnswersWith
  <2>7. Activate("client", FinishedChannel(c, "client", <<>>), x, Flight("client", <<>>, TRUE, c.hash))
    BY <1>2, <1>6 DEF ServerFinished, Finished, FinishedChannel
  <2> QED
    BY <1>1, <2>6, <2>7, FirstFinished
<1> QED
  BY <1>5, <1>6

\* The server is handed the Finished of the client.
LEMMA ClientFinishedKeeps ==
  ASSUME NEW m, NEW x, Handling("server", m, x), m.type = "Finished", ClientFinished(m, x)
  PROVE  Handled("server")
<1>1. PICK c : FinishedAt("server", m, x, c)
  BY FinishedFacts
<1>2. /\ policy \in Policy /\ io["server"].in = Final(policy, "client") /\ m.body = chan["server"].hash /\ ~HaveMoreData(x)
      /\ c = WithHash(chan["server"], m)
      /\ c.hash = Append(Transcript(policy, "client"), <<"Finished", Final(policy, "client")>>)
  BY <1>1, SidesFacts DEF FinishedAt
<1>3. PICK a, f, g : Course(policy, a, f, g)
  BY <1>2, CourseFacts
<1>4. /\ a \in {0, 1} /\ a = Cookies(policy) /\ f \in Nat /\ g \in Nat /\ f = Final(policy, "server") /\ g = Final(policy, "client")
  BY <1>3 DEF Course
<1>5. CASE policy.resume
  <2>1. Reply(policy, "server", g + 1) = Reply(policy, "server", g)
    BY <1>3, <1>5 DEF Course
  <2>2. Activate("server", c, x, <<>>)
    BY <1>2, <1>5 DEF ClientFinished, Finished
  <2>3. Reply(policy, "server", Final(policy, Peer("server")) + 1) = Reply(policy, "server", Final(policy, Peer("server")))
    BY <1>4, <2>1, SidesFacts
  <2> QED
    BY <1>1, <2>2, <2>3, LastFinished
<1>6. CASE ~policy.resume
  <2>1. g = a + 2 /\ f = IF policy.ticket THEN a + 4 ELSE a + 3
    BY <1>3, <1>6 DEF Course
  <2>2. Reply(policy, "server", g) = a + 3 /\ Reply(policy, "server", g + 1) = f + 1 /\ ~(a + 3 > f)
    BY <1>3, <1>4, <1>6, <2>1 DEF Course
  <2>3. io["server"].out = a + 3 /\ chan["server"].write = 0 /\ io["server"].out \in Nat
    BY <1>2, <1>4, <2>2, PlaceFacts
  <2>4. PICK h \in Seq(Entries) : h = c.hash
    <3>1. <<"Finished", Final(policy, "client")>> \in Entries
      BY <1>4, ServerEntries
    <3>2. Transcript(policy, "client") \in Seq(Entries)
      BY <1>2, TranscriptsTyped
    <3>3. c.hash \in Seq(Entries)
      BY <1>2, <3>1, <3>2, Appends
    <3> QED
      BY <3>3
  <2>11. h = Append(Transcript(policy, "client"), <<"Finished", a + 2>>)
    BY <1>2, <1>4, <2>1, <2>4
  <2>5. PICK types : types = Ticket
    OBVIOUS
  <2>6. \E l : Comes(policy, "server", a + 3, types, l) /\ a + 3 + l = f /\ Over(policy, "server", types, h)
    <3>1. CASE ~policy.ticket
      <4>1. types = <<>> /\ f = a + 3 /\ a + 3 + 0 = f
        BY <1>4, <2>1, <2>5, <3>1 DEF Ticket
      <4>2. <<>> \in Seq(Types) /\ Len(<<>>) = 0 /\ \A k \in 1..0 : FALSE
        OBVIOUS
      <4>3. Comes(policy, "server", a + 3, types, 0)
        BY <1>2, <1>4, <2>3, <4>1, <4>2 DEF Comes
      <4>4. Hashed("server", <<>>, FALSE) = <<>>
        BY <2>3, HashedNone
      <4>5. Transcript(policy, "server") = h
        BY <1>2, <1>4, <1>6, <2>11, <3>1, FullHashTable
      <4>6. Over(policy, "server", types, h)
        BY <4>1, <4>4, <4>5, Appends DEF Over
      <4> QED
        BY <4>1, <4>3, <4>6
    <3>2. CASE policy.ticket
      <4>1. PICK t : t = "NewSessionTicket"
        OBVIOUS
      <4>2. types = <<t>> /\ f = a + 4
        BY <2>1, <2>5, <3>2, <4>1 DEF Ticket
      <4>3. TypeOf(policy, "server", a + 3) = t
        BY <1>2, <1>4, <1>6, <3>2, <4>1, TypesAt
      <4>4. types \in Seq(Types) /\ Len(types) = 1 /\ types[1] = t
        BY <4>1, <4>2 DEF Types
      <4>5. \A k \in 1..1 : k = 1 /\ a + 3 + k - 1 = a + 3 /\ a + 3 + k - 1 < f
        BY <1>4, <4>2
      <4>6. \A k \in 1..1 : a + 3 + k - 1 < Final(policy, "server") /\ TypeOf(policy, "server", a + 3 + k - 1) = types[k]
        BY <1>4, <4>3, <4>4, <4>5
      <4>7. Comes(policy, "server", a + 3, types, 1)
        BY <1>2, <2>3, <4>4, <4>6 DEF Comes
      <4>8. PICK e \in Entries : e = <<t, a + 3>>
        BY <1>4, <4>1, ServerEntries
      <4>9. Hashed("server", types, FALSE) = <<e>>
        BY <2>3, <4>2, <4>8, HashedOne
      <4>10. Transcript(policy, "server") = Append(h, e)
        BY <1>2, <1>4, <1>6, <2>11, <3>2, <4>1, <4>8, FullHashTable
      <4>11. h \o <<e>> = Append(h, e)
        BY Appends
      <4>12. Over(policy, "server", types, h)
        BY <4>9, <4>10, <4>11 DEF Over
      <4>13. a + 3 + 1 = f
        BY <1>4, <4>2
      <4> QED
        BY <4>7, <4>12, <4>13
    <3> QED
      BY <3>1, <3>2
  <2>7. PICK l : Comes(policy, "server", a + 3, types, l) /\ a + 3 + l = f /\ Over(policy, "server", types, h)
    BY <2>6
  <2>8. Reply(policy, "server", Final(policy, Peer("server")) + 1) = Final(policy, "server") + 1
    BY <1>4, <2>2, SidesFacts
  <2>9. AnswersWith("server", types, l, c.hash)
    BY <1>4, <2>3, <2>4, <2>7, <2>8 DEF AnswersWith
  <2>10. Activate("server", FinishedChannel(c, "server", types), x, Flight("server", types, TRUE, c.hash))
    BY <1>2, <1>6, <2>5 DEF ClientFinished, Finished, FinishedChannel
  <2> QED
    BY <1>1, <2>9, <2>10, FirstFinished
<1> QED
  BY <1>5, <1>6

(* The steps of the specification.                                         *)

-----------------------------------------------------------------------------
(* Every step keeps the invariant.                                         *)

\* p is handed a message of its peer.
Hears(p) ==
  /\ Handled(p) /\ got' = [got EXCEPT ![p] = Append(@, Item(policy, Peer(p), io[p].in))]
  /\ io[p].in \in 0..Final(policy, Peer(p)) /\ io[p].in < io[Peer(p)].out
  /\ chan[p].read = IF io[p].in = Final(policy, Peer(p)) THEN 1 ELSE 0

\* The ChangeCipherSpec, which the peer has sent.
Switches(p) ==
  /\ Switched(p) /\ got' = [got EXCEPT ![p] = Append(@, CCSItem)]
  /\ io[p].in = Final(policy, Peer(p)) /\ io[Peer(p)].out > Final(policy, Peer(p))

\* Every handler.
LEMMA MessageKeeps ==
  ASSUME NEW p, NEW m, NEW x, Handling(p, m, x), Handler(p, m, x)
  PROVE  Handled(p)
<1>1. p \in Sides /\ policy \in Policy /\ m.type = TypeOf(policy, Peer(p), io[p].in)
  BY PlaceFacts
<1>2. m.type # CCS
  BY <1>1, TypeFacts
<1>3. CASE p = "client"
  <2>1. CASE m.type = "HelloVerifyRequest" /\ HelloVerifyRequest("client", m, x)
    BY <1>3, <2>1, HelloVerifyRequestKeeps
  <2>2. CASE m.type = "ServerHello" /\ ServerHello("client", m, x)
    BY <1>3, <2>2, ServerHelloKeeps
  <2>3. CASE m.type = "ServerKeyExchange" /\ ServerKeyExchange("client", m, x)
    BY <1>3, <2>3, ServerKeyExchangeKeeps
  <2>4. CASE m.type = "ServerHelloDone" /\ ServerHelloDone("client", m, x)
    BY <1>3, <2>4, ServerHelloDoneKeeps
  <2>5. CASE m.type = "NewSessionTicket" /\ NewSessionTicket("client", m, x)
    BY <1>3, <2>5, NewSessionTicketKeeps
  <2>6. CASE m.type = "Finished" /\ ServerFinished(m, x)
    BY <1>3, <2>6, ServerFinishedKeeps
  <2> QED
    BY <1>2, <1>3, <2>1, <2>2, <2>3, <2>4, <2>5, <2>6 DEF Handler
<1>4. CASE p = "server"
  <2>1. CASE m.type = "ClientHello" /\ ClientHello("server", m, x)
    <3>1. CASE policy.cookie /\ m.seq = 0
      BY <1>4, <2>1, <3>1, VerifyKeeps
    <3>2. CASE ~(policy.cookie /\ m.seq = 0) /\ policy.resume
      BY <1>4, <2>1, <3>2, ClientHelloShort
    <3>3. CASE ~(policy.cookie /\ m.seq = 0) /\ ~policy.resume
      BY <1>4, <2>1, <3>3, ClientHelloFull
    <3> QED
      BY <3>1, <3>2, <3>3
  <2>2. CASE m.type = "ClientKeyExchange" /\ ClientKeyExchange("server", m, x)
    BY <1>4, <2>2, ClientKeyExchangeKeeps
  <2>3. CASE m.type = "Finished" /\ ClientFinished(m, x)
    BY <1>4, <2>3, ClientFinishedKeeps
  <2> QED
    BY <1>2, <1>4, <2>1, <2>2, <2>3 DEF Handler
<1> QED
  BY <1>1, <1>3, <1>4 DEF Sides

\* What get_next_handshake_msg() returns is expected and handled without an
\* exception.
LEMMA ProcessKeeps ==
  ASSUME DialogueInv, NEW p \in Sides, Process(p)
  PROVE  Hears(p) \/ Switches(p) \/ (Repeated(p) /\ UNCHANGED got)
<1>1. working = {p}
  BY DEF Process
<1>2. PICK m, x :
        /\ m \in NextRecord(io[p], CCS \in chan[p].expecting)
        /\ x = AfterNext(ConcludeFlight(io[p]), m)
        /\ IF m.type \notin chan[p].expecting THEN Fail(p, "unexpected transition")
           ELSE /\ Handler(p, m, x)
                /\ got' = IF failed' # failed \/ x.recreating THEN got ELSE [got EXCEPT ![p] = Append(@, m)]
  BY DEF Process, NextFor
<1>3. /\ policy \in Policy /\ io[Peer(p)].out \in Nat /\ SideOk(policy, p, chan[p], io[p], io[Peer(p)].out)
      /\ chan[p].state = "pending"
  <2>1. chan[p].state = "pending"
    BY <1>1 DEF DialogueInv
  <2> QED
    BY <2>1, SideFacts
<1>4. \/ TookMessage(policy, p, io[p], io[Peer(p)].out, m, x) /\ TypeOf(policy, Peer(p), io[p].in) \in chan[p].expecting
      \/ TookCCS(policy, p, chan[p], io[p], io[Peer(p)].out, m, x)
      \/ TookAgain(policy, p, chan[p], io[p], io[Peer(p)].out, m, x) /\ "ClientHello" \in chan[p].expecting
  <2>1. PICK q, n, c : q = io[p] /\ n = io[Peer(p)].out /\ c = chan[p]
    OBVIOUS
  <2>2. n \in Nat /\ SideOk(policy, p, c, q, n) /\ c.state = "pending" /\ m \in NextRecord(q, CCS \in c.expecting)
    BY <1>2, <1>3, <2>1
  <2>3. x = AfterNext(ConcludeFlight(q), m)
    BY <1>2, <2>1
  <2>4. \/ TookMessage(policy, p, q, n, m, x) /\ TypeOf(policy, Peer(p), q.in) \in c.expecting
        \/ TookCCS(policy, p, c, q, n, m, x)
        \/ TookAgain(policy, p, c, q, n, m, x) /\ "ClientHello" \in c.expecting
    BY <1>3, <2>2, <2>3, TakeFacts
  <2> QED
    BY <2>1, <2>4
<1>5. CASE TookMessage(policy, p, io[p], io[Peer(p)].out, m, x) /\ TypeOf(policy, Peer(p), io[p].in) \in chan[p].expecting
  <2>1. /\ m = Item(policy, Peer(p), io[p].in) /\ m.type = TypeOf(policy, Peer(p), io[p].in) /\ x.recreating = FALSE
        /\ io[p].in < io[Peer(p)].out
    BY <1>5 DEF TookMessage
  <2>2. Handling(p, m, x)
    BY <1>1, <1>5, <2>1 DEF Handling
  <2>3. Handler(p, m, x) /\ (failed' = failed => got' = [got EXCEPT ![p] = Append(@, m)])
    BY <1>2, <1>5, <2>1
  <2>4. Handled(p)
    BY <2>2, <2>3, MessageKeeps
  <2>5. failed' = failed
    BY <2>4 DEF Handled
  <2>6. io[p].in \in 0..Final(policy, Peer(p)) /\ chan[p].read = IF io[p].in = Final(policy, Peer(p)) THEN 1 ELSE 0
    BY <2>2, PlaceFacts
  <2> QED
    BY <2>1, <2>3, <2>4, <2>5, <2>6 DEF Hears
<1>6. CASE TookCCS(policy, p, chan[p], io[p], io[Peer(p)].out, m, x)
  <2>1. /\ m = CCSItem /\ chan[p].expecting = {CCS} /\ x.recreating = FALSE
        /\ io[p].in = Final(policy, Peer(p)) /\ io[Peer(p)].out > Final(policy, Peer(p))
    BY <1>6 DEF TookCCS
  <2>2. m.type = CCS
    BY <2>1 DEF CCSItem
  <2>3. Handler(p, m, x) /\ (failed' = failed => got' = [got EXCEPT ![p] = Append(@, m)])
    BY <1>2, <2>1, <2>2
  <2>4. ChangeCipherSpec(p, m, x)
    BY <2>2, <2>3 DEF Handler, CCS
  <2>5. Switched(p)
    BY <1>1, <1>6, <2>4, ChangeCipherSpecKeeps
  <2>6. failed' = failed
    BY <2>5 DEF Switched
  <2> QED
    BY <2>1, <2>3, <2>5, <2>6 DEF Switches
<1>7. CASE TookAgain(policy, p, chan[p], io[p], io[Peer(p)].out, m, x) /\ "ClientHello" \in chan[p].expecting
  <2>1. p = "server" /\ m.type = "ClientHello" /\ x.recreating = TRUE
    BY <1>7 DEF TookAgain
  <2>2. Handler(p, m, x) /\ got' = got
    BY <1>2, <1>7, <2>1
  <2>3. ClientHello("server", m, x)
    BY <2>1, <2>2 DEF Handler, CCS
  <2>4. TookAgain(policy, "server", chan["server"], io["server"], io["client"].out, m, x)
    BY <1>7, <2>1, SidesFacts
  <2>5. working = {"server"}
    BY <1>1, <2>1
  <2>6. Repeated("server")
    BY <2>3, <2>4, <2>5, AgainKeeps
  <2> QED
    BY <2>1, <2>2, <2>6
<1> QED
  BY <1>4, <1>5, <1>6, <1>7

\* The client begins.
Begins(items) ==
  /\ DialogueInv' /\ policy' = policy /\ got' = got /\ sent' = [sent EXCEPT !["client"] = items]
  /\ Continues(policy, "client", 0, 1, items) /\ io["client"].out = 0 /\ io'["client"].out = 1
  /\ io'["client"].in = io["client"].in /\ chan'["client"].read = chan["client"].read
  /\ io'["server"] = io["server"] /\ chan'["server"] = chan["server"]

\* send_client_hello() of a new client.
LEMMA ConnectKeeps ==
  ASSUME DialogueInv, Connect
  PROVE  \E items : Begins(items)
<1>1. "client" \in Sides /\ policy \in Policy /\ SideOk(policy, "client", chan["client"], io["client"], io["server"].out)
      /\ io["server"].out \in Nat
  BY SideFacts, SidesFacts
<1>2. PICK c, q : c = chan["client"] /\ q = io["client"]
  OBVIOUS
<1>3. ChanOk(policy, "client", c, q) /\ c.state = "none" /\ DOMAIN q = DOMAIN NewIO /\ SideOk(policy, "client", c, q, io["server"].out)
  BY <1>1, <1>2 DEF SideOk, Connect
<1>4. PICK a, f, g : Course(policy, a, f, g)
  BY <1>1, CourseFacts
<1>5. /\ a \in {0, 1} /\ a = Cookies(policy) /\ f > a /\ g > a /\ f \in Nat /\ g \in Nat
      /\ f = Final(policy, "server") /\ g = Final(policy, "client") /\ Reply(policy, "client", 0) = 1
      /\ 0 \in 0..f /\ 0 # f /\ 0 < g /\ ~(0 > g) /\ ~(1 > g) /\ ~(0 >= f) /\ 1 <= g
  BY <1>4 DEF Course
<1>6. /\ q.in = 0 /\ q.out = 0 /\ c.hash = <<>> /\ DOMAIN c = DOMAIN NewChannel
  BY <1>3 DEF ChanOk
<1>7. c.write = 0 /\ c.read = 0
  BY <1>3, <1>5, <1>6, SidesFacts DEF ChanOk
<1>8. PICK t : t = "ClientHello"
  OBVIOUS
<1>9. Comes(policy, "client", 0, <<t>>, 1)
  <2>1. TypeOf(policy, "client", 0) = t
    <3>1. \A k \in 0..a : TypeOf(policy, "client", k) = t
      BY <1>1, <1>5, <1>8, TypesAt
    <3>2. 0 \in 0..a
      BY <1>5
    <3> QED
      BY <3>1, <3>2
  <2>2. <<t>> \in Seq(Types) /\ Len(<<t>>) = 1 /\ <<t>>[1] = t
    BY <1>8 DEF Types
  <2>3. \A k \in 1..1 : k = 1 /\ 0 + k - 1 = 0
    OBVIOUS
  <2>4. \A k \in 1..1 : 0 + k - 1 < Final(policy, "client") /\ TypeOf(policy, "client", 0 + k - 1) = <<t>>[k]
    BY <1>5, <2>1, <2>2, <2>3
  <2> QED
    BY <1>1, <1>2, <1>6, <1>7, <2>2, <2>4 DEF Comes
<1>10. PICK items : items = Flight("client", <<t>>, FALSE, <<>>)
  OBVIOUS
<1>11. Continues(policy, "client", 0, 1, items)
  <2>1. 0 + 1 <= Final(policy, "client") /\ 1 > 0 /\ 0 + 1 = 1
    BY <1>5
  <2> QED
    BY <1>9, <1>10, <2>1, PlainFlight
<1>12. PICK e : e = SendHash(c, "client", <<t>>, FALSE)
  OBVIOUS
<1>13. /\ DOMAIN e = DOMAIN NewChannel /\ e.read = 0 /\ e.write = 0 /\ e.hash = <<<<t, 0>>>>
  <2>1. Hashed("client", <<t>>, FALSE) = <<<<t, 0>>>>
    <3>1. io["client"].out \in Nat /\ io["client"].out = 0
      BY <1>2, <1>6
    <3>2. Hashed("client", <<t>>, FALSE) = <<<<t, io["client"].out>>>>
      BY <3>1, HashedOne
    <3> QED
      BY <3>1, <3>2
  <2>2. /\ DOMAIN SendHash(c, "client", <<t>>, FALSE) = DOMAIN NewChannel
        /\ SendHash(c, "client", <<t>>, FALSE).read = c.read
        /\ SendHash(c, "client", <<t>>, FALSE).write = c.write
        /\ SendHash(c, "client", <<t>>, FALSE).hash = c.hash \o Hashed("client", <<t>>, FALSE)
    BY <1>6, SendHashFacts
  <2>3. <<>> \o <<<<t, 0>>>> = <<<<t, 0>>>>
    OBVIOUS
  <2> QED
    BY <1>6, <1>7, <1>12, <2>1, <2>2, <2>3
<1>14. PICK d : d = [e EXCEPT !.state = "pending", !.expecting = {"ServerHello", "HelloVerifyRequest"}]
  OBVIOUS
<1>15. /\ DOMAIN d = DOMAIN NewChannel /\ d.state = "pending" /\ d.read = 0 /\ d.write = 0 /\ d.hash = <<<<t, 0>>>>
       /\ d.expecting = {"ServerHello", "HelloVerifyRequest"}
  BY <1>13, <1>14 DEF NewChannel
<1>16. PICK y : y = Send(q, items)
  OBVIOUS
<1>17. /\ chan' = [chan EXCEPT !["client"] = d] /\ io' = [io EXCEPT !["client"] = y]
       /\ Put(Wire("client", Records(items))) /\ sent' = [sent EXCEPT !["client"] = items]
       /\ UNCHANGED <<policy, working, failed, got>>
  BY <1>2, <1>8, <1>10, <1>12, <1>14, <1>16 DEF Connect
<1>18. y.in = 0 /\ y.out = 1 /\ HasSent(policy, "client", y)
  <2>1. PICK n : n = Cardinality({i \in DOMAIN items : IsMsg(items[i])})
    OBVIOUS
  <2>2. n = 1
    BY <1>11, <2>1 DEF Continues
  <2>3. y.in = q.in /\ y.out = q.out + n
    BY <1>3, <1>16, <2>1 DEF Send, NewIO
  <2>4. y.in = 0 /\ y.out = 1 /\ y.out > 0
    BY <1>6, <2>2, <2>3
  <2> QED
    BY <2>4 DEF HasSent
<1>19. FlightsTyped(policy, "client", q)
  BY <1>3 DEF SideOk, FlightsOk, FlightsTyped
<1>20. /\ FlightsOk(policy, "client", y) /\ SameInput(q, y)
       /\ y.awaiting_cookie = q.awaiting_cookie /\ y.recreating = q.recreating
  BY <1>1, <1>3, <1>6, <1>11, <1>16, <1>18, <1>19, SendFacts
<1>21. ReceivedOk(policy, "client", y, io["server"].out) /\ DOMAIN y = DOMAIN NewIO
  BY <1>3, <1>20 DEF SideOk, ReceivedOk, SameInput
<1>22. HelloOk(policy, "client", y)
  BY <1>3, <1>20 DEF SideOk, HelloOk, SameInput
<1>23. ChanOk(policy, "client", d, y)
  <2>1. y.in \in 0..Final(policy, Peer("client")) /\ y.in # Final(policy, Peer("client"))
    BY <1>5, <1>18, SidesFacts
  <2>2. y.out = Reply(policy, "client", y.in) /\ d.write = IF y.out > Final(policy, "client") THEN 1 ELSE 0
    BY <1>5, <1>15, <1>18
  <2>3. d.hash = HashOf(policy, "client", y.in)
    <3>1. HashOf(policy, "client", 0) = <<<<"ClientHello", 0>>>>
      BY <1>1, HashTable
    <3> QED
      BY <1>8, <1>15, <1>18, <3>1
  <2>4. TypeOf(policy, Peer("client"), y.in) \in d.expecting /\ CCS \notin d.expecting
    <3>1. TypeOf(policy, "server", 0) \in {"ServerHello", "HelloVerifyRequest"}
      <4>1. CASE a = 0
        <5>1. TypeOf(policy, "server", a) = "ServerHello"
          BY <1>1, <1>5, TypesAt
        <5> QED
          BY <4>1, <5>1
      <4>2. CASE a = 1
        BY <1>1, <1>5, <4>2, TypesAt, PolicyFacts
      <4> QED
        BY <1>5, <4>1, <4>2
    <3> QED
      BY <1>15, <1>18, <3>1, SidesFacts DEF CCS
  <2> QED
    BY <1>1, <1>15, <2>1, <2>2, <2>3, <2>4, ChanPlace
<1>24. SideOk(policy, "client", d, y, io[Peer("client")].out)
  BY <1>20, <1>21, <1>22, <1>23, SidesFacts DEF SideOk
<1>25. SideSet("client", d, y)
  BY <1>1, <1>17 DEF SideSet, DialogueInv
<1>26. \A w \in DOMAIN net' : w \in DOMAIN net \/ (w.from = "client" /\ IsRecord(policy, "client", y.out, w.rec))
  <2>1. items \in Seq(ItemsOf(policy, "client", 1))
    BY <1>11 DEF Continues
  <2>2. \A w \in Wire("client", Records(items)) : w.from = "client" /\ IsRecord(policy, "client", 1, w.rec)
    BY <2>1, WireSends
  <2> QED
    BY <1>17, <1>18, <2>2, PutSends DEF Put
<1>27. io'["client"] = y /\ chan'["client"] = d /\ io'["server"] = io["server"] /\ chan'["server"] = chan["server"]
  BY <1>25, SidesFacts DEF SideSet
<1>28. working' \subseteq Sides /\ (\A s \in working' : chan'[s].state = "pending") /\ Settled'
  BY <1>15, <1>17, <1>27, SidesFacts DEF Settled, DialogueInv
<1>29. y.out >= io["client"].out
  BY <1>2, <1>6, <1>18
<1>30. DialogueInv'
  BY <1>1, <1>17, <1>24, <1>25, <1>26, <1>28, <1>29, SideSteps
<1>31. Begins(items)
  BY <1>2, <1>6, <1>7, <1>11, <1>15, <1>17, <1>18, <1>27, <1>30 DEF Begins
<1> QED
  BY <1>31

\* At first nobody has said anything.
LEMMA InitDialogue ==
  ASSUME Init
  PROVE  DialogueInv
<1>1. policy \in Policy
  BY DtlsHandshakeAssumption DEF Init
<1>2. failed = {} /\ DOMAIN io = Sides /\ DOMAIN chan = Sides /\ NetOk /\ working = {}
  BY DEF Init, NetOk
<1>3. \A p \in Sides : io[p] = NewIO /\ chan[p] = NewChannel
  BY DEF Init
<1>4. ASSUME NEW p \in Sides PROVE SideOk(policy, p, NewChannel, NewIO, 0)
  <2>1. PICK a, f, g : Course(policy, a, f, g)
    BY <1>1, CourseFacts
  <2>2. /\ a \in {0, 1} /\ f \in Nat /\ g \in Nat /\ f > 0 /\ g > 0 /\ f = Final(policy, "server") /\ g = Final(policy, "client")
        /\ Reply(policy, "server", 0) = 0 /\ a = Cookies(policy)
    BY <2>1 DEF Course
  <2>3. NewChannel.state = "none" /\ NewChannel.read = 0 /\ NewChannel.write = 0 /\ NewChannel.hash = <<>> /\ NewIO.in = 0 /\ NewIO.out = 0
    BY DEF NewChannel, NewIO
  <2>4. Final(policy, p) \in Nat /\ Final(policy, Peer(p)) \in Nat /\ Final(policy, p) > 0 /\ Final(policy, Peer(p)) > 0
    BY <2>2, SidesFacts
  <2>5. 0 = IF p = "client" THEN 0 ELSE Reply(policy, p, 0)
    BY <2>2, SidesFacts
  <2>6. 0 \in 0..(Final(policy, Peer(p)) + 1) /\ ~(0 > Final(policy, p)) /\ ~(0 > Final(policy, Peer(p)))
    BY <2>4
  <2>7. ChanOk(policy, p, NewChannel, NewIO)
    BY <2>3, <2>5, <2>6 DEF ChanOk
  <2>8. FlightsOk(policy, p, NewIO)
    <3>1. NewIO.flights = <<<<>>>> /\ NewIO.last_write = FALSE
      BY DEF NewIO
    <3>2. <<<<>>>> \in Seq(Seq(ItemsOf(policy, p, 0))) /\ <<<<>>>> # <<>> /\ Len(<<<<>>>>) = 1
      OBVIOUS
    <3>3. \A j \in 1..(1 - 1) : FALSE
      OBVIOUS
    <3>4. ~(IF p = "client" THEN 0 > 0 ELSE 0 > Cookies(policy))
      BY <2>2
    <3> QED
      BY <2>3, <3>1, <3>2, <3>3, <3>4 DEF FlightsOk
  <2>9. ReceivedOk(policy, p, NewIO, 0)
    <3>1. /\ NewIO.in = 0 /\ DOMAIN NewIO.messages = {} /\ NewIO.ccs_epochs = {} /\ NewIO.retransmitted = {}
      BY DEF NewIO
    <3> QED
      BY <3>1 DEF ReceivedOk
  <2>10. HelloOk(policy, p, NewIO)
    <3>1. /\ NewIO.recreating = FALSE /\ NewIO.awaiting_cookie = FALSE /\ NewIO.client_hello = {} /\ NewIO.in # 1
      BY DEF NewIO
    <3>2. (p = "server" /\ policy.cookie /\ NewIO.in = 1) = FALSE
      BY <3>1
    <3> QED
      BY <3>1, <3>2 DEF HelloOk
  <2> QED
    BY <2>7, <2>8, <2>9, <2>10 DEF SideOk
<1>5. \A p \in Sides : io[Peer(p)].out = 0
  BY <1>3, SidesFacts DEF NewIO
<1>6. Settled
  BY <1>3, SidesFacts DEF Settled, NewChannel
<1> QED
  BY <1>1, <1>2, <1>3, <1>4, <1>5, <1>6 DEF DialogueInv

\* DialogueInv is inductive.
LEMMA DialogueStep ==
  ASSUME DialogueInv, [Next]_vars
  PROVE  DialogueInv'
<1>1. CASE UNCHANGED vars
  BY <1>1 DEF vars, DialogueInv, NetOk, Settled
<1>2. CASE Connect
  BY <1>2, ConnectKeeps DEF Begins
<1>3. ASSUME NEW w \in DOMAIN net, Lose(w) \/ FromPeer(w) PROVE DialogueInv'
  BY <1>3, LoseKeeps, FromPeerKeeps
<1>4. ASSUME NEW p \in Sides, Process(p) PROVE DialogueInv'
  BY <1>4, ProcessKeeps DEF Hears, Switches, Handled, Switched, Repeated
<1>5. ASSUME NEW p \in Sides, Return(p) \/ TimeoutCheck(p) PROVE DialogueInv'
  BY <1>5, ReturnKeeps, TimeoutKeeps
<1>6. CASE Done
  BY <1>1, <1>6 DEF Done
<1> QED
  BY <1>1, <1>2, <1>3, <1>4, <1>5, <1>6 DEF Next

\* process_handshake_msg(), add_record(), retransmit_last_flight(): for every
\* policy, whatever the network loses, repeats, delays or reorders, no handshake
\* of two honest sides throws an exception.
THEOREM NoHandshakeFails == Spec => []NoSpuriousFailure
<1>1. Init => DialogueInv
  BY InitDialogue
<1>2. DialogueInv /\ [Next]_vars => DialogueInv'
  BY DialogueStep
<1>3. DialogueInv => NoSpuriousFailure
  BY DEF DialogueInv, NoSpuriousFailure
<1> QED
  BY <1>1, <1>2, <1>3, PTL DEF Spec

(* The stream of messages.                                                 *)

-----------------------------------------------------------------------------
(* The handshake implements HandshakeStream.                               *)

\* Where message k of p is among the items p sends: the ChangeCipherSpec, which
\* is not counted, goes before the Finished.
Place(pol, p, k) == IF k = Final(pol, p) THEN k + 2 ELSE k + 1

\* s is what p has sent when it has sent out messages, and g what it has been
\* handed when it has been handed i and, if r is 1, the ChangeCipherSpec.
SaidOk(pol, p, out, s) ==
  /\ s \in Seq(ItemsOf(pol, p, out))
  /\ Len(s) = out + (IF out > Final(pol, p) THEN 1 ELSE 0)
  /\ \A k \in 0..(out - 1) : s[Place(pol, p, k)] = Item(pol, p, k)
  /\ out > Final(pol, p) => s[Final(pol, p) + 1] = CCSItem
HeardOk(pol, p, i, r, g) ==
  g \in Seq(ItemsOf(pol, Peer(p), Final(pol, Peer(p)) + 1)) /\ Len(g) = i + r

\* What was sent and handed over so far is what the places of the two sides say.
StreamInv ==
  /\ DOMAIN sent = Sides /\ DOMAIN got = Sides
  /\ \A p \in Sides : /\ SaidOk(policy, p, io[p].out, sent[p])
                      /\ HeardOk(policy, p, io[p].in, chan[p].read, got[p])

\* Concatenation extends a sequence.
LEMMA Joined ==
  ASSUME NEW S, NEW s \in Seq(S), NEW t \in Seq(S)
  PROVE  /\ s \o t \in Seq(S) /\ Len(s \o t) = Len(s) + Len(t)
         /\ \A k \in 1..Len(s) : (s \o t)[k] = s[k]
         /\ \A k \in 1..Len(t) : (s \o t)[Len(s) + k] = t[k]
         /\ Stream!IsPrefix(s, s \o t)
<1>1. /\ s \o t \in Seq(S) /\ Len(s \o t) = Len(s) + Len(t)
      /\ \A k \in 1..Len(s) : (s \o t)[k] = s[k]
      /\ \A k \in 1..Len(t) : (s \o t)[Len(s) + k] = t[k]
  OBVIOUS
<1>2. PICK u \in Seq(S) : u = s \o t
  BY <1>1
<1>3. Len(s) \in Nat /\ Len(u) \in Nat /\ Len(s) <= Len(u)
  BY <1>1, <1>2
<1>4. SubSeq(s, 1, Len(s)) = SubSeq(u, 1, Len(s))
  BY <1>1, <1>2, <1>3
<1> QED
  BY <1>1, <1>2, <1>3, <1>4 DEF Stream!IsPrefix

\* p says more.
LEMMA SaidMore ==
  ASSUME NEW pol \in Policy, NEW p \in Sides, NEW out \in Nat, NEW s, SaidOk(pol, p, out, s), NEW n, NEW items,
         Continues(pol, p, out, n, items), NEW t, t = s \o items
  PROVE  SaidOk(pol, p, n, t) /\ Stream!IsPrefix(s, t)
<1>1. PICK f \in Nat : f = Final(pol, p)
  BY PolicyFacts, SidesFacts
<1>2. /\ n \in Nat /\ n > out /\ items \in Seq(ItemsOf(pol, p, n))
      /\ \A k \in out..(n - 1) : k < f => k - out + 1 \in 1..Len(items) /\ items[k - out + 1] = Item(pol, p, k)
      /\ n <= f => Len(items) = n - out
      /\ ~(n <= f) => /\ n = f + 1 /\ Len(items) = n - out + 1
                      /\ items[n - out] = CCSItem /\ items[n - out + 1] = Item(pol, p, f)
  BY <1>1 DEF Continues
<1>3. out <= f /\ ~(out > f) /\ (n > f <=> n = f + 1)
  BY <1>1, <1>2
<1>4. /\ s \in Seq(ItemsOf(pol, p, out)) /\ Len(s) = out
      /\ \A k \in 0..(out - 1) : s[k + 1] = Item(pol, p, k)
  <2>1. \A k \in 0..(out - 1) : k # f
    BY <1>1, <1>3
  <2> QED
    BY <1>1, <1>3, <2>1 DEF SaidOk, Place
<1>5. s \in Seq(ItemsOf(pol, p, n)) /\ items \in Seq(ItemsOf(pol, p, n)) /\ Len(s) = out
  <2>1. out <= n /\ n \in Nat
    BY <1>2
  <2>2. Seq(ItemsOf(pol, p, out)) \subseteq Seq(ItemsOf(pol, p, n))
    BY <2>1, SentMore
  <2> QED
    BY <1>2, <1>4, <2>2
<1>6. /\ t \in Seq(ItemsOf(pol, p, n)) /\ Len(t) = out + Len(items) /\ Stream!IsPrefix(s, t)
      /\ \A k \in 1..out : t[k] = s[k]
      /\ \A k \in 1..Len(items) : t[out + k] = items[k]
  <2>1. PICK S : S = ItemsOf(pol, p, n)
    OBVIOUS
  <2>2. s \in Seq(S) /\ items \in Seq(S)
    BY <1>5, <2>1
  <2>3. /\ s \o items \in Seq(S) /\ Len(s \o items) = Len(s) + Len(items)
        /\ \A k \in 1..Len(s) : (s \o items)[k] = s[k]
        /\ \A k \in 1..Len(items) : (s \o items)[Len(s) + k] = items[k]
        /\ Stream!IsPrefix(s, s \o items)
    BY <2>2, Joined
  <2> QED
    BY <1>5, <2>1, <2>3
<1>7. ASSUME NEW k \in 0..(n - 1), k # f PROVE t[k + 1] = Item(pol, p, k)
  <2>1. CASE k < out
    <3>1. k \in 0..(out - 1) /\ k + 1 \in 1..out
      BY <2>1
    <3> QED
      BY <1>4, <1>6, <3>1
  <2>2. CASE k >= out
    <3>1. k \in out..(n - 1) /\ k < f /\ out + (k - out + 1) = k + 1
      BY <1>1, <1>2, <1>7, <2>2
    <3> QED
      BY <1>2, <1>6, <3>1
  <2>3. k \in Nat
    BY <1>2
  <2>4. k < out \/ k >= out
    BY <2>3
  <2> QED
    BY <2>1, <2>2, <2>4
<1>8. CASE n <= f
  <2>1. Len(t) = n /\ ~(n > f)
    <3>1. n \in Nat /\ Len(items) = n - out
      BY <1>2, <1>8
    <3>2. Len(t) = out + Len(items)
      BY <1>6
    <3> QED
      BY <1>8, <3>1, <3>2
  <2>2. \A k \in 0..(n - 1) : k # f
    BY <1>1, <1>2, <1>8
  <2> QED
    BY <1>1, <1>2, <1>6, <1>7, <2>1, <2>2 DEF SaidOk, Place
<1>9. CASE ~(n <= f)
  <2>1. n = f + 1 /\ Len(items) = f - out + 2 /\ items[f - out + 1] = CCSItem /\ items[f - out + 2] = Item(pol, p, f)
    <3>1. n = f + 1 /\ Len(items) = n - out + 1 /\ items[n - out] = CCSItem /\ items[n - out + 1] = Item(pol, p, f)
      BY <1>2, <1>9
    <3>2. n - out = f - out + 1 /\ n - out + 1 = f - out + 2
      BY <1>1, <3>1
    <3> QED
      BY <3>1, <3>2
  <2>2. f - out + 1 \in 1..Len(items) /\ f - out + 2 \in 1..Len(items) /\ out + (f - out + 1) = f + 1 /\ out + (f - out + 2) = f + 2
        /\ Len(t) = n + 1 /\ n > f
    <3>1. PICK l : l = Len(items)
      OBVIOUS
    <3>2. l = f - out + 2 /\ n = f + 1 /\ Len(t) = out + l /\ out <= f
      BY <1>3, <1>6, <2>1, <3>1
    <3>3. f - out + 1 \in 1..l /\ f - out + 2 \in 1..l /\ out + (f - out + 1) = f + 1 /\ out + (f - out + 2) = f + 2
          /\ out + l = n + 1 /\ n > f
      BY <3>2
    <3> QED
      BY <3>1, <3>2, <3>3
  <2>3. t[f + 1] = CCSItem /\ t[f + 2] = Item(pol, p, f)
    BY <1>6, <2>1, <2>2
  <2> QED
    BY <1>1, <1>2, <1>6, <1>7, <2>2, <2>3 DEF SaidOk, Place
<1> QED
  BY <1>6, <1>8, <1>9

\* What p says in a step is added to what it has sent.
Spoken(p) ==
  /\ DOMAIN sent' = Sides
  /\ \A s \in Sides : SaidOk(policy, s, io'[s].out, sent'[s])
  /\ Stream!Send(p)

\* So it is for every flight.
LEMMA SaysFacts ==
  ASSUME DialogueInv, StreamInv, NEW p \in Sides, NEW items, Says(p, items)
  PROVE  Spoken(p)
<1>1. /\ policy \in Policy /\ io[p].out \in Nat /\ DOMAIN sent = Sides
      /\ \A s \in Sides : SaidOk(policy, s, io[s].out, sent[s])
  BY SideFacts DEF StreamInv
<1>2. /\ Adds(p, items) /\ \A s \in Sides \ {p} : io'[s] = io[s]
      /\ \/ items = <<>> /\ io'[p].out = io[p].out
         \/ Continues(policy, p, io[p].out, io'[p].out, items)
  BY DEF Says
<1>3. PICK S : sent[p] \in Seq(S)
  BY <1>1 DEF SaidOk
<1>4. sent'[p] = sent[p] \o items /\ DOMAIN sent' = Sides /\ \A s \in Sides \ {p} : sent'[s] = sent[s]
  <2>1. CASE sent' = [sent EXCEPT ![p] = @ \o items]
    BY <1>1, <2>1
  <2>2. ASSUME NEW v, items = <<v>>, sent' = [sent EXCEPT ![p] = Append(@, v)] PROVE <1>4
    <3>1. sent[p] \in Seq(S \cup {v})
      BY <1>3
    <3>2. sent[p] \o <<v>> = Append(sent[p], v)
      BY <3>1, Appends
    <3> QED
      BY <1>1, <2>2, <3>2
  <2>3. CASE items = <<>> /\ sent' = [sent EXCEPT ![p] = @]
    <3>1. sent[p] \o <<>> = sent[p]
      BY <1>3, Appends
    <3> QED
      BY <1>1, <2>3, <3>1
  <2> QED
    BY <1>2, <2>1, <2>2, <2>3 DEF Adds
<1>5. SaidOk(policy, p, io'[p].out, sent'[p]) /\ Stream!IsPrefix(sent[p], sent'[p])
  <2>1. CASE items = <<>> /\ io'[p].out = io[p].out
    <3>1. <<>> \in Seq(S)
      OBVIOUS
    <3>2. Stream!IsPrefix(sent[p], sent[p] \o <<>>) /\ sent[p] \o <<>> = sent[p]
      BY <1>3, <3>1, Joined, Appends
    <3> QED
      BY <1>1, <1>4, <2>1, <3>2
  <2>2. CASE Continues(policy, p, io[p].out, io'[p].out, items)
    <3>1. PICK out, n, s, t : out \in Nat /\ out = io[p].out /\ n = io'[p].out /\ s = sent[p] /\ t = s \o items
      BY <1>1
    <3>2. SaidOk(policy, p, out, s) /\ Continues(policy, p, out, n, items)
      BY <1>1, <2>2, <3>1
    <3>3. SaidOk(policy, p, n, t) /\ Stream!IsPrefix(s, t)
      BY <1>1, <3>1, <3>2, SaidMore
    <3> QED
      BY <1>4, <3>1, <3>3
  <2> QED
    BY <1>2, <2>1, <2>2
<1>6. \A s \in Sides : SaidOk(policy, s, io'[s].out, sent'[s])
  BY <1>1, <1>2, <1>4, <1>5
<1>7. Stream!Send(p)
  BY <1>4, <1>5 DEF Stream!Send
<1> QED
  BY <1>4, <1>6, <1>7 DEF Spoken

\* What p is handed is next in what its peer has sent.
LEMMA HearsNext ==
  ASSUME DialogueInv, StreamInv, NEW p \in Sides, Hears(p)
  PROVE  Stream!Receive(p) /\ HeardOk(policy, p, io[p].in + 1, chan[p].read, got'[p])
<1>1. /\ policy \in Policy /\ Peer(p) \in Sides /\ io[p].in \in Nat /\ io[Peer(p)].out \in Nat
      /\ Final(policy, Peer(p)) \in Nat
  BY SideFacts, PolicyFacts, SidesFacts
<1>2. PICK f, q, i, n, s, g :
        /\ f = Final(policy, Peer(p)) /\ q = Peer(p) /\ i = io[p].in /\ n = io[q].out /\ s = sent[q] /\ g = got[p]
        /\ f \in Nat /\ i \in Nat /\ n \in Nat
  BY <1>1, Zenon
<1>3. PICK v : v = Item(policy, q, i)
  OBVIOUS
<1>4. /\ i \in 0..f /\ i < n /\ chan[p].read = (IF i = f THEN 1 ELSE 0)
      /\ got' = [got EXCEPT ![p] = Append(g, v)]
  BY <1>2, <1>3 DEF Hears
<1>5. SaidOk(policy, q, n, s) /\ g \in Seq(ItemsOf(policy, q, f + 1)) /\ Len(g) = i + chan[p].read /\ DOMAIN got = Sides
  BY <1>1, <1>2 DEF StreamInv, HeardOk
<1>6. /\ Len(s) = n + (IF n > f THEN 1 ELSE 0)
      /\ \A k \in 0..(n - 1) : s[IF k = f THEN k + 2 ELSE k + 1] = Item(policy, q, k)
  BY <1>2, <1>5 DEF SaidOk, Place
<1>7. i \in 0..(n - 1)
  BY <1>2, <1>4
<1>8. s[IF i = f THEN i + 2 ELSE i + 1] = v
  BY <1>3, <1>6, <1>7
<1>9. Len(g) + 1 = (IF i = f THEN i + 2 ELSE i + 1) /\ Len(g) < Len(s)
  <2>1. PICK l, r : l = Len(g) /\ r = Len(s)
    OBVIOUS
  <2>2. l = i + (IF i = f THEN 1 ELSE 0) /\ r = n + (IF n > f THEN 1 ELSE 0)
    BY <1>4, <1>5, <1>6, <2>1
  <2>3. f \in Nat /\ i \in Nat /\ n \in Nat /\ i <= f /\ i < n
    BY <1>2, <1>4
  <2>4. CASE i = f
    BY <2>1, <2>2, <2>3, <2>4
  <2>5. CASE i # f
    BY <2>1, <2>2, <2>3, <2>5
  <2> QED
    BY <2>4, <2>5
<1>10. v = s[Len(g) + 1]
  BY <1>8, <1>9
<1>11. Stream!Receive(p)
  BY <1>2, <1>4, <1>9, <1>10 DEF Stream!Receive
<1>12. v \in ItemsOf(policy, q, f + 1)
  <2>1. PICK e : e = f + 1
    OBVIOUS
  <2>2. i \in 0..(e - 1)
    BY <1>2, <1>4, <2>1
  <2>3. v \in ItemsOf(policy, q, e)
    BY <1>3, <2>2 DEF ItemsOf
  <2> QED
    BY <2>1, <2>3
<1>13. got'[p] = Append(g, v)
  BY <1>4, <1>5
<1>14. Append(g, v) \in Seq(ItemsOf(policy, q, f + 1)) /\ Len(Append(g, v)) = Len(g) + 1
  BY <1>5, <1>12
<1>15. Len(Append(g, v)) = i + 1 + chan[p].read
  BY <1>4, <1>5, <1>14
<1> QED
  BY <1>2, <1>11, <1>13, <1>14, <1>15 DEF HeardOk

\* And so is the ChangeCipherSpec: the peer sent it right before its Finished.
LEMMA SwitchesNext ==
  ASSUME DialogueInv, StreamInv, NEW p \in Sides, Switches(p)
  PROVE  Stream!Receive(p) /\ HeardOk(policy, p, io[p].in, 1, got'[p])
<1>1. /\ policy \in Policy /\ Peer(p) \in Sides /\ io[p].in \in Nat /\ io[Peer(p)].out \in Nat
      /\ Final(policy, Peer(p)) \in Nat
  BY SideFacts, PolicyFacts, SidesFacts
<1>2. PICK f, q, n, s, g :
        /\ f = Final(policy, Peer(p)) /\ q = Peer(p) /\ n = io[q].out /\ s = sent[q] /\ g = got[p]
        /\ f \in Nat /\ n \in Nat
  BY <1>1, Zenon
<1>4. /\ io[p].in = f /\ n > f /\ chan[p].read = 0 /\ got' = [got EXCEPT ![p] = Append(g, CCSItem)]
  BY <1>2 DEF Switches, Switched
<1>5. SaidOk(policy, q, n, s) /\ g \in Seq(ItemsOf(policy, q, f + 1)) /\ Len(g) = f + 0 /\ DOMAIN got = Sides
  BY <1>1, <1>2, <1>4 DEF StreamInv, HeardOk
<1>6. Len(s) = n + 1 /\ s[f + 1] = CCSItem
  BY <1>2, <1>4, <1>5 DEF SaidOk
<1>7. Len(g) = f /\ Len(g) < Len(s)
  BY <1>2, <1>4, <1>5, <1>6
<1>8. CCSItem = s[Len(g) + 1]
  BY <1>6, <1>7
<1>9. Stream!Receive(p)
  BY <1>2, <1>4, <1>7, <1>8 DEF Stream!Receive
<1>10. CCSItem \in ItemsOf(policy, q, f + 1)
  BY <1>2 DEF ItemsOf
<1>11. got'[p] = Append(g, CCSItem)
  BY <1>4, <1>5
<1>12. Append(g, CCSItem) \in Seq(ItemsOf(policy, q, f + 1)) /\ Len(Append(g, CCSItem)) = f + 1
  BY <1>5, <1>7, <1>10
<1> QED
  BY <1>2, <1>4, <1>9, <1>11, <1>12 DEF HeardOk

\* A step of one side, p, and what it is handed.
LEMMA OneSide ==
  ASSUME DialogueInv, StreamInv, NEW p \in Sides, Spoken(p), policy' = policy,
         \A s \in Sides \ {p} : io'[s].in = io[s].in /\ chan'[s].read = chan[s].read /\ got'[s] = got[s],
         DOMAIN got' = Sides, HeardOk(policy, p, io'[p].in, chan'[p].read, got'[p]),
         Stream!Receive(p) \/ UNCHANGED got
  PROVE  StreamInv' /\ Stream!Next
<1>1. \A s \in Sides : HeardOk(policy, s, io'[s].in, chan'[s].read, got'[s])
  BY DEF StreamInv
<1>2. StreamInv'
  BY <1>1 DEF StreamInv, Spoken
<1>3. Stream!Next
  BY DEF Stream!Next, Spoken
<1> QED
  BY <1>2, <1>3

\* The other steps stutter.
LEMMA QuietStep ==
  ASSUME StreamInv, Quiet
  PROVE  StreamInv' /\ UNCHANGED Stream!vars
BY DEF StreamInv, Quiet, Stream!vars, history

\* Every step sends, receives or stutters.
LEMMA StreamStep ==
  ASSUME DialogueInv, StreamInv, [Next]_vars
  PROVE  StreamInv' /\ [Stream!Next]_(Stream!vars)
<1>0. DOMAIN got = Sides /\ \A s \in Sides : HeardOk(policy, s, io[s].in, chan[s].read, got[s])
  BY DEF StreamInv
<1>1. CASE UNCHANGED vars
  BY <1>1 DEF vars, history, StreamInv, Stream!vars
<1>2. CASE Connect
  <2>1. PICK items : Begins(items)
    BY <1>2, ConnectKeeps
  <2>2. "client" \in Sides /\ policy \in Policy /\ SaidOk(policy, "client", 0, sent["client"]) /\ DOMAIN sent = Sides
    BY <2>1, SidesFacts DEF Begins, StreamInv, DialogueInv
  <2>3. sent["client"] = <<>>
    <3>1. PICK s, S : s = sent["client"] /\ s \in Seq(S) /\ Len(s) = 0 + (IF 0 > Final(policy, "client") THEN 1 ELSE 0)
      BY <2>2 DEF SaidOk
    <3>2. Final(policy, "client") \in Nat
      BY <2>2, PolicyFacts
    <3>3. Len(s) = 0
      BY <3>1, <3>2
    <3> QED
      BY <3>1, <3>3
  <2>4. PICK S : items \in Seq(S)
    BY <2>1 DEF Begins, Continues
  <2>5. <<>> \o items = items
    BY <2>4
  <2>6. sent' = [sent EXCEPT !["client"] = @ \o items]
    BY <2>1, <2>2, <2>3, <2>5 DEF Begins
  <2>7. Says("client", items)
    BY <2>1, <2>6, SidesFacts DEF Begins, Says, Adds
  <2>8. Spoken("client")
    BY <2>2, <2>7, SaysFacts
  <2>9. /\ policy' = policy /\ got' = got /\ io'["client"].in = io["client"].in /\ chan'["client"].read = chan["client"].read
        /\ io'["server"] = io["server"] /\ chan'["server"] = chan["server"]
    BY <2>1 DEF Begins
  <2>10. StreamInv' /\ Stream!Next
    BY <1>0, <2>2, <2>8, <2>9, OneSide, SidesFacts
  <2> QED
    BY <2>10
<1>3. ASSUME NEW w \in DOMAIN net, Lose(w) \/ FromPeer(w) PROVE StreamInv' /\ UNCHANGED Stream!vars
  BY <1>3, LoseKeeps, FromPeerKeeps, QuietStep
<1>4. ASSUME NEW p \in Sides, Process(p) PROVE StreamInv' /\ Stream!Next
  <2>1. CASE Hears(p)
    <3>1. PICK items : Says(p, items)
      BY <2>1 DEF Hears, Handled
    <3>2. Spoken(p)
      BY <3>1, SaysFacts
    <3>3. /\ policy' = policy /\ (\A s \in Sides \ {p} : io'[s] = io[s] /\ chan'[s] = chan[s])
          /\ io'[p].in = io[p].in + 1 /\ chan'[p].read = chan[p].read
          /\ got' = [got EXCEPT ![p] = Append(@, Item(policy, Peer(p), io[p].in))]
      BY <2>1, <3>1 DEF Hears, Handled, Says
    <3>4. Stream!Receive(p) /\ HeardOk(policy, p, io[p].in + 1, chan[p].read, got'[p])
      BY <2>1, HearsNext
    <3>5. DOMAIN got' = Sides /\ \A s \in Sides \ {p} : got'[s] = got[s]
      BY <1>0, <3>3
    <3>6. HeardOk(policy, p, io'[p].in, chan'[p].read, got'[p])
      BY <3>3, <3>4
    <3> QED
      BY <3>2, <3>3, <3>4, <3>5, <3>6, OneSide
  <2>2. CASE Switches(p)
    <3>1. Says(p, <<>>)
      BY <2>2 DEF Switches, Switched
    <3>2. Spoken(p)
      BY <3>1, SaysFacts
    <3>3. /\ policy' = policy /\ (\A s \in Sides \ {p} : io'[s] = io[s] /\ chan'[s] = chan[s])
          /\ io'[p].in = io[p].in /\ chan'[p].read = 1
          /\ got' = [got EXCEPT ![p] = Append(@, CCSItem)]
      BY <2>2, <3>1 DEF Switches, Switched, Says
    <3>4. Stream!Receive(p) /\ HeardOk(policy, p, io[p].in, 1, got'[p])
      BY <2>2, SwitchesNext
    <3>5. DOMAIN got' = Sides /\ \A s \in Sides \ {p} : got'[s] = got[s]
      BY <1>0, <3>3
    <3>6. HeardOk(policy, p, io'[p].in, chan'[p].read, got'[p])
      BY <3>3, <3>4
    <3> QED
      BY <3>2, <3>3, <3>4, <3>5, <3>6, OneSide
  <2>3. CASE Repeated(p) /\ UNCHANGED got
    <3>1. Says(p, <<>>)
      BY <2>3 DEF Repeated
    <3>2. Spoken(p)
      BY <3>1, SaysFacts
    <3>3. /\ policy' = policy /\ (\A s \in Sides \ {p} : io'[s] = io[s] /\ chan'[s] = chan[s])
          /\ io'[p].in = io[p].in /\ chan'[p].read = chan[p].read /\ got' = got
      BY <2>3, <3>1 DEF Repeated, Says
    <3>4. HeardOk(policy, p, io'[p].in, chan'[p].read, got'[p])
      BY <1>0, <3>3
    <3> QED
      BY <1>0, <3>2, <3>3, <3>4, OneSide
  <2> QED
    BY <1>4, <2>1, <2>2, <2>3, ProcessKeeps
<1>5. ASSUME NEW p \in Sides, Return(p) \/ TimeoutCheck(p) PROVE StreamInv' /\ UNCHANGED Stream!vars
  BY <1>5, ReturnKeeps, TimeoutKeeps, QuietStep
<1>6. CASE Done
  BY <1>1, <1>6 DEF Done
<1> QED
  BY <1>1, <1>2, <1>3, <1>4, <1>5, <1>6 DEF Next

\* At first nothing was sent.
LEMMA InitStream ==
  ASSUME Init
  PROVE  StreamInv /\ Stream!Init
<1>1. policy \in Policy
  BY DtlsHandshakeAssumption DEF Init
<1>2. Stream!Init
  BY DEF Init, Stream!Init
<1>3. DOMAIN sent = Sides /\ DOMAIN got = Sides
  BY DEF Init
<1>4. \A p \in Sides : sent[p] = <<>> /\ got[p] = <<>> /\ io[p].in = 0 /\ io[p].out = 0 /\ chan[p].read = 0
  BY DEF Init, NewIO, NewChannel
<1>5. ASSUME NEW p \in Sides PROVE SaidOk(policy, p, 0, <<>>) /\ HeardOk(policy, p, 0, 0, <<>>)
  <2>1. Final(policy, p) \in Nat
    BY <1>1, PolicyFacts, SidesFacts
  <2>2. ~(0 > Final(policy, p)) /\ \A k \in 0..(0 - 1) : FALSE
    BY <2>1
  <2>3. \A S : <<>> \in Seq(S) /\ Len(<<>>) = 0
    OBVIOUS
  <2> QED
    BY <2>2, <2>3 DEF SaidOk, HeardOk
<1> QED
  BY <1>2, <1>3, <1>4, <1>5 DEF StreamInv

\* get_next_record(): for every policy and any network, each handshake is handed
\* what its peer sent, once, unchanged, in the order it was sent and with the
\* ChangeCipherSpec in its place.  What can be handed over is fixed by the place of
\* each side in the dialogue, so that StreamInv need only add how much was.
THEOREM HandshakeRefines == Spec => ImplementsStream
<1>1. Init => DialogueInv /\ StreamInv /\ Stream!Init
  BY InitDialogue, InitStream
<1>2. DialogueInv /\ StreamInv /\ [Next]_vars => DialogueInv' /\ StreamInv' /\ [Stream!Next]_(Stream!vars)
  BY DialogueStep, StreamStep
<1> QED
  BY <1>1, <1>2, PTL DEF Spec, ImplementsStream, Stream!Spec

-----------------------------------------------------------------------------
(* Who answers when both sides are finished.                               *)

\* What the proof has to know of handshake IOs, channels and the network.
HasFlags(q) == "finished" \in DOMAIN q /\ "terminal" \in DOMAIN q
HasState(c) == "state" \in DOMAIN c /\ c.state \in {"none", "pending", "active", "closed"}
Counts(n) == \A w \in DOMAIN n : n[w] \in Nat \ {0}

\* A side that is active has finalized its handshake IO, which knows whether it
\* sent the last flight; a side that is processing a record is not active yet.
FlagInv ==
  /\ DOMAIN chan = Sides /\ DOMAIN io = Sides
  /\ \A p \in Sides : HasState(chan[p]) /\ HasFlags(io[p])
  /\ \A p \in Sides : chan[p].state = "active" => io[p].finished /\ (io[p].terminal <=> SentTerminal(p))
  /\ working \subseteq Sides /\ \A p \in working : chan[p].state = "pending"
  /\ Counts(net)

\* The flags of handshake IOs q and r are the same.
SameFlags(q, r) == HasFlags(r) /\ r.finished = q.finished /\ r.terminal = q.terminal

\* The operations of the handshake IO but Finalize leave the flags alone.
LEMMA FlagsStay ==
  ASSUME NEW q, HasFlags(q)
  PROVE  /\ \A items : SameFlags(q, Send(q, items))
         /\ SameFlags(q, SendHelloVerify(q))
         /\ SameFlags(q, ConcludeFlight(q))
         /\ \A m : SameFlags(q, AfterNext(q, m))
         /\ \A n : SameFlags(q, [q EXCEPT !.count = n])
<1>1. \A items : SameFlags(q, Send(q, items))
  BY DEF SameFlags, HasFlags, Send
<1>2. SameFlags(q, SendHelloVerify(q))
  BY DEF SameFlags, HasFlags, SendHelloVerify
<1>3. SameFlags(q, ConcludeFlight(q))
  BY DEF SameFlags, HasFlags, ConcludeFlight
<1>4. ASSUME NEW m PROVE SameFlags(q, AfterNext(q, m))
  <2>1. CASE m.type = CCS
    BY <2>1 DEF SameFlags, HasFlags, AfterNext
  <2>2. CASE m.type # CCS /\ m.seq < q.in
    BY <2>2 DEF SameFlags, HasFlags, AfterNext
  <2>3. CASE m.type # CCS /\ ~(m.seq < q.in)
    BY <2>3 DEF SameFlags, HasFlags, AfterNext
  <2> QED
    BY <2>1, <2>2, <2>3
<1>5. \A n : SameFlags(q, [q EXCEPT !.count = n])
  BY DEF SameFlags, HasFlags
<1> QED
  BY <1>1, <1>2, <1>3, <1>4, <1>5

\* Finalize keeps who sent the last flight.
LEMMA FlagsFinal ==
  ASSUME NEW q, HasFlags(q), NEW last
  PROVE  HasFlags(Finalize(q, last)) /\ Finalize(q, last).finished /\ Finalize(q, last).terminal = last
BY FlagsStay DEF Finalize, HasFlags, SameFlags

\* add_record() leaves them alone as well.
LEMMA AddRecordFlags ==
  ASSUME NEW q, HasFlags(q), NEW r, NEW again \in BOOLEAN
  PROVE  SameFlags(q, AddRecord(q, r, again).io)
<1>1. SameFlags(q, q) /\ SameFlags(q, AfterOld(q, r))
  BY DEF SameFlags, HasFlags, AfterOld
<1>2. SameFlags(q, AddCCS(q, r, again).io)
  BY DEF SameFlags, HasFlags, AddCCS
<1>3. SameFlags(q, PreviousClientHello(q, r, again).io)
  BY <1>1 DEF SameFlags, HasFlags, PreviousClientHello
<1>4. SameFlags(q, PreviousServerHello(q, r).io) /\ SameFlags(q, PreviousServerHelloDone(q, r).io)
  BY <1>1 DEF SameFlags, HasFlags, PreviousServerHello, PreviousServerHelloDone
<1>5. SameFlags(q, PreviousFinished(q, r).io)
  BY <1>1 DEF SameFlags, HasFlags, PreviousFinished
<1>6. SameFlags(q, Previous(q, r, again).io)
  BY <1>1, <1>3, <1>4, <1>5 DEF Previous
<1>7. CASE r.type = CCS
  BY <1>2, <1>7 DEF AddRecord
<1>8. CASE r.type # CCS /\ IsNew(q, r)
  <2>1. \A s : SameFlags(q, [q EXCEPT !.messages = s])
    BY DEF SameFlags, HasFlags
  <2>2. CASE again
    BY <1>1, <1>8, <2>2 DEF AddRecord
  <2>3. CASE ~again
    BY <1>8, <2>1, <2>3 DEF AddRecord
  <2> QED
    BY <2>2, <2>3
<1>9. CASE r.type # CCS /\ ~IsNew(q, r)
  BY <1>6, <1>9 DEF AddRecord
<1> QED
  BY <1>7, <1>8, <1>9

\* Bag n has no more than bag m of what side p sent, and no other records of it.
Fewer(p, n, m) == \A v \in DOMAIN n : v.from = p => v \in DOMAIN m /\ n[v] <= m[v]

\* Taking a record out of the network.
LEMMA WithoutFacts ==
  ASSUME Counts(net), NEW w \in DOMAIN net
  PROVE  Counts(Without(w)) /\ \A p : Fewer(p, Without(w), net)
<1>1. \A v \in DOMAIN Without(w) : v \in DOMAIN net /\ (v = w => net[w] # 1)
                                   /\ Without(w)[v] = (IF v = w THEN net[w] - 1 ELSE net[v])
  BY DEF Without
<1> QED
  BY <1>1 DEF Counts, Fewer

\* Sending adds records of the sender alone.
LEMMA PutFacts ==
  ASSUME NEW n, Counts(n), NEW ws, PutInto(n, ws)
  PROVE  /\ Counts(net')
         /\ \A p : (\A v \in ws : v.from # p) => Fewer(p, net', n)
<1>1. PICK old \in SUBSET (DOMAIN n \ ws) :
        net' = [w \in old \cup ws |->
                  IF w \notin ws THEN n[w]
                  ELSE IF w.rec.epoch = 0 \/ w \notin DOMAIN n THEN 1
                  ELSE Min({n[w] + 1, MaxCopies})]
  BY DEF PutInto
<1>2. \A w \in old : w \in DOMAIN n /\ net'[w] = n[w]
  BY <1>1
<1>3. ASSUME NEW w \in ws PROVE net'[w] \in Nat \ {0}
  <2>1. CASE w.rec.epoch = 0 \/ w \notin DOMAIN n
    BY <1>1, <1>3, <2>1
  <2>2. CASE ~(w.rec.epoch = 0 \/ w \notin DOMAIN n)
    <3>1. PICK a : a = n[w] + 1 /\ a \in Nat \ {0}
      BY <2>2 DEF Counts
    <3>2. Min({a, MaxCopies}) \in {a, MaxCopies}
      <4>1. \E x \in {a, MaxCopies} : \A y \in {a, MaxCopies} : x <= y
        BY <3>1, DtlsHandshakeAssumption
      <4> QED
        BY <4>1 DEF Min
    <3>3. net'[w] = Min({a, MaxCopies})
      BY <1>1, <1>3, <2>2, <3>1
    <3> QED
      BY <3>1, <3>2, <3>3, DtlsHandshakeAssumption
  <2> QED
    BY <2>1, <2>2
<1>4. DOMAIN net' = old \cup ws
  BY <1>1
<1>5. Counts(net')
  BY <1>2, <1>3, <1>4 DEF Counts
<1>6. \A p : (\A v \in ws : v.from # p) => Fewer(p, net', n)
  BY <1>2, <1>4 DEF Fewer, Counts
<1> QED
  BY <1>5, <1>6

\* The same when the record that is answered is taken out.
LEMMA PutAfterFacts ==
  ASSUME Counts(net), NEW w \in DOMAIN net, NEW ws, PutAfter(w, ws)
  PROVE  /\ Counts(net')
         /\ \A p : (\A v \in ws : v.from # p) => Fewer(p, net', net)
<1>1. PICK n \in {Without(w), net} : IF ws = {} THEN net' = n ELSE PutInto(n, ws)
  BY DEF PutAfter
<1>2. Counts(n) /\ \A p : Fewer(p, n, net)
  BY <1>1, WithoutFacts DEF Fewer, Counts
<1>3. CASE ws = {}
  BY <1>1, <1>2, <1>3
<1>4. CASE ws # {}
  <2>1. Counts(net') /\ \A p : (\A v \in ws : v.from # p) => Fewer(p, net', n)
    BY <1>1, <1>2, <1>4, PutFacts
  <2>2. ASSUME NEW p, Fewer(p, net', n) PROVE Fewer(p, net', net)
    BY <1>2, <2>1, <2>2 DEF Fewer, Counts
  <2> QED
    BY <2>1, <2>2
<1> QED
  BY <1>3, <1>4

\* The channel of a handshake that is going on.
Kept(c) == "state" \in DOMAIN c /\ c.state = "pending"

\* An exception makes nobody active.
LEMMA FailFlags ==
  ASSUME FlagInv, NEW p \in Sides, NEW why, Fail(p, why)
  PROVE  FlagInv'
BY DEF FlagInv, Fail, SentTerminal, HasFlags, HasState, Counts

\* A handshake that goes on is not active.
LEMMA ProceedFlags ==
  ASSUME FlagInv, NEW p \in Sides, NEW c, Kept(c), NEW q, HasFlags(q),
         NEW items, Proceed(p, c, q, items)
  PROVE  FlagInv'
<1>1. HasFlags(io'[p]) /\ DOMAIN io' = Sides /\ \A s \in Sides \ {p} : io'[s] = io[s]
  BY FlagsStay DEF Proceed, FlagInv, SameFlags
<1>2. chan'[p] = c /\ DOMAIN chan' = Sides /\ \A s \in Sides \ {p} : chan'[s] = chan[s]
  BY DEF Proceed, FlagInv
<1>3. Counts(net')
  BY PutFacts DEF Proceed, Put, FlagInv
<1>4. policy' = policy /\ working' = working
  BY DEF Proceed
<1>5. \A s \in Sides : HasState(chan'[s]) /\ HasFlags(io'[s])
  BY <1>1, <1>2 DEF FlagInv, Kept, HasState
<1>6. \A s \in Sides : chan'[s].state = "active" => io'[s].finished /\ (io'[s].terminal <=> SentTerminal(s))
  BY <1>1, <1>2 DEF FlagInv, Kept, HasState
<1>7. \A s \in working : chan'[s].state = "pending"
  BY <1>2 DEF FlagInv, Proceed, Kept
<1> QED
  BY <1>1, <1>2, <1>3, <1>4, <1>5, <1>6, <1>7 DEF FlagInv, SentTerminal, HasFlags, HasState, Counts

\* activate_session() finalizes the handshake IO.
LEMMA ActivateFlags ==
  ASSUME FlagInv, NEW p \in Sides, NEW c, Kept(c), NEW q, HasFlags(q),
         NEW items, Activate(p, c, q, items)
  PROVE  FlagInv'
<1>1. PICK q2 : q2 = (IF items = <<>> THEN q ELSE Send(q, items)) /\ HasFlags(q2)
  BY FlagsStay DEF SameFlags
<1>2. PICK last : last = SentTerminal(p)
  OBVIOUS
<1>3. PICK q3 : q3 = Finalize(q2, last) /\ HasFlags(q3) /\ q3.finished /\ q3.terminal = last
  BY <1>1, FlagsFinal
<1>4. io' = [io EXCEPT ![p] = q3]
  BY <1>1, <1>2, <1>3 DEF Activate
<1>5. DOMAIN io' = Sides /\ io'[p] = q3 /\ \A s \in Sides \ {p} : io'[s] = io[s]
  BY <1>4 DEF FlagInv
<1>6. PICK d : d = [c EXCEPT !.state = "active", !.expecting = {}] /\ HasState(d)
  <2>1. \A e : HasState([c EXCEPT !.state = "active", !.expecting = e])
    BY DEF Kept, HasState
  <2> QED
    BY <2>1
<1>7. chan' = [chan EXCEPT ![p] = d]
  BY <1>6 DEF Activate
<1>8. DOMAIN chan' = Sides /\ chan'[p] = d /\ \A s \in Sides \ {p} : chan'[s] = chan[s]
  BY <1>7 DEF FlagInv
<1>9. Counts(net')
  BY PutFacts DEF Activate, Put, FlagInv
<1>10. policy' = policy /\ working' = {}
  BY DEF Activate
<1>11. \A s \in Sides : HasState(chan'[s]) /\ HasFlags(io'[s])
  BY <1>3, <1>5, <1>6, <1>8 DEF FlagInv
<1>12. \A s \in Sides : chan'[s].state = "active" => io'[s].finished /\ (io'[s].terminal <=> SentTerminal(s))
  BY <1>2, <1>3, <1>5, <1>8 DEF FlagInv
<1> QED
  BY <1>5, <1>8, <1>9, <1>10, <1>11, <1>12 DEF FlagInv, SentTerminal, HasFlags, HasState, Counts

\* The handlers change neither the state of the channel nor its shape.
LEMMA KeptFacts ==
  ASSUME NEW c, Kept(c)
  PROVE  /\ \A types : Kept(Expect(c, types))
         /\ \A m : Kept(WithHash(c, m))
         /\ \A p, types, fin : Kept(SendHash(c, p, types, fin))
         /\ Kept(NextWrite(c))
         /\ \A h : Kept([c EXCEPT !.hash = h])
         /\ \A h, t : Kept([c EXCEPT !.hash = h, !.expecting = t])
         /\ Kept([c EXCEPT !.read = @ + 1])
BY DEF Kept, Expect, WithHash, SendHash, NextWrite

\* Every handler.
LEMMA HandlerFlags ==
  ASSUME FlagInv, NEW p \in Sides, Kept(chan[p]), NEW m, NEW q, HasFlags(q),
         Handler(p, m, q)
  PROVE  FlagInv'
<1>1. CASE HelloVerifyRequest(p, m, q)
  BY <1>1, KeptFacts, ProceedFlags DEF HelloVerifyRequest
<1>2. CASE ServerHello(p, m, q) \/ ServerKeyExchange(p, m, q) \/ NewSessionTicket(p, m, q)
           \/ ClientKeyExchange(p, m, q)
  BY <1>2, KeptFacts, ProceedFlags DEF ServerHello, ServerKeyExchange, NewSessionTicket, ClientKeyExchange
<1>3. CASE ServerHelloDone(p, m, q)
  BY <1>3, KeptFacts, ProceedFlags, FailFlags DEF ServerHelloDone
<1>4. CASE ChangeCipherSpec(p, m, q)
  BY <1>4, KeptFacts, ProceedFlags DEF ChangeCipherSpec
<1>5. CASE ClientHello(p, m, q)
  <2>1. PICK c : c = WithHash(chan[p], m) /\ Kept(c)
    BY KeptFacts
  <2>2. PICK types, items : types = (IF policy.resume THEN session_resume ELSE session_create)
                            /\ items = Flight(p, types, policy.resume, c.hash)
    OBVIOUS
  <2>3. CASE HaveMoreData(q)
    BY <1>5, <2>3, FailFlags DEF ClientHello
  <2>4. CASE ~HaveMoreData(q) /\ policy.cookie /\ m.seq = 0
    <3>1. PICK d : d = Expect([c EXCEPT !.hash = <<>>], {"ClientHello"}) /\ Kept(d)
      BY <2>1, KeptFacts
    <3>2. PICK r : r = SendHelloVerify(q) /\ HasFlags(r)
      BY FlagsStay DEF SameFlags
    <3>3. io' = [io EXCEPT ![p] = r] /\ chan' = [chan EXCEPT ![p] = d] /\ policy' = policy /\ working' = working
      BY <1>5, <2>1, <2>4, <3>1, <3>2 DEF ClientHello
    <3>4. Counts(net')
      BY <1>5, <2>4, PutFacts DEF ClientHello, Put, FlagInv
    <3>5. /\ DOMAIN io' = Sides /\ io'[p] = r /\ \A s \in Sides \ {p} : io'[s] = io[s]
          /\ DOMAIN chan' = Sides /\ chan'[p] = d /\ \A s \in Sides \ {p} : chan'[s] = chan[s]
      BY <3>3 DEF FlagInv
    <3>6. \A s \in Sides : HasState(chan'[s]) /\ HasFlags(io'[s])
      BY <3>1, <3>2, <3>5 DEF FlagInv, Kept, HasState
    <3>7. \A s \in Sides : chan'[s].state = "active" => io'[s].finished /\ (io'[s].terminal <=> SentTerminal(s))
      BY <3>1, <3>5 DEF FlagInv, Kept, HasState
    <3>8. \A s \in working : chan'[s].state = "pending"
      BY <3>1, <3>3, <3>5 DEF FlagInv, Kept, HasState
    <3> QED
      BY <3>3, <3>4, <3>5, <3>6, <3>7, <3>8 DEF FlagInv, SentTerminal, HasFlags, HasState, Counts
  <2>5. CASE ~HaveMoreData(q) /\ ~(policy.cookie /\ m.seq = 0)
    <3>1. PICK d : d = (IF policy.resume THEN NextWrite(SendHash(Expect(c, {CCS}), p, types, TRUE))
                        ELSE SendHash(Expect(c, {"ClientKeyExchange"}), p, types, FALSE))
                   /\ Kept(d)
      BY <2>1, KeptFacts
    <3>2. Proceed(p, d, q, items)
      BY <1>5, <2>1, <2>2, <2>5, <3>1 DEF ClientHello
    <3> QED
      BY <3>1, <3>2, ProceedFlags
  <2> QED
    BY <2>3, <2>4, <2>5
<1>6. ASSUME NEW answers, NEW types, Finished(p, m, q, answers, types) PROVE FlagInv'
  <2>1. PICK c : c = WithHash(chan[p], m) /\ Kept(c)
    BY KeptFacts
  <2>2. PICK items, d : items = Flight(p, types, TRUE, c.hash) /\ d = NextWrite(SendHash(c, p, types, TRUE)) /\ Kept(d)
    BY <2>1, KeptFacts
  <2>3. \/ \E why : Fail(p, why)
        \/ Activate(p, d, q, items)
        \/ Activate(p, c, q, <<>>)
    BY <1>6, <2>1, <2>2 DEF Finished
  <2> QED
    BY <2>1, <2>2, <2>3, ActivateFlags, FailFlags
<1> QED
  BY <1>1, <1>2, <1>3, <1>4, <1>5, <1>6 DEF Handler, ServerFinished, ClientFinished

\* process_handshake_ccs().
LEMMA ProcessFlags ==
  ASSUME FlagInv, NEW p \in Sides, Process(p) \/ Return(p)
  PROVE  FlagInv'
<1>1. Kept(chan[p]) /\ working = {p}
  BY DEF FlagInv, Kept, HasState, Process, Return
<1>2. CASE Process(p)
  <2>1. PICK m \in NextFor(p) :
          LET q == AfterNext(ConcludeFlight(io[p]), m)
          IN  Fail(p, "unexpected transition") \/ Handler(p, m, q)
    BY <1>2 DEF Process
  <2>2. PICK q : q = AfterNext(ConcludeFlight(io[p]), m) /\ HasFlags(q)
    BY FlagsStay DEF SameFlags, FlagInv
  <2> QED
    BY <1>1, <2>1, <2>2, HandlerFlags, FailFlags
<1>3. CASE Return(p)
  <2>1. PICK q : q = ConcludeFlight(io[p]) /\ HasFlags(q)
    BY FlagsStay DEF SameFlags, FlagInv
  <2>2. io' = [io EXCEPT ![p] = q] /\ chan' = chan /\ net' = net /\ policy' = policy /\ working' = {}
    BY <1>3, <2>1 DEF Return
  <2>3. DOMAIN io' = Sides /\ io'[p] = q /\ \A s \in Sides \ {p} : io'[s] = io[s]
    BY <2>2 DEF FlagInv
  <2>4. chan[p].state # "active"
    BY <1>1 DEF Kept
  <2> QED
    BY <2>1, <2>2, <2>3, <2>4 DEF FlagInv, SentTerminal, HasFlags, HasState, Counts
<1> QED
  BY <1>2, <1>3

\* send_client_hello().
LEMMA ConnectFlags ==
  ASSUME FlagInv, Connect
  PROVE  FlagInv'
<1>1. PICK items : items = Flight("client", <<"ClientHello">>, FALSE, <<>>)
  OBVIOUS
<1>2. PICK q : q = Send(io["client"], items) /\ HasFlags(q)
  BY FlagsStay DEF SameFlags, FlagInv, Sides
<1>3. PICK t, b : t = {"ServerHello", "HelloVerifyRequest"} /\ b = SendHash(chan["client"], "client", <<"ClientHello">>, FALSE)
  OBVIOUS
<1>4. "state" \in DOMAIN b
  BY <1>3 DEF SendHash, FlagInv, HasState, Sides
<1>5. PICK d : d = [b EXCEPT !.state = "pending", !.expecting = t] /\ Kept(d)
  <2>1. \A e : Kept([b EXCEPT !.state = "pending", !.expecting = e])
    BY <1>4 DEF Kept
  <2> QED
    BY <2>1
<1>6. io' = [io EXCEPT !["client"] = q] /\ chan' = [chan EXCEPT !["client"] = d]
      /\ policy' = policy /\ working' = working
  BY <1>1, <1>2, <1>3, <1>5 DEF Connect
<1>7. Counts(net')
  BY PutFacts DEF Connect, Put, FlagInv
<1>8. /\ DOMAIN io' = Sides /\ io'["client"] = q /\ \A s \in Sides \ {"client"} : io'[s] = io[s]
      /\ DOMAIN chan' = Sides /\ chan'["client"] = d /\ \A s \in Sides \ {"client"} : chan'[s] = chan[s]
  BY <1>6 DEF FlagInv, Sides
<1>9. \A s \in Sides : HasState(chan'[s]) /\ HasFlags(io'[s])
  BY <1>2, <1>5, <1>8 DEF FlagInv, Kept, HasState
<1>10. \A s \in Sides : chan'[s].state = "active" => io'[s].finished /\ (io'[s].terminal <=> SentTerminal(s))
  BY <1>5, <1>8 DEF FlagInv, Kept, HasState
<1>11. \A s \in working : chan'[s].state = "pending"
  BY <1>5, <1>8 DEF FlagInv, Kept, HasState
<1> QED
  BY <1>6, <1>7, <1>8, <1>9, <1>10, <1>11 DEF FlagInv, SentTerminal, HasFlags, HasState, Counts

\* timeout_check().
LEMMA TimeoutFlags ==
  ASSUME FlagInv, NEW p \in Sides, TimeoutCheck(p)
  PROVE  FlagInv'
<1>1. chan[p].state = "pending" /\ working = {} /\ policy' = policy /\ working' = {}
  BY DEF TimeoutCheck
<1>2. CASE chan' = [chan EXCEPT ![p].state = "closed"] /\ UNCHANGED <<net, io>>
  BY <1>1, <1>2 DEF FlagInv, SentTerminal, HasFlags, HasState, Counts
<1>3. CASE /\ \E n : io' = [io EXCEPT ![p].count = n]
           /\ Put(Wire(p, Records(LastFlight(io[p]))))
           /\ UNCHANGED chan
  <2>1. PICK n : io' = [io EXCEPT ![p].count = n]
    BY <1>3
  <2>2. PICK q : q = [io[p] EXCEPT !.count = n] /\ HasFlags(q)
    BY FlagsStay DEF SameFlags, FlagInv
  <2>3. DOMAIN io' = Sides /\ io'[p] = q /\ \A s \in Sides \ {p} : io'[s] = io[s]
    BY <2>1, <2>2 DEF FlagInv
  <2>4. Counts(net')
    BY <1>3, PutFacts DEF Put, FlagInv
  <2> QED
    BY <1>1, <1>3, <2>2, <2>3, <2>4 DEF FlagInv, SentTerminal, HasFlags, HasState, Counts
<1> QED
  BY <1>2, <1>3 DEF TimeoutCheck

\* What FromPeer sends, if anything, it sends because it may replay.
Replay(p, r, next) == IF next.replay /\ Replays(io[p]) THEN Wire(p, Records(LastFlight(io[p]))) ELSE {}

\* A record is dropped, refused, or added with what it is answered with.
LEMMA FromPeerCases ==
  ASSUME NEW w \in DOMAIN net, NEW p, p = Peer(w.from), FromPeer(w)
  PROVE  \/ net' = Without(w) /\ UNCHANGED <<policy, io, chan, working>>
         \/ \E why : Fail(p, why)
         \/ LET next == AddRecord(io[p], w.rec, chan[p].state = "active")
            IN  /\ io' = [io EXCEPT ![p] = next.io]
                /\ PutAfter(w, Replay(p, w.rec, next))
                /\ chan' = IF chan[p].state # "none" THEN chan
                           ELSE [chan EXCEPT ![p].state = "pending", ![p].expecting = {"ClientHello"}]
                /\ chan[p].state # "closed"
                /\ working' = IF chan[p].state = "active" THEN {} ELSE {p}
                /\ UNCHANGED policy
BY DEF FromPeer, Replay

\* from_peer().
LEMMA FromPeerFlags ==
  ASSUME FlagInv, NEW w \in DOMAIN net, FromPeer(w)
  PROVE  FlagInv'
<1>1. PICK p \in Sides : p = Peer(w.from)
  BY SidesFacts
<1>2. CASE net' = Without(w) /\ UNCHANGED <<policy, io, chan, working>>
  BY <1>2, WithoutFacts DEF FlagInv, SentTerminal, HasFlags, HasState, Counts
<1>3. CASE \E why : Fail(p, why)
  BY <1>3, FailFlags
<1>4. ASSUME NEW next, next = AddRecord(io[p], w.rec, chan[p].state = "active"),
             io' = [io EXCEPT ![p] = next.io], PutAfter(w, Replay(p, w.rec, next)),
             chan' = IF chan[p].state # "none" THEN chan
                     ELSE [chan EXCEPT ![p].state = "pending", ![p].expecting = {"ClientHello"}],
             chan[p].state # "closed", working' = (IF chan[p].state = "active" THEN {} ELSE {p}), UNCHANGED policy
      PROVE  FlagInv'
  <2>1. SameFlags(io[p], next.io)
    <3>1. PICK again \in BOOLEAN : again = (chan[p].state = "active")
      OBVIOUS
    <3> QED
      BY <1>4, <3>1, AddRecordFlags DEF FlagInv
  <2>2. DOMAIN io' = Sides /\ io'[p] = next.io /\ \A s \in Sides \ {p} : io'[s] = io[s]
    BY <1>4 DEF FlagInv
  <2>3. Counts(net')
    BY <1>4, PutAfterFacts DEF FlagInv
  <2>4. /\ DOMAIN chan' = Sides /\ \A s \in Sides \ {p} : chan'[s] = chan[s]
        /\ HasState(chan'[p])
        /\ chan'[p].state = (IF chan[p].state = "none" THEN "pending" ELSE chan[p].state)
    BY <1>4 DEF FlagInv, HasState
  <2>5. \A s \in Sides : HasState(chan'[s]) /\ HasFlags(io'[s])
    BY <2>1, <2>2, <2>4 DEF FlagInv, SameFlags
  <2>6. \A s \in Sides : chan'[s].state = "active" => io'[s].finished /\ (io'[s].terminal <=> SentTerminal(s))
    BY <2>1, <2>2, <2>4 DEF FlagInv, SameFlags
  <2>7. working' \subseteq Sides /\ \A s \in working' : chan'[s].state = "pending"
    BY <1>4, <2>4 DEF FlagInv, HasState
  <2> QED
    BY <1>4, <2>2, <2>3, <2>4, <2>5, <2>6, <2>7 DEF FlagInv, SentTerminal, HasFlags, HasState, Counts
<1> QED
  BY <1>1, <1>2, <1>3, <1>4, FromPeerCases

\* At first nobody is active.
LEMMA InitFlags == Init => FlagInv
<1> SUFFICES ASSUME Init PROVE FlagInv
  OBVIOUS
<1>1. HasFlags(NewIO)
  BY DEF HasFlags, NewIO
<1>2. HasState(NewChannel) /\ NewChannel.state = "none"
  BY DEF HasState, NewChannel
<1>3. DOMAIN net = {}
  BY DEF Init
<1> QED
  BY <1>1, <1>2, <1>3 DEF Init, FlagInv, Counts

\* FlagInv is inductive.
LEMMA NextFlags ==
  ASSUME FlagInv, [Next]_vars
  PROVE  FlagInv'
<1>1. CASE UNCHANGED vars \/ Done
  BY <1>1 DEF vars, Done, FlagInv, SentTerminal, HasFlags, HasState, Counts
<1>2. ASSUME NEW w \in DOMAIN net, Lose(w) PROVE FlagInv'
  BY <1>2, WithoutFacts DEF Lose, FlagInv, SentTerminal, HasFlags, HasState, Counts
<1> QED
  BY <1>1, <1>2, ConnectFlags, FromPeerFlags, ProcessFlags, TimeoutFlags DEF Next

\* A finished side that is not the sender of the last flight says nothing more.
LEMMA NoReplay ==
  ASSUME FlagInv, Established, [Next]_vars,
         NEW x \in Sides, ~SentTerminal(x)
  PROVE  Fewer(x, net', net)
<1>1. \A p \in Sides : chan[p].state = "active" /\ io[p].finished /\ (io[p].terminal <=> SentTerminal(p))
  BY DEF FlagInv, Established
<1>2. working = {}
  BY <1>1 DEF FlagInv
<1>3. CASE net' = net
  BY <1>3 DEF Fewer, FlagInv, Counts
<1>4. ASSUME NEW w \in DOMAIN net, FromPeer(w) PROVE Fewer(x, net', net)
  <2>1. PICK p \in Sides : p = Peer(w.from)
    BY SidesFacts
  <2>2. ASSUME NEW next, PutAfter(w, Replay(p, w.rec, next)) PROVE Fewer(x, net', net)
    <3>1. \A v \in Replay(p, w.rec, next) : v.from # x
      BY <1>1 DEF Replay, Replays, Wire
    <3> QED
      BY <2>2, <3>1, PutAfterFacts DEF FlagInv
  <2>3. net' = Without(w) => Fewer(x, net', net)
    BY WithoutFacts DEF FlagInv
  <2>4. ASSUME NEW why, Fail(p, why) PROVE net' = net
    BY <2>4 DEF Fail
  <2> QED
    BY <1>3, <1>4, <2>1, <2>2, <2>3, <2>4, FromPeerCases
<1>5. ASSUME NEW w \in DOMAIN net, Lose(w) PROVE Fewer(x, net', net)
  BY <1>5, WithoutFacts DEF Lose, FlagInv
<1>6. ~Connect /\ \A p \in Sides : ~Process(p) /\ ~Return(p) /\ ~TimeoutCheck(p)
  BY <1>1, <1>2 DEF Connect, Process, Return, TimeoutCheck, Sides
<1> QED
  BY <1>3, <1>4, <1>5, <1>6 DEF Next, Done, vars

\* finalize_handshake() and add_retransmitted_record(): once both sides are active
\* only the sender of the last flight answers what is sent again, for any policy
\* and whatever the network does.
THEOREM NoEcho == Spec => OnlyTerminalSenderReplays
<1>1. FlagInv /\ [Next]_vars =>
       [Established =>
          \A w \in DOMAIN net' : w.from = (IF policy.resume THEN "server" ELSE "client") =>
            /\ w \in DOMAIN net
            /\ net'[w] <= net[w]]_vars
  <2> SUFFICES ASSUME FlagInv, [Next]_vars, Established,
                      NEW w \in DOMAIN net',
                      w.from = (IF policy.resume THEN "server" ELSE "client")
               PROVE  w \in DOMAIN net /\ net'[w] <= net[w]
    OBVIOUS
  <2>1. PICK x \in Sides : x = (IF policy.resume THEN "server" ELSE "client")
    BY DEF Sides
  <2>2. ~SentTerminal(x)
    BY <2>1 DEF SentTerminal
  <2>3. Fewer(x, net', net)
    BY <2>2, NoReplay
  <2> QED
    BY <2>1, <2>3 DEF Fewer
<1>2. FlagInv /\ [Next]_vars => FlagInv'
  BY NextFlags
<1> QED
  BY <1>1, <1>2, InitFlags, PTL DEF Spec, OnlyTerminalSenderReplays
============================================================================
