-------------------------- MODULE Channel12Proofs --------------------------
(***************************************************************************)
(* DTLS associations as Channel12 renegotiates, restarts and closes them,  *)
(* for every set of policies and of calls, every number of handshakes and  *)
(* of records that survive.                                                *)
(*                                                                         *)
(* The argument has two layers.  The first one goes through the handlers   *)
(* once and shows that a step is a Move of one side: what it does to the   *)
(* active and the pending handshake, the epochs and the keys, and which    *)
(* messages it says, as if nothing were ever forgotten by the network, the *)
(* flights or the reassembly (Said).  The second one is about moves alone: *)
(* Stable, then Agreed and AllKeyed are preserved by each of them.         *)
(***************************************************************************)
EXTENDS Channel12, Integers, FiniteSetTheorems, SequenceTheorems, TLAPS

-----------------------------------------------------------------------------
(* The data: messages, the records that carry them, the handshake IO.      *)

MsgTypes == {"ClientHello", "HelloVerifyRequest", "ServerHello", "ClientKeyExchange",
             "Finished", "HelloRequest", CCS}

Pairs == Nat \X Nat
Transcripts == Seq(MsgTypes \X Int \X Nat)
Bodies == [num : Nat, cookie : BOOLEAN, info : Pairs, hash : Transcripts]

\* Messages of a handshake, and what is nothing of a handshake.
Items == [type : MsgTypes, seq : Int, epoch : Nat, body : Bodies]
Notes == [type : Alerts \cup {"ApplicationData"}, seq : Int, epoch : Nat, body : Bodies]

\* A value that has the fields of a record, a handshake IO, a pending or an
\* active handshake, or a channel, and no others.
IsRec(r) == r = [type |-> r.type, seq |-> r.seq, epoch |-> r.epoch, body |-> r.body,
                 len |-> r.len, bytes |-> r.bytes]

IsIO(io) ==
  io = [flights |-> io.flights, out |-> io.out, in |-> io.in, messages |-> io.messages,
        ccs_epochs |-> io.ccs_epochs, last_write |-> io.last_write, count |-> io.count,
        finished |-> io.finished, terminal |-> io.terminal,
        awaiting_cookie |-> io.awaiting_cookie, recreating |-> io.recreating,
        client_hello |-> io.client_hello, retransmitted |-> io.retransmitted,
        ccs_epoch |-> io.ccs_epoch, finished_epoch |-> io.finished_epoch,
        server_hello |-> io.server_hello, server_hello_done |-> io.server_hello_done]

IsPending(x) == x = [io |-> x.io, expecting |-> x.expecting, hash |-> x.hash,
                     hello |-> x.hello, id |-> x.id, before |-> x.before]

IsActive(x) == x = [id |-> x.id, io |-> x.io]

IsChan(c) == c = [active |-> c.active, pending |-> c.pending, read |-> c.read, write |-> c.write,
                  closed |-> c.closed, read_keys |-> c.read_keys, write_keys |-> c.write_keys]

\* The messages a handshake IO keeps for retransmission, and the slots of its
\* reassembly with the messages they are of.
Sent(io) == UNION {{io.flights[i][j] : j \in DOMAIN io.flights[i]} : i \in DOMAIN io.flights}
Slots(io) == {io.messages[s] : s \in DOMAIN io.messages} \cup io.client_hello
Heard(io) == {AsItem(s) : s \in Slots(io)}

GoodIO(io) ==
  /\ IsIO(io)
  /\ io.flights \in Seq(Seq(Items)) /\ io.flights # <<>>
  /\ io.out \in Int
  /\ \A s \in Slots(io) : IsRec(s) /\ AsItem(s) \in Items

\* A flight that has been sent is the last one, or the one before an empty slot.
Timed(io) == io.last_write => Len(io.flights) = 1 \/ Last(io.flights) = <<>>

GoodPending(x) ==
  /\ IsPending(x)
  /\ GoodIO(x.io) /\ ~x.io.finished
  /\ x.hash \in Transcripts /\ x.hello \in Bodies /\ x.id \in Pairs /\ x.before \in Pairs

GoodChan(c) ==
  /\ IsChan(c)
  /\ c.read \in Nat /\ c.write \in Nat
  /\ c.active # None => IsActive(c.active) /\ GoodIO(c.active.io) /\ c.active.id \in Pairs
  /\ c.pending # None => GoodPending(c.pending)

-----------------------------------------------------------------------------
(* The invariants.                                                         *)

\* All that is known of the data.
Typed ==
  /\ policy \in Policies
  /\ fresh \in Nat
  /\ chan = [p \in Sides |-> chan[p]]
  /\ \A p \in Sides : GoodChan(chan[p])
  /\ \A w \in net : w.from \in Sides /\ IsRec(w.rec) /\ AsItem(w.rec) \in Items \cup Notes
  /\ \A k \in working : k.side \in Sides /\ ~chan[k.side].closed /\ chan[k.side].pending # None
  /\ \A j, k \in working : j = k

\* Where no record is being processed, a flight that was sent is complete.
AllTimed ==
  \A p \in Sides : chan[p].pending # None /\ (\A k \in working : k.side # p) => Timed(chan[p].pending.io)

\* The messages that channel c may send again, and those it has heard and not
\* processed yet.
Kept(c) == (IF c.active = None THEN {} ELSE Sent(c.active.io)) \cup
           (IF c.pending = None THEN {} ELSE Sent(c.pending.io))
Hears(c) == IF c.pending = None THEN {} ELSE Heard(c.pending.io)

\* All that p has said and that has not been forgotten.
Said(p) == {AsItem(w.rec) : w \in {v \in net : v.from = p}} \cup Kept(chan[p]) \cup Hears(chan[Peer(p)])

\* What p may be waiting for.
Expected(p) == IF p = "client" THEN {"HelloVerifyRequest", "ServerHello", CCS, "Finished"}
               ELSE {"ClientHello", "ClientKeyExchange", CCS, "Finished"}

\* What the stage of the pending handshake x of channel c says.
Staged(p, c, x) ==
  /\ x.expecting \subseteq Expected(p)
  /\ p = "client" =>
       /\ {CCS, "Finished"} \cap x.expecting # {} => c.write > 0 /\ x.id # NoId
       /\ {"HelloVerifyRequest", "ServerHello"} \cap x.expecting # {} =>
            x.hello.num > 0 /\ x.id = NoId /\ Len(x.hash) = 1 /\ x.hash[1][3] = x.hello.num
       /\ x.id # NoId => x.id[1] = x.hello.num
       /\ x.hello = NoBody => x.id = NoId
       /\ c.active # None => /\ x.before[2] <= c.write
                             /\ x.id # NoId => x.before[2] < c.write
  /\ {"ClientKeyExchange", CCS, "Finished"} \cap x.expecting # {} =>
       Len(x.hash) >= 2 /\ x.id = <<x.hash[1][3], x.hash[2][3]>>

Protected ==
  /\ \A p \in Sides : chan[p].active # None => chan[p].write > 0
  /\ chan["client"].active # None => chan["client"].active.id # NoId
  /\ \A p \in Sides : chan[p].pending # None => Staged(p, chan[p], chan[p].pending)
  /\ \A p \in Sides : \A x \in Said(p) : x.type = "ApplicationData" => x.epoch > 0

\* What the server's policy rules out.
Policed ==
  /\ \A x \in Said("server") : x.type = "NoRenegotiation" => ~policy.client_reneg
  /\ ~policy.client_reneg =>
       /\ \A x \in Said("server") : x.type = "ServerHello" => x.body.info = NoId
       /\ LET c == chan["client"]
          IN  c.active # None /\ c.pending # None =>
                /\ c.pending.id = NoId
                /\ c.pending.before = <<c.read, c.write>>
                /\ c.pending.expecting \cap {CCS, "Finished"} = {}

\* A direction in epoch n: its keys are there, and none of a later epoch.
Keyring(keys, n) == n \in DOMAIN keys /\ DOMAIN keys \subseteq 0..n

\* Channel c of p reads with keys rk and writes with keys wk: they are those of
\* the active handshake until the pending one changes them.
Uses(p, c, rk, wk) ==
  LET x == c.pending
  IN  /\ c.active # None /\ x = None => rk = c.active.id /\ wk = c.active.id
      /\ c.active # None /\ x # None =>
           /\ x.before[1] <= c.read /\ x.before[2] <= c.write
           /\ x.before[1] = c.read => rk = c.active.id
           /\ x.before[2] = c.write => wk = c.active.id
           /\ "ClientHello" \in x.expecting => x.before = <<c.read, c.write>>
      /\ p = "client" /\ x # None /\ {CCS, "Finished"} \cap x.expecting # {} => wk = x.id
      /\ x # None /\ "Finished" \in x.expecting => rk = x.id

Keyed(p, c) ==
  /\ Keyring(c.read_keys, c.read) /\ Keyring(c.write_keys, c.write)
  /\ Uses(p, c, c.read_keys[c.read], c.write_keys[c.write])

\* A server that does not accept renegotiations is never halfway through one.
Unaccepted(c) ==
  c.active # None /\ c.pending # None =>
    /\ c.pending.before = <<c.read, c.write>>
    /\ c.pending.expecting \cap {"ClientKeyExchange", CCS, "Finished"} = {}

AllKeyed ==
  /\ \A p \in Sides : ~chan[p].closed => Keyed(p, chan[p])
  /\ policy.client_reneg => \A x \in Said("client") : x.type # "NoRenegotiation"
  /\ ~policy.client_reneg => Unaccepted(chan["server"])

\* The hellos a transcript is about, and the messages that prove them.
IdOf(hash) == <<hash[1][3], hash[2][3]>>
Proves(x) == x.type = "Finished" /\ x.body.hash # <<>>

Numbered ==
  /\ \A p \in Sides : chan[p].active # None => chan[p].active.id # NoId /\ chan[p].active.id[2] <= fresh
  /\ LET c == chan["client"]
     IN  /\ c.pending # None => c.pending.hello.num <= fresh /\ c.pending.id[2] <= fresh
         /\ c.active # None => c.active.id[1] <= c.active.id[2]
         /\ c.active # None /\ c.pending # None =>
              c.pending.hello.num = 0 \/ c.active.id[2] < c.pending.hello.num
  /\ LET c == chan["server"]
     IN  c.pending # None /\ c.pending.id # NoId =>
           0 < c.pending.id[1] /\ c.pending.id[1] <= c.pending.id[2] /\ c.pending.id[2] <= fresh
  /\ \A x \in Said("client") : x.type = "ClientHello" => 0 < x.body.num /\ x.body.num <= fresh
  /\ \A x \in Said("server") : x.type = "ServerHello" => x.body.num <= fresh
  /\ \A p \in Sides : \A x \in Said(p) : Proves(x) =>
       Len(x.body.hash) >= 2 /\ IdOf(x.body.hash)[2] <= fresh /\ IdOf(x.body.hash) # NoId
  /\ \A x \in Said("server") : Proves(x) => 0 < IdOf(x.body.hash)[1] /\ IdOf(x.body.hash)[1] <= IdOf(x.body.hash)[2]

\* The client, with channel c, is in handshake id or past it.
Committed(c, id) ==
  \/ c.closed
  \/ c.pending # None /\ c.pending.id = id
  \/ c.active # None /\ c.active.id = id
  \/ /\ c.active # None => id[2] < c.active.id[1]
     /\ c.pending # None => c.pending.hello.num = 0 \/ id[2] < c.pending.hello.num

\* The server, with channel c, has completed handshake id or a later one.
Completed(c, id) ==
  \/ c.closed
  \/ /\ c.active # None => c.active.id = id \/ id[2] < c.active.id[2]
     /\ c.pending # None /\ c.pending.id # NoId => id[2] < c.pending.id[2]

Agreeing ==
  /\ \A x \in Said("client") : Proves(x) => Committed(chan["client"], IdOf(x.body.hash))
  /\ \A x \in Said("server") : Proves(x) => Completed(chan["server"], IdOf(x.body.hash))
  /\ chan["server"].active # None => Committed(chan["client"], chan["server"].active.id)
  /\ chan["client"].active # None => Completed(chan["server"], chan["client"].active.id)

-----------------------------------------------------------------------------
(* Lemmas about the data.                                                  *)

\* The bodies that the handlers write.
LEMMA BodyFacts ==
  /\ NoBody \in Bodies
  /\ \A n \in Nat, i \in Pairs : \A b \in BOOLEAN :
       /\ Hello(n, b, i) \in Bodies
       /\ Hello(n, b, i).num = n /\ Hello(n, b, i).info = i /\ Hello(n, b, i).hash = <<>>
  /\ \A h \in Transcripts :
       [NoBody EXCEPT !.hash = h] \in Bodies /\ [NoBody EXCEPT !.hash = h].hash = h
  /\ \A b \in Bodies : b.num \in Nat /\ b.info \in Pairs /\ b.hash \in Transcripts
  /\ NoBody.num = 0 /\ NoBody.hash = <<>>
<1>1. <<>> \in Transcripts
  BY DEF Transcripts
<1>2. NoId \in Pairs
  BY DEF NoId, Pairs
<1>3. NoBody \in Bodies /\ NoBody.num = 0 /\ NoBody.hash = <<>>
  BY <1>1, <1>2 DEF NoBody, Bodies
<1>4. ASSUME NEW n \in Nat, NEW i \in Pairs, NEW b \in BOOLEAN
      PROVE  /\ Hello(n, b, i) \in Bodies
             /\ Hello(n, b, i).num = n /\ Hello(n, b, i).info = i /\ Hello(n, b, i).hash = <<>>
  BY <1>1, <1>2 DEF NoBody, Bodies, Hello
<1>5. ASSUME NEW h \in Transcripts
      PROVE  [NoBody EXCEPT !.hash = h] \in Bodies /\ [NoBody EXCEPT !.hash = h].hash = h
  BY <1>2 DEF NoBody, Bodies
<1>6. \A b \in Bodies : b.num \in Nat /\ b.info \in Pairs /\ b.hash \in Transcripts
  BY DEF Bodies
<1> QED
  BY <1>3, <1>4, <1>5, <1>6

\* The messages that the handlers make, and those that records carry.
LEMMA ItemFacts ==
  ASSUME NEW type, NEW seq \in Int, NEW epoch \in Nat, NEW body \in Bodies
  PROVE  LET x == Item(type, seq, epoch, body)
         IN  /\ x.type = type /\ x.seq = seq /\ x.epoch = epoch /\ x.body = body
             /\ type \in MsgTypes => x \in Items
BY DEF Item, Items

LEMMA ItemsAre ==
  /\ \A x \in Items :
       /\ AsItem(x) = x /\ x.type \in MsgTypes /\ x.seq \in Int /\ x.epoch \in Nat
       /\ x.body \in Bodies /\ Hashed(x) \in MsgTypes \X Int \X Nat /\ Hashed(x)[3] = x.body.num
  /\ \A x \in Notes : x.type \in Alerts \cup {"ApplicationData"} /\ x.body \in Bodies
<1>1. \A x \in Items :
       /\ AsItem(x) = x /\ x.type \in MsgTypes /\ x.seq \in Int /\ x.epoch \in Nat
       /\ x.body \in Bodies
  BY DEF Items, AsItem
<1>2. \A x \in Items : Hashed(x) \in MsgTypes \X Int \X Nat /\ Hashed(x)[3] = x.body.num
  BY <1>1, BodyFacts DEF Hashed
<1>3. \A x \in Notes : x.type \in Alerts \cup {"ApplicationData"} /\ x.body \in Bodies
  BY DEF Notes
<1> QED
  BY <1>1, <1>2, <1>3

LEMMA Disjoint == \A x \in Items \cup Notes : x.type \in MsgTypes => x \in Items
BY DEF Items, Notes, MsgTypes, Alerts, CCS

LEMMA PlainFacts ==
  ASSUME NEW type \in Alerts \cup {"ApplicationData"}, NEW epoch \in Nat
  PROVE  /\ IsRec(Plain(type, epoch)) /\ AsItem(Plain(type, epoch)) \in Notes
         /\ AsItem(Plain(type, epoch)).type = type /\ AsItem(Plain(type, epoch)).epoch = epoch
         /\ AsItem(Plain(type, epoch)).body = NoBody
BY BodyFacts DEF Plain, IsRec, AsItem, Notes

\* The records of a message carry that message.
LEMMA FragmentsFacts ==
  ASSUME NEW x \in Items, NEW r \in Fragments(x)
  PROVE  IsRec(r) /\ AsItem(r) = x
<1>1. x = [type |-> x.type, seq |-> x.seq, epoch |-> x.epoch, body |-> x.body]
  BY DEF Items
<1>2. PICK l, b : r = [type |-> x.type, seq |-> x.seq, epoch |-> x.epoch, body |-> x.body, len |-> l, bytes |-> b]
  BY DEF Fragments
<1> QED
  BY <1>1, <1>2 DEF IsRec, AsItem

LEMMA RecordsFacts ==
  ASSUME NEW items \in Seq(Items), NEW r \in Records(items)
  PROVE  \E i \in DOMAIN items : IsRec(r) /\ AsItem(r) = items[i]
<1>1. PICK i \in DOMAIN items : r \in Fragments(items[i])
  BY DEF Records
<1>2. items[i] \in Items
  OBVIOUS
<1> QED
  BY <1>1, <1>2, FragmentsFacts

-----------------------------------------------------------------------------
(* Lemmas about the handshake IO.                                          *)

LEMMA NewIOFacts ==
  /\ GoodIO(NewIO) /\ ~NewIO.finished
  /\ Sent(NewIO) = {} /\ Slots(NewIO) = {} /\ Heard(NewIO) = {}
  /\ Len(NewIO.flights) = 1 /\ Timed(NewIO)
<1>1. IsIO(NewIO) /\ ~NewIO.finished /\ NewIO.flights = <<<<>>>> /\ NewIO.out \in Int
      /\ NewIO.messages = <<>> /\ NewIO.client_hello = {} /\ ~NewIO.last_write
  BY DEF NewIO, IsIO
<1>2. <<<<>>>> \in Seq(Seq(Items)) /\ <<<<>>>> # <<>> /\ Len(<<<<>>>>) = 1
  OBVIOUS
<1>3. Sent(NewIO) = {}
  BY <1>1 DEF Sent
<1>4. Slots(NewIO) = {}
  BY <1>1 DEF Slots
<1> QED
  BY <1>1, <1>2, <1>3, <1>4 DEF GoodIO, Heard, Timed

LEMMA SendFacts ==
  ASSUME NEW io, GoodIO(io), NEW items \in Seq(Items)
  PROVE  LET s == Send(io, items)
         IN  /\ GoodIO(s) /\ s.finished = io.finished
             /\ Sent(s) \subseteq Sent(io) \cup {items[i] : i \in DOMAIN items}
             /\ Slots(s) = Slots(io) /\ Heard(s) = Heard(io)
             /\ Len(s.flights) = Len(io.flights)
<1> DEFINE s == Send(io, items)
           f == io.flights
           n == Len(f)
           g == [f EXCEPT ![n] = @ \o items]
<1>1. f \in Seq(Seq(Items)) /\ n \in Nat \ {0} /\ n \in DOMAIN f /\ f[n] \in Seq(Items)
  BY DEF GoodIO
<1>2. IsIO(s) /\ s.flights = g /\ s.out = io.out + Cardinality({i \in DOMAIN items : IsMsg(items[i])}) /\ s.finished = io.finished
      /\ s.messages = io.messages /\ s.client_hello = io.client_hello
  <2>1. PICK k, h : k = io.out + Cardinality({i \in DOMAIN items : IsMsg(items[i])}) /\ h = g
    OBVIOUS
  <2>2. s = [io EXCEPT !.flights = h, !.out = k, !.last_write = TRUE, !.count = 0]
    BY <2>1 DEF Send, GoodIO, IsIO
  <2> QED
    BY <2>1, <2>2 DEF GoodIO, IsIO
<1>3. Cardinality({i \in DOMAIN items : IsMsg(items[i])}) \in Nat
  <2>1. DOMAIN items = 1..Len(items) /\ Len(items) \in Nat
    OBVIOUS
  <2>2. IsFiniteSet(1..Len(items))
    BY <2>1, FS_Interval
  <2>3. IsFiniteSet({i \in DOMAIN items : IsMsg(items[i])})
    BY <2>1, <2>2, FS_Subset
  <2> QED
    BY <2>3, FS_CardinalityType
<1>4. s.out \in Int
  BY <1>2, <1>3 DEF GoodIO
<1> HIDE DEF s
<1>5. f[n] \o items \in Seq(Items)
  BY <1>1
<1>6. g \in Seq(Seq(Items)) /\ Len(g) = n /\ DOMAIN g = DOMAIN f /\ g # <<>> /\ g[n] = f[n] \o items
      /\ \A i \in DOMAIN f : i # n => g[i] = f[i]
  BY <1>1, <1>5
<1>7. \A j \in DOMAIN (f[n] \o items) :
         \/ j \in DOMAIN f[n] /\ (f[n] \o items)[j] = f[n][j]
         \/ j - Len(f[n]) \in DOMAIN items /\ (f[n] \o items)[j] = items[j - Len(f[n])]
  BY <1>1
<1> HIDE DEF g
<1>8. ASSUME NEW x \in Sent(s) PROVE x \in Sent(io) \cup {items[i] : i \in DOMAIN items}
  <2>1. PICK i \in DOMAIN g : \E j \in DOMAIN g[i] : x = g[i][j]
    BY <1>2, <1>8 DEF Sent
  <2>2. PICK j \in DOMAIN g[i] : x = g[i][j]
    BY <2>1
  <2>3. CASE i = n
    BY <2>2, <2>3, <1>1, <1>6, <1>7 DEF Sent
  <2>4. CASE i # n
    BY <2>2, <2>4, <1>1, <1>6 DEF Sent
  <2> QED
    BY <2>3, <2>4
<1>9. Slots(s) = Slots(io)
  BY <1>2 DEF Slots
<1> QED
  BY <1>1, <1>2, <1>4, <1>6, <1>8, <1>9 DEF GoodIO, Heard, s

LEMMA HelloVerifyFacts ==
  ASSUME NEW io, GoodIO(io)
  PROVE  LET s == SendHelloVerify(io)
         IN  /\ GoodIO(s) /\ s.finished = io.finished /\ HelloVerifySeq(io) \in Int
             /\ Sent(s) = Sent(io) /\ Slots(s) = Slots(io) /\ Heard(s) = Heard(io)
<1> DEFINE s == SendHelloVerify(io)
<1>1. HelloVerifySeq(io) \in Int
  BY DEF GoodIO, HelloVerifySeq
<1>2. IsIO(s) /\ s.flights = io.flights /\ s.out = HelloVerifySeq(io) + 1 /\ s.finished = io.finished
      /\ s.messages = io.messages /\ s.client_hello = io.client_hello
  <2>1. PICK n : n = HelloVerifySeq(io) + 1
    OBVIOUS
  <2>2. s = [io EXCEPT !.out = n, !.awaiting_cookie = TRUE, !.recreating = FALSE]
    BY <2>1 DEF SendHelloVerify
  <2> QED
    BY <2>1, <2>2 DEF GoodIO, IsIO
<1> HIDE DEF s
<1>3. Sent(s) = Sent(io) /\ Slots(s) = Slots(io)
  BY <1>2 DEF Sent, Slots
<1> QED
  BY <1>1, <1>2, <1>3 DEF GoodIO, Heard, s

LEMMA ConcludeFacts ==
  ASSUME NEW io, GoodIO(io)
  PROVE  LET s == ConcludeFlight(io)
         IN  /\ GoodIO(s) /\ s.finished = io.finished /\ s.last_write = io.last_write
             /\ s.in = io.in /\ s.messages = io.messages /\ s.client_hello = io.client_hello
             /\ Last(s.flights) = <<>> /\ Timed(s)
             /\ Sent(s) = Sent(io) /\ Slots(s) = Slots(io) /\ Heard(s) = Heard(io)
<1> DEFINE s == ConcludeFlight(io)
           f == io.flights
           g == Append(f, <<>>)
<1>1. CASE Last(f) = <<>>
  <2>1. s = io
    BY <1>1 DEF ConcludeFlight
  <2> QED
    BY <1>1, <2>1 DEF Timed
<1>2. CASE Last(f) # <<>>
  <2>1. /\ IsIO(s) /\ s.flights = g /\ s.out = io.out /\ s.finished = io.finished
        /\ s.in = io.in /\ s.last_write = io.last_write
        /\ s.messages = io.messages /\ s.client_hello = io.client_hello
    BY <1>2 DEF GoodIO, IsIO, ConcludeFlight
  <2> HIDE DEF s
  <2>2. f \in Seq(Seq(Items)) /\ <<>> \in Seq(Items)
    BY DEF GoodIO
  <2>3. /\ g \in Seq(Seq(Items)) /\ Len(g) = Len(f) + 1 /\ Len(f) \in Nat /\ g[Len(f) + 1] = <<>> /\ g # <<>>
        /\ DOMAIN g = DOMAIN f \cup {Len(f) + 1} /\ DOMAIN f = 1..Len(f)
        /\ \A i \in DOMAIN f : g[i] = f[i]
    BY <2>2
  <2> HIDE DEF g
  <2>4. Last(g) = <<>>
    BY <2>3 DEF Last
  <2>5. Sent(s) = Sent(io)
    <3>1. ASSUME NEW x \in Sent(s) PROVE x \in Sent(io)
      <4>1. PICK i \in DOMAIN g : x \in {g[i][j] : j \in DOMAIN g[i]}
        BY <2>1, <3>1 DEF Sent
      <4>2. CASE i = Len(f) + 1
        BY <4>1, <4>2, <2>3
      <4>3. CASE i # Len(f) + 1
        BY <4>1, <4>3, <2>3 DEF Sent
      <4> QED
        BY <4>2, <4>3
    <3>2. ASSUME NEW x \in Sent(io) PROVE x \in Sent(s)
      <4>1. PICK i \in DOMAIN f : x \in {f[i][j] : j \in DOMAIN f[i]}
        BY <3>2 DEF Sent
      <4> QED
        BY <4>1, <2>1, <2>3 DEF Sent
    <3> QED
      BY <3>1, <3>2
  <2>6. Slots(s) = Slots(io)
    BY <2>1 DEF Slots
  <2> QED
    BY <2>1, <2>3, <2>4, <2>5, <2>6 DEF GoodIO, Heard, s, Timed
<1> QED
  BY <1>1, <1>2

\* A slot with one more fragment is of the same message, or of the fragment's.
LEMMA AddFragmentFacts ==
  ASSUME NEW opt, NEW r, IsRec(r), \A s \in opt : IsRec(s)
  PROVE  LET t == AddFragment(opt, r)
         IN  IsRec(t) /\ (AsItem(t) = AsItem(r) \/ \E s \in opt : AsItem(t) = AsItem(s))
<1>1. CASE opt = {}
  BY <1>1 DEF AddFragment
<1>2. CASE opt # {}
  <2>1. PICK s : s \in opt /\ s = CHOOSE t \in opt : TRUE
    BY <1>2
  <2>2. PICK b : b = s.bytes \cup r.bytes
    OBVIOUS
  <2>3. AddFragment(opt, r) = [s EXCEPT !.bytes = b]
    BY <1>2, <2>1, <2>2 DEF AddFragment
  <2>4. IsRec(s)
    BY <2>1
  <2>5. IsRec([s EXCEPT !.bytes = b]) /\ AsItem([s EXCEPT !.bytes = b]) = AsItem(s)
    BY <2>4 DEF IsRec, AsItem
  <2> QED
    BY <2>1, <2>3, <2>5
<1> QED
  BY <1>1, <1>2

\* add_record() changes nothing that is sent, and hears nothing but r.
LEMMA AddRecordFacts ==
  ASSUME NEW io, GoodIO(io), NEW r, IsRec(r), AsItem(r) \in Items, NEW again
  PROVE  LET s == AddRecord(io, r, again).io
         IN  /\ GoodIO(s) /\ s.finished = io.finished /\ s.last_write = io.last_write
             /\ s.flights = io.flights /\ Sent(s) = Sent(io)
             /\ Heard(s) \subseteq Heard(io) \cup {AsItem(r)}
<1> DEFINE s == AddRecord(io, r, again).io
           opt == SlotAt(io, r.seq)
           msgs == With(io.messages, r.seq, AddFragment(opt, r))
           old == {t \in io.client_hello : t.seq = r.seq}
           hello == {AddFragment(old, r)}
<1>1. IsIO(s) /\ s.flights = io.flights /\ s.finished = io.finished /\ s.last_write = io.last_write
      /\ s.out = io.out
      /\ \/ s.messages = io.messages /\ s.client_hello = io.client_hello
         \/ s.messages = io.messages /\ s.client_hello = hello
         \/ s.messages = msgs /\ s.client_hello = io.client_hello
  <2>1. PICK mm, hh : mm = msgs /\ hh = hello
    OBVIOUS
  <2>2. IsIO(io)
    BY DEF GoodIO
  <2>3. CASE r.type = CCS
    BY <2>2, <2>3 DEF AddRecord, AddCCS, IsIO
  <2>4. CASE r.type # CCS /\ IsNew(io, r)
    BY <2>1, <2>2, <2>4 DEF AddRecord, IsIO
  <2>5. CASE r.type # CCS /\ ~IsNew(io, r)
    <3>1. s = Previous(io, r, again).io
      BY <2>5 DEF AddRecord
    <3>2. PICK ao : /\ ao = AfterOld(io, r) /\ IsIO(ao) /\ ao.flights = io.flights /\ ao.out = io.out
                    /\ ao.finished = io.finished /\ ao.last_write = io.last_write
                    /\ ao.messages = io.messages /\ ao.client_hello = io.client_hello
      <4>1. PICK rr : AfterOld(io, r) = [io EXCEPT !.retransmitted = rr]
        BY DEF AfterOld
      <4> QED
        BY <2>2, <4>1 DEF IsIO
    <3>3. PICK b1, b2, b3 : b1 = (CompletesOld(io, r) /\ ~(CompletesOld(io, r) /\ io.server_hello_done))
                         /\ b2 = (io.server_hello_done /\ ~(CompletesOld(io, r) /\ io.server_hello_done))
                         /\ b3 = ~io.server_hello
      OBVIOUS
    <3>4. s \in {io, ao, [io EXCEPT !.client_hello = hh], [ao EXCEPT !.ccs_epoch = {}],
                [ao EXCEPT !.finished_epoch = {r.epoch}],
                [ao EXCEPT !.server_hello = FALSE, !.server_hello_done = b3]}
          \/ \E b, d : s = [ao EXCEPT !.server_hello = b, !.server_hello_done = d]
      <4>1. CASE r.type = "ClientHello"
        BY <2>1, <3>1, <3>2, <4>1 DEF Previous, PreviousClientHello
      <4>2. CASE r.type # "ClientHello" /\ again /\ r.type = "ServerHello"
        <5>1. s = [ao EXCEPT !.server_hello = b1, !.server_hello_done = ao.server_hello_done /\ ~(CompletesOld(io, r) /\ io.server_hello_done)]
          BY <3>1, <3>2, <3>3, <4>2 DEF Previous, PreviousServerHello
        <5>2. PICK d : d = (ao.server_hello_done /\ ~(CompletesOld(io, r) /\ io.server_hello_done))
          OBVIOUS
        <5>3. s = [ao EXCEPT !.server_hello = b1, !.server_hello_done = d]
          BY <5>1, <5>2
        <5> QED
          BY <5>3
      <4>3. CASE r.type # "ClientHello" /\ again /\ r.type = "ServerHelloDone"
        BY <3>1, <3>2, <3>3, <4>3 DEF Previous, PreviousServerHelloDone
      <4>4. CASE r.type # "ClientHello" /\ again /\ r.type = "Finished"
        BY <3>1, <3>2, <4>4 DEF Previous, PreviousFinished
      <4>5. CASE r.type # "ClientHello" /\ (~again \/ r.type \notin {"ServerHello", "ServerHelloDone", "Finished"})
        BY <3>1, <4>5 DEF Previous
      <4> QED
        BY <4>1, <4>2, <4>3, <4>4, <4>5
    <3>5. s \in {io, ao, [io EXCEPT !.client_hello = hh], [ao EXCEPT !.ccs_epoch = {}],
                [ao EXCEPT !.finished_epoch = {r.epoch}]}
          \/ \E b, d : s = [ao EXCEPT !.server_hello = b, !.server_hello_done = d]
      BY <3>4
    <3> HIDE DEF s
    <3> QED
      BY <2>1, <2>2, <3>2, <3>5 DEF IsIO
  <2> QED
    BY <2>3, <2>4, <2>5
<1> HIDE DEF s
<1>2. Sent(s) = Sent(io)
  BY <1>1 DEF Sent
<1>3. opt \subseteq Slots(io) /\ old \subseteq Slots(io)
  BY DEF SlotAt, Slots
<1>4. \A t \in Slots(io) : IsRec(t) /\ AsItem(t) \in Items /\ AsItem(t) \in Heard(io)
  BY DEF GoodIO, Heard
<1>5. PICK f : f = AddFragment(opt, r) /\ IsRec(f) /\ (AsItem(f) = AsItem(r) \/ AsItem(f) \in Heard(io))
  BY <1>3, <1>4, AddFragmentFacts
<1>6. PICK h : h = AddFragment(old, r) /\ IsRec(h) /\ (AsItem(h) = AsItem(r) \/ AsItem(h) \in Heard(io))
  BY <1>3, <1>4, AddFragmentFacts
<1>7. {msgs[i] : i \in DOMAIN msgs} \subseteq {f} \cup {io.messages[i] : i \in DOMAIN io.messages}
  BY <1>5 DEF With
<1>8. hello = {h}
  BY <1>6
<1> HIDE DEF msgs, hello
<1>9. Slots(s) \subseteq Slots(io) \cup {f, h}
  BY <1>1, <1>7, <1>8 DEF Slots
<1>10. \A t \in Slots(s) : IsRec(t) /\ AsItem(t) \in Heard(io) \cup {AsItem(r)}
  BY <1>4, <1>5, <1>6, <1>9
<1>11. Heard(io) \subseteq Items
  BY <1>4 DEF Heard
<1> QED
  BY <1>1, <1>2, <1>10, <1>11 DEF GoodIO, Heard, s

\* get_next_record() returns a message that has been heard, or the news of a
\* ChangeCipherSpec if one is expected.
LEMMA NextRecordFacts ==
  ASSUME NEW io, GoodIO(io), NEW e, NEW m \in NextRecord(io, e)
  PROVE  \/ e /\ m.type = CCS
         \/ ~e /\ m \in Heard(io) /\ m \in Items
<1>1. \A t \in Slots(io) : AsItem(t) \in Items /\ AsItem(t) \in Heard(io)
  BY DEF GoodIO, Heard
<1>2. io.client_hello \subseteq Slots(io) /\ SlotAt(io, io.in) \subseteq Slots(io)
  BY DEF Slots, SlotAt
<1>3. CASE e
  <2>1. PICK ep : m = [type |-> CCS, seq |-> 0, epoch |-> ep, body |-> <<>>]
    BY <1>3 DEF NextRecord
  <2> QED
    BY <1>3, <2>1
<1>4. CASE ~e
  <2>1. PICK t \in io.client_hello \cup SlotAt(io, io.in) : m = AsItem(t)
    BY <1>4 DEF NextRecord, NextInSequence
  <2> QED
    BY <1>1, <1>2, <1>4, <2>1
<1> QED
  BY <1>3, <1>4

LEMMA AfterNextFacts ==
  ASSUME NEW io, GoodIO(io), NEW m
  PROVE  LET s == AfterNext(io, m)
         IN  /\ GoodIO(s) /\ s.finished = io.finished /\ s.last_write = io.last_write
             /\ s.flights = io.flights /\ Sent(s) = Sent(io)
             /\ Heard(s) \subseteq Heard(io)
<1> DEFINE s == AfterNext(io, m)
<1>1. /\ IsIO(s) /\ s.finished = io.finished /\ s.last_write = io.last_write /\ s.out = io.out
      /\ s.flights = io.flights /\ s.messages = io.messages
      /\ s.client_hello = io.client_hello \/ s.client_hello = {}
  <2>1. PICK n, a : n = io.in + 1 /\ a = (io.awaiting_cookie /\ m.type # "ClientHello")
    OBVIOUS
  <2>2. s \in {io, [io EXCEPT !.client_hello = {}, !.recreating = TRUE],
               [io EXCEPT !.in = n, !.awaiting_cookie = a]}
    BY <2>1 DEF AfterNext
  <2> QED
    BY <2>2 DEF GoodIO, IsIO
<1> HIDE DEF s
<1>2. Sent(s) = Sent(io)
  BY <1>1 DEF Sent
<1>3. Slots(s) \subseteq Slots(io)
  BY <1>1 DEF Slots
<1> QED
  BY <1>1, <1>2, <1>3 DEF GoodIO, Heard, s

\* The flight that is sent again is one of those kept.
LEMMA LastFlightFacts ==
  ASSUME NEW io, GoodIO(io), NEW r \in Records(LastFlight(io))
  PROVE  IsRec(r) /\ AsItem(r) \in Sent(io)
<1>1. PICK n \in DOMAIN io.flights : LastFlight(io) = io.flights[n]
  <2>1. io.flights \in Seq(Seq(Items)) /\ Len(io.flights) \in Nat \ {0} /\ DOMAIN io.flights = 1..Len(io.flights)
    BY DEF GoodIO
  <2>2. CASE Len(io.flights) = 1
    BY <2>1, <2>2 DEF LastFlight
  <2>3. CASE Len(io.flights) # 1
    <3>1. LastFlight(io) = io.flights[Len(io.flights) - 1]
      BY <2>3 DEF LastFlight
    <3>2. \A n \in Nat : n # 0 /\ n # 1 => n - 1 \in 1..n
      OBVIOUS
    <3>3. Len(io.flights) - 1 \in 1..Len(io.flights)
      BY <2>1, <2>3, <3>2
    <3>4. Len(io.flights) - 1 \in DOMAIN io.flights
      BY <2>1, <3>3
    <3> QED
      BY <3>1, <3>4
  <2> QED
    BY <2>2, <2>3
<1>2. io.flights[n] \in Seq(Items)
  BY <1>1 DEF GoodIO
<1>3. PICK i \in DOMAIN io.flights[n] : IsRec(r) /\ AsItem(r) = io.flights[n][i]
  BY <1>1, <1>2, RecordsFacts
<1> QED
  BY <1>3 DEF Sent

LEMMA FinalizeFacts ==
  ASSUME NEW io, GoodIO(io), NEW t
  PROVE  GoodIO(Finalize(io, t)) /\ Sent(Finalize(io, t)) = Sent(io)
<1>1. PICK q : q = ConcludeFlight(io) /\ GoodIO(q) /\ Sent(q) = Sent(io)
  BY ConcludeFacts
<1> DEFINE s == Finalize(io, t)
<1>2. s = [q EXCEPT !.finished = TRUE, !.terminal = t]
  BY <1>1 DEF Finalize
<1>3. IsIO(s) /\ s.flights = q.flights /\ s.messages = q.messages /\ s.client_hello = q.client_hello /\ s.out = q.out
  BY <1>1, <1>2 DEF GoodIO, IsIO
<1> HIDE DEF s
<1>4. Sent(s) = Sent(q) /\ Slots(s) = Slots(q)
  BY <1>3 DEF Sent, Slots
<1> QED
  BY <1>1, <1>3, <1>4 DEF GoodIO, s

-----------------------------------------------------------------------------
(* A step of Next is one of the moves below of one side p, whose channel   *)
(* goes from c to d and which says X: what the handlers do, without the    *)
(* flights and the reassembly that DatagramHandshakeIO takes care of.      *)

SameActive(c, d) ==
  /\ d.active = None <=> c.active = None
  /\ c.active # None => d.active.id = c.active.id
SameKeys(c, d) ==
  d.read = c.read /\ d.write = c.write /\ d.read_keys = c.read_keys /\ d.write_keys = c.write_keys
SameChan(c, d) == SameActive(c, d) /\ SameKeys(c, d) /\ (d.closed <=> c.closed)
SameHello(x, y) == y.hello = x.hello /\ y.id = x.id /\ y.before = x.before

\* Nothing but flights and reassembly, alerts, data, and perhaps closure.
Keep(c, d, X) ==
  /\ SameActive(c, d) /\ SameKeys(c, d) /\ (c.closed => d.closed)
  /\ d.pending = None <=> c.pending = None
  /\ c.pending # None => /\ SameHello(c.pending, d.pending) /\ d.pending.hash = c.pending.hash
                         /\ d.pending.expecting = c.pending.expecting
  /\ \A x \in X : \/ x.type \in {"CloseNotify", "Fatal"}
                  \/ x.type = "ApplicationData" /\ x.epoch = c.write /\ c.active # None /\ ~c.closed

\* A fatal alert, or a handshake that is given up halfway.
Die(d, X) == d.closed /\ d.active = None /\ d.pending = None /\ \A x \in X : x.type = "Fatal"

\* create_handshake_state()
Begin(p, c, d, X) ==
  LET y == d.pending
  IN  /\ SameChan(c, d) /\ c.pending = None /\ y # None
      /\ y.expecting = (IF p = "server" THEN {"ClientHello"} ELSE {})
      /\ y.hash = <<>> /\ y.hello = NoBody /\ y.id = NoId /\ y.before = <<c.read, c.write>>
      /\ \A x \in X : x.type = "HelloRequest"

\* The pending handshake is dropped and the association kept.
Drop(p, c, d, X) ==
  /\ SameChan(c, d) /\ c.active # None /\ d.pending = None
  /\ \/ X = {} /\ \E x \in Said(Peer(p)) : x.type = "NoRenegotiation"
     \/ X = {} /\ c.pending # None /\ c.pending.before = <<c.read, c.write>>
     \/ /\ p = "server" /\ ~policy.client_reneg
        /\ c.pending # None /\ "ClientHello" \in c.pending.expecting
        /\ \A x \in X : x.type = "NoRenegotiation"
     \/ /\ p = "client" /\ ~policy.server_reneg /\ ~policy.abort
        /\ c.pending # None /\ c.pending.hello = NoBody
        /\ \A x \in X : x.type = "NoRenegotiation"

\* send_client_hello(), of hello num.
HelloSent(y, X, num) ==
  /\ y # None /\ y.expecting = {"HelloVerifyRequest", "ServerHello"}
  /\ y.hello.num = num /\ Len(y.hash) = 1 /\ y.hash[1][3] = num
  /\ \A x \in X : x.type = "ClientHello" /\ x.body.num = num

Greet(p, c, d, X) ==
  /\ p = "client" /\ fresh' = fresh + 1 /\ HelloSent(d.pending, X, fresh + 1)
  /\ \/ /\ SameChan(c, d) /\ c.active # None /\ c.pending = None
        /\ d.pending.id = NoId /\ d.pending.before = <<c.read, c.write>>
     \/ /\ SameChan(c, d) /\ c.active # None /\ c.pending # None /\ c.pending.hello = NoBody
        /\ d.pending.id = c.pending.id /\ d.pending.before = c.pending.before
     \/ /\ d.active = None /\ ~d.closed /\ d.pending.id = NoId
        /\ d.read = 0 /\ d.write = 0 /\ d.read_keys = NoKeys /\ d.write_keys = NoKeys

Again(p, c, d, X) ==
  /\ p = "client" /\ SameChan(c, d) /\ c.pending # None
  /\ "HelloVerifyRequest" \in c.pending.expecting
  /\ HelloSent(d.pending, X, c.pending.hello.num)
  /\ d.pending.id = c.pending.id /\ d.pending.before = c.pending.before

\* The association is reset for a restart.
Restarted(c, d) ==
  /\ d.active = None /\ d.closed = c.closed
  /\ d.read = 0 /\ d.write = 0 /\ d.read_keys = NoKeys /\ d.write_keys = NoKeys

\* An exception that is absorbed.
Stick(p, c, d, X) ==
  /\ SameChan(c, d) \/ (p = "server" /\ Restarted(c, d))
  /\ c.pending # None /\ d.pending # None
  /\ SameHello(c.pending, d.pending) /\ d.pending.hash = c.pending.hash
  /\ d.pending.expecting = {} \/ (d.pending.expecting = c.pending.expecting /\ SameChan(c, d))
  /\ X = {}

\* Transcript h is transcript g and more.
Longer(g, h) == Len(h) > Len(g) /\ \A i \in 1..Len(g) : h[i] = g[i]

NextKeys(keys, n, id) == Prune(With(keys, n + 1, id))

\* ServerHello
Answer(p, c, d, X) ==
  LET x == c.pending
      y == d.pending
  IN  /\ p = "client" /\ x # None /\ "ServerHello" \in x.expecting
      /\ SameActive(c, d) /\ d.closed = c.closed
      /\ d.read = c.read /\ d.read_keys = c.read_keys
      /\ y # None /\ y.expecting = {CCS} /\ y.hello = x.hello /\ y.before = x.before
      /\ d.write = c.write + 1 /\ d.write_keys = NextKeys(c.write_keys, c.write, y.id)
      /\ \E m \in Said("server") :
           /\ m.type = "ServerHello" /\ m \in Items /\ m.body.info = ActiveId(c)
           /\ y.id = <<x.hello.num, m.body.num>>
           /\ Longer(Append(x.hash, Hashed(m)), y.hash)
           /\ \A z \in X : \/ z.type \in {"ClientKeyExchange", CCS}
                           \/ z.type = "Finished" /\ Longer(Append(x.hash, Hashed(m)), z.body.hash)

\* HelloVerifyRequest, of the server.
Verify(p, c, d, X) ==
  /\ p = "server" /\ SameChan(c, d) /\ c.pending # None /\ "ClientHello" \in c.pending.expecting
  /\ d.pending # None /\ SameHello(c.pending, d.pending)
  /\ d.pending.hash = <<>> /\ d.pending.expecting = {"ClientHello"}
  /\ \A x \in X : x.type = "HelloVerifyRequest"

\* The ClientHello is answered.
Accept(p, c, d, X) ==
  LET x == c.pending
      y == d.pending
  IN  /\ p = "server" /\ x # None /\ "ClientHello" \in x.expecting
      /\ fresh' = fresh + 1
      /\ SameChan(c, d) \/ Restarted(c, d)
      /\ ~policy.client_reneg => d.active = None
      /\ y # None /\ y.expecting = {"ClientKeyExchange"} /\ y.before = x.before
      /\ y.id[2] = fresh + 1 /\ Len(y.hash) = 2 /\ y.id = <<y.hash[1][3], y.hash[2][3]>>
      /\ \E m \in Said("client") : m.type = "ClientHello" /\ y.id[1] = m.body.num
      /\ \A z \in X : /\ z.type = "ServerHello" /\ z.body.num = fresh + 1
                      /\ ~policy.client_reneg => z.body.info = NoId

\* ClientKeyExchange
Exchange(p, c, d, X) ==
  /\ p = "server" /\ SameChan(c, d) /\ c.pending # None /\ "ClientKeyExchange" \in c.pending.expecting
  /\ d.pending # None /\ SameHello(c.pending, d.pending)
  /\ Longer(c.pending.hash, d.pending.hash) /\ d.pending.expecting = {CCS}
  /\ X = {}

\* ChangeCipherSpec
Change(c, d, X) ==
  /\ SameActive(c, d) /\ d.closed = c.closed /\ c.pending # None /\ CCS \in c.pending.expecting
  /\ d.read = c.read + 1 /\ d.read_keys = NextKeys(c.read_keys, c.read, c.pending.id)
  /\ d.write = c.write /\ d.write_keys = c.write_keys
  /\ d.pending # None /\ SameHello(c.pending, d.pending)
  /\ d.pending.hash = c.pending.hash /\ d.pending.expecting = {"Finished"}
  /\ X = {}

\* Finished
Finish(p, c, d, X) ==
  /\ c.pending # None /\ "Finished" \in c.pending.expecting
  /\ \E m \in Said(Peer(p)) : m.type = "Finished" /\ m.body.hash = c.pending.hash
  /\ d.active # None /\ d.active.id = c.pending.id /\ d.pending = None /\ d.closed = c.closed
  /\ d.read = c.read /\ d.read_keys = c.read_keys
  /\ \/ p = "client" /\ X = {} /\ d.write = c.write /\ d.write_keys = c.write_keys
     \/ /\ p = "server"
        /\ d.write = c.write + 1 /\ d.write_keys = NextKeys(c.write_keys, c.write, c.pending.id)
        /\ \A z \in X : z.type = CCS \/ (z.type = "Finished" /\ Longer(c.pending.hash, z.body.hash))

Move(p, c, d, X) ==
  \/ Keep(c, d, X) \/ Die(d, X) \/ Begin(p, c, d, X) \/ Drop(p, c, d, X)
  \/ Greet(p, c, d, X) \/ Again(p, c, d, X) \/ Stick(p, c, d, X) \/ Answer(p, c, d, X)
  \/ Verify(p, c, d, X) \/ Accept(p, c, d, X) \/ Exchange(p, c, d, X) \/ Change(c, d, X)
  \/ Finish(p, c, d, X)

\* What p says is no more than X, and its peer says nothing.
Step(p, X) ==
  /\ policy' = policy /\ fresh' \in Nat /\ fresh' >= fresh
  /\ chan'[Peer(p)] = chan[Peer(p)]
  /\ Said(p)' \subseteq Said(p) \cup X
  /\ Said(Peer(p))' \subseteq Said(Peer(p))

-----------------------------------------------------------------------------

LEMMA PeerFacts ==
  \A p \in Sides : Peer(p) \in Sides /\ Peer(p) # p /\ Peer(Peer(p)) = p
                   /\ \A s \in Sides : s = p \/ s = Peer(p)
BY DEF Sides, Peer

\* What has been said is a message or a note.
LEMMA SaidTyped ==
  ASSUME Typed, NEW p \in Sides
  PROVE  /\ Said(p) \subseteq Items \cup Notes
         /\ Kept(chan[p]) \subseteq Items /\ Hears(chan[p]) \subseteq Items
<1>1. ASSUME NEW io, GoodIO(io) PROVE Sent(io) \subseteq Items /\ Heard(io) \subseteq Items
  BY <1>1 DEF GoodIO, Sent, Heard
<1>2. ASSUME NEW s \in Sides PROVE Kept(chan[s]) \subseteq Items /\ Hears(chan[s]) \subseteq Items
  <2>1. GoodChan(chan[s])
    BY <1>2 DEF Typed
  <2>2. chan[s].active # None => Sent(chan[s].active.io) \subseteq Items
    BY <1>1, <2>1 DEF GoodChan
  <2>3. chan[s].pending # None => Sent(chan[s].pending.io) \subseteq Items /\ Heard(chan[s].pending.io) \subseteq Items
    BY <1>1, <2>1 DEF GoodChan, GoodPending
  <2> QED
    BY <2>2, <2>3 DEF Kept, Hears
<1>3. {AsItem(w.rec) : w \in {v \in net : v.from = p}} \subseteq Items \cup Notes
  BY DEF Typed
<1> QED
  BY <1>2, <1>3, PeerFacts DEF Said

\* Channel d replaces that of p, which sends ws and says X.
LEMMA Becoming ==
  ASSUME Typed, NEW p \in Sides, NEW d, NEW n, n \subseteq net, NEW ws, NEW X,
         Become(p, d, n, ws), policy' = policy, fresh' \in Nat, fresh' >= fresh,
         GoodChan(d), Kept(d) \subseteq Said(p) \cup X, Hears(d) \subseteq Said(Peer(p)),
         \A w \in ws : w.from = p /\ IsRec(w.rec) /\ AsItem(w.rec) \in Said(p) \cup X,
         X \subseteq Items \cup Notes,
         \A k \in working' : k.side = p /\ ~d.closed /\ d.pending # None,
         \A j, k \in working' : j = k
  PROVE  Typed' /\ Step(p, X) /\ chan'[p] = d
<1>1. /\ chan' = [chan EXCEPT ![p] = d]
      /\ net' \subseteq net \cup ws
  BY DEF Become, PutInto
<1>2. chan = [s \in Sides |-> chan[s]]
  BY DEF Typed
<1>3. chan' = [s \in Sides |-> chan'[s]] /\ chan'[p] = d /\ chan'[Peer(p)] = chan[Peer(p)]
  BY <1>1, <1>2, PeerFacts
<1>4. Said(p) \subseteq Items \cup Notes
  BY SaidTyped
<1>5. \A w \in net' : w.from \in Sides /\ IsRec(w.rec) /\ AsItem(w.rec) \in Items \cup Notes
  BY <1>1, <1>4 DEF Typed
<1>6. Typed'
  <2>1. \A s \in Sides : GoodChan(chan'[s])
    BY <1>3, PeerFacts DEF Typed
  <2>2. \A k \in working' : k.side \in Sides /\ ~chan'[k.side].closed /\ chan'[k.side].pending # None
    BY <1>3
  <2>3. policy' \in Policies
    BY DEF Typed
  <2> QED
    BY <1>3, <1>5, <2>1, <2>2, <2>3 DEF Typed
<1>7. Said(p)' \subseteq Said(p) \cup X
  <2>1. {AsItem(w.rec) : w \in {v \in net' : v.from = p}} \subseteq Said(p) \cup X
    BY <1>1 DEF Said
  <2>2. Hears(chan'[Peer(p)]) \subseteq Said(p)
    BY <1>3 DEF Said
  <2> QED
    BY <1>3, <2>1, <2>2 DEF Said
<1>8. Said(Peer(p))' \subseteq Said(Peer(p))
  <2>1. {AsItem(w.rec) : w \in {v \in net' : v.from = Peer(p)}} \subseteq Said(Peer(p))
    BY <1>1, PeerFacts DEF Said
  <2>2. Kept(chan'[Peer(p)]) \subseteq Said(Peer(p))
    BY <1>3 DEF Said
  <2>3. Hears(chan'[Peer(Peer(p))]) \subseteq Said(Peer(p))
    BY <1>3, PeerFacts
  <2> QED
    BY <2>1, <2>2, <2>3 DEF Said
<1> QED
  BY <1>3, <1>6, <1>7, <1>8 DEF Step

\* Nothing is said and nothing but records in the network lost.
LEMMA Ignoring ==
  ASSUME Typed, NEW p \in Sides, NEW n, n \subseteq net, net' = n, UNCHANGED <<policy, chan, working, fresh>>
  PROVE  Typed' /\ Step(p, {}) /\ Keep(chan[p], chan'[p], {})
<1>1. Typed'
  BY DEF Typed
<1>2. \A s \in Sides : Said(s)' \subseteq Said(s)
  BY DEF Said
<1>3. Step(p, {})
  BY <1>2, PeerFacts DEF Step, Typed
<1>4. Keep(chan[p], chan'[p], {})
  BY DEF Keep, SameActive, SameKeys, SameHello
<1> QED
  BY <1>1, <1>3, <1>4

-----------------------------------------------------------------------------
(* The handlers: c is the channel with q, the handshake IO after m has     *)
(* been taken from it, and c0 the channel before.                          *)

LEMMA NotNone ==
  /\ \A x : IsPending(x) => x # None
  /\ \A x : IsActive(x) => x # None
<1>1. ASSUME NEW x, IsPending(x) PROVE x # None
  <2>1. "io" \in DOMAIN x
    BY <1>1 DEF IsPending
  <2>2. DOMAIN None = {}
    BY DEF None
  <2> QED
    BY <2>1, <2>2
<1>2. ASSUME NEW x, IsActive(x) PROVE x # None
  <2>1. "io" \in DOMAIN x
    BY <1>2 DEF IsActive
  <2>2. DOMAIN None = {}
    BY DEF None
  <2> QED
    BY <2>1, <2>2
<1> QED
  BY <1>1, <1>2

Ready(c0, q) ==
  /\ GoodChan(c0) /\ c0.pending # None
  /\ GoodIO(q) /\ ~q.finished /\ Timed(q)
  /\ Sent(q) \subseteq Sent(c0.pending.io) /\ Heard(q) \subseteq Heard(c0.pending.io)

\* c is c0 with q, and with its expectations e.
Taken(c0, q, c, e) ==
  /\ IsChan(c) /\ c.active = c0.active /\ c.closed = c0.closed /\ SameKeys(c0, c)
  /\ IsPending(c.pending) /\ c.pending.io = q /\ c.pending.expecting = e
  /\ SameHello(c0.pending, c.pending) /\ c.pending.hash = c0.pending.hash

\* Channel d says no more than c0 and X do.
Fine(c0, d, X) ==
  /\ GoodChan(d) /\ Kept(d) \subseteq Kept(c0) \cup X /\ Hears(d) \subseteq Hears(c0)
  /\ X \subseteq Items \cup Notes

Threw(p, c0, out) ==
  out.throws /\ Fine(c0, out.c, {}) /\ Timed(out.c.pending.io) /\ Stick(p, c0, out.c, {})

Did(p, c0, out, X) ==
  /\ ~out.throws /\ out.alert = {} /\ Fine(c0, out.c, X) /\ Move(p, c0, out.c, X)
  /\ (out.c.closed <=> c0.closed)
  /\ \A r \in out.recs : IsRec(r) /\ AsItem(r) \in X

Warned(p, c0, out) ==
  /\ ~out.throws /\ out.alert = {"NoRenegotiation"} /\ out.recs = {} /\ GoodChan(out.c)
  /\ out.c.active # None
  /\ \A X : (\A x \in X : x.type = "NoRenegotiation") /\ X \subseteq Notes =>
       Fine(c0, [out.c EXCEPT !.pending = None], X) /\ Drop(p, c0, [out.c EXCEPT !.pending = None], X)

Results(p, c0, out) == Threw(p, c0, out) \/ Warned(p, c0, out) \/ \E X : Did(p, c0, out, X)

LEMMA OutcomeFacts ==
  /\ \A c, recs : /\ ~Outcome(c, recs).throws /\ Outcome(c, recs).alert = {}
                  /\ Outcome(c, recs).c = c /\ Outcome(c, recs).recs = recs
  /\ \A c : Exception(c).throws /\ Exception(c).c = c
  /\ \A c : LET o == [Outcome(c, {}) EXCEPT !.alert = {"NoRenegotiation"}]
            IN  ~o.throws /\ o.alert = {"NoRenegotiation"} /\ o.c = c /\ o.recs = {}
BY DEF Outcome, Exception

\* With another handshake pending and the same or no association.
LEMMA Pends ==
  ASSUME NEW c0, GoodChan(c0), c0.pending # None, NEW d, IsChan(d), d.read \in Nat, d.write \in Nat,
         d.active = c0.active \/ d.active = None,
         NEW X, X \subseteq Items \cup Notes, GoodPending(d.pending),
         Sent(d.pending.io) \subseteq Sent(c0.pending.io) \cup X,
         Heard(d.pending.io) \subseteq Heard(c0.pending.io)
  PROVE  Fine(c0, d, X) /\ d.pending # None
<1>1. d.pending # None
  BY NotNone DEF GoodPending
<1>2. GoodChan(d)
  BY DEF GoodChan
<1> QED
  BY <1>1, <1>2 DEF Fine, Kept, Hears

\* A handler that throws before it has done anything.
LEMMA Throws ==
  ASSUME NEW p, NEW c0, NEW q, Ready(c0, q), NEW c, NEW e, Taken(c0, q, c, e),
         e = {} \/ e = c0.pending.expecting
  PROVE  Threw(p, c0, Exception(c))
<1>1. GoodPending(c.pending)
  BY DEF Taken, Ready, GoodChan, GoodPending, SameHello
<1>2. Fine(c0, c, {}) /\ c.pending # None
  <2>1. IsChan(c) /\ c.read \in Nat /\ c.write \in Nat /\ c.active = c0.active
    BY DEF Taken, Ready, GoodChan, SameKeys
  <2>2. Sent(c.pending.io) \subseteq Sent(c0.pending.io) /\ Heard(c.pending.io) \subseteq Heard(c0.pending.io)
    BY DEF Taken, Ready
  <2> QED
    BY <1>1, <2>1, <2>2, Pends DEF Ready
<1>3. Stick(p, c0, c, {})
  <2>1. SameChan(c0, c) /\ SameHello(c0.pending, c.pending) /\ c.pending.hash = c0.pending.hash
        /\ c.pending.expecting = e /\ c0.pending # None
    BY DEF Taken, Ready, SameChan, SameActive
  <2> QED
    BY <1>2, <2>1 DEF Stick
<1>4. Timed(c.pending.io)
  BY DEF Taken, Ready
<1> QED
  BY <1>2, <1>3, <1>4, OutcomeFacts DEF Threw

\* Policy: the renegotiation is refused.
LEMMA Refuses ==
  ASSUME NEW p, NEW c0, NEW q, Ready(c0, q), NEW c, NEW e, Taken(c0, q, c, e), c0.active # None,
         e = {} \/ e = c0.pending.expecting,
         \/ p = "server" /\ ~policy.client_reneg /\ "ClientHello" \in c0.pending.expecting
         \/ p = "client" /\ ~policy.server_reneg /\ c0.pending.hello = NoBody
  PROVE  Results(p, c0, Refused(c))
<1>1. CASE policy.abort
  BY <1>1, Throws DEF Refused, Results
<1>2. CASE ~policy.abort
  <2>1. Refused(c) = [Outcome(c, {}) EXCEPT !.alert = {"NoRenegotiation"}]
    BY <1>2 DEF Refused
  <2>2. PICK d : d = [c EXCEPT !.pending = None]
    OBVIOUS
  <2>3. IsChan(d) /\ d.active = c0.active /\ d.closed = c0.closed /\ SameKeys(c0, d) /\ d.pending = None
    BY <2>2 DEF Taken, IsChan, SameKeys
  <2>4. GoodChan(d) /\ Kept(d) \subseteq Kept(c0) /\ Hears(d) = {}
    BY <2>3 DEF Ready, GoodChan, SameKeys, Kept, Hears
  <2>5. GoodChan(c)
    <3>1. GoodPending(c.pending)
      BY DEF Taken, Ready, GoodChan, GoodPending, SameHello
    <3> QED
      BY <3>1 DEF Taken, Ready, GoodChan, SameKeys
  <2>6. ASSUME NEW X, \A x \in X : x.type = "NoRenegotiation", X \subseteq Notes
        PROVE  Fine(c0, d, X) /\ Drop(p, c0, d, X)
    <3>1. Fine(c0, d, X)
      BY <2>4, <2>6 DEF Fine
    <3>2. SameChan(c0, d)
      BY <2>3 DEF SameChan, SameActive
    <3> QED
      BY <1>2, <2>3, <2>6, <3>1, <3>2 DEF Drop, Ready
  <2>7. Refused(c).c = c /\ ~Refused(c).throws /\ Refused(c).alert = {"NoRenegotiation"} /\ Refused(c).recs = {}
    BY <2>1, OutcomeFacts
  <2>8. c.active # None
    BY DEF Taken
  <2> QED
    BY <2>2, <2>5, <2>6, <2>7, <2>8 DEF Results, Warned
<1> QED
  BY <1>1, <1>2

\* A hello has records.
LEMMA HelloHasRecords ==
  ASSUME NEW x \in Items, x.type \in {"ClientHello", "ServerHello"}
  PROVE  \E r \in Fragments(x) : r.body = x.body
<1>1. PICK l : l = MsgLength[x.type] /\ l \in Nat
  BY Channel12Assumption
<1>2. IsMsg(x)
  BY DEF IsMsg, CCS
<1> DEFINE frag(b) == [type |-> x.type, seq |-> x.seq, epoch |-> x.epoch, body |-> x.body, len |-> l, bytes |-> b]
<1>3. Fragments(x) = IF l = 0 THEN {frag({})} ELSE {frag({b}) : b \in 1..l}
  BY <1>1, <1>2 DEF Fragments
<1>4. \A b : frag(b).body = x.body
  OBVIOUS
<1>5. frag({}) \in Fragments(x) \/ frag({1}) \in Fragments(x)
  <2>1. l # 0 => 1 \in 1..l
    BY <1>1
  <2> HIDE DEF frag
  <2> QED
    BY <1>3, <2>1
<1> HIDE DEF frag
<1> QED
  BY <1>4, <1>5

LEMMA ActiveIdFacts ==
  ASSUME NEW c, GoodChan(c)
  PROVE  ActiveId(c) \in Pairs /\ (c.active = None => ActiveId(c) = NoId) /\ (c.active # None => ActiveId(c) = c.active.id)
BY DEF GoodChan, ActiveId, NoId, Pairs

\* What send_client_hello() makes: hello z of number num, in handshake x.
HelloMade(s, x, q, num, z) ==
  LET y == s.pending
  IN  /\ GoodPending(y) /\ y.id = x.id /\ y.before = x.before /\ HelloSent(y, {z}, num)
      /\ Sent(y.io) \subseteq Sent(q) \cup {z} /\ Heard(y.io) = Heard(q)
      /\ Len(y.io.flights) = Len(q.flights)
      /\ \A r \in s.recs : IsRec(r) /\ AsItem(r) = z
      /\ \E r \in s.recs : r.body.num = num

LEMMA SendHelloFacts ==
  ASSUME NEW c, c.write \in Nat, ActiveId(c) \in Pairs, NEW x, NEW q, NEW num \in Nat, NEW cookie \in BOOLEAN,
         GoodIO(q), ~q.finished, IsPending(x), x.id \in Pairs, x.before \in Pairs
  PROVE  \E z \in Items : HelloMade(SendHello(c, x, q, num, cookie), x, q, num, z)
<1>1. PICK b : b = Hello(num, cookie, ActiveId(c)) /\ b \in Bodies /\ b.num = num
  BY BodyFacts
<1>2. q.out \in Int
  BY DEF GoodIO
<1>3. PICK z : z = Item("ClientHello", q.out, c.write, b) /\ z \in Items /\ z.type = "ClientHello" /\ z.body = b
  BY <1>1, <1>2, ItemFacts DEF MsgTypes
<1>4. PICK i : i = Send(q, <<z>>) /\ GoodIO(i) /\ ~i.finished /\ Sent(i) \subseteq Sent(q) \cup {z}
               /\ Heard(i) = Heard(q) /\ Len(i.flights) = Len(q.flights)
  <2>1. <<z>> \in Seq(Items) /\ {<<z>>[j] : j \in DOMAIN <<z>>} = {z}
    BY <1>3
  <2> QED
    BY <2>1, SendFacts
<1>5. PICK h : h = <<Hashed(z)>> /\ h \in Transcripts /\ Len(h) = 1 /\ h[1][3] = num
  <2>1. Hashed(z) \in MsgTypes \X Int \X Nat /\ Hashed(z)[3] = num
    BY <1>1, <1>3, ItemsAre
  <2>2. PICK k, S : k = Hashed(z) /\ S = MsgTypes \X Int \X Nat /\ k \in S /\ k[3] = num
    BY <2>1
  <2>3. <<k>> \in Seq(S) /\ Len(<<k>>) = 1 /\ <<k>>[1] = k
    BY <2>2
  <2> QED
    BY <2>2, <2>3 DEF Transcripts
<1>6. PICK s : s = SendHello(c, x, q, num, cookie)
  OBVIOUS
<1>7. s.pending = [x EXCEPT !.io = i, !.hash = h, !.hello = z.body,
                            !.expecting = {"HelloVerifyRequest", "ServerHello"}]
      /\ s.recs = Fragments(z)
  BY <1>1, <1>3, <1>4, <1>5, <1>6 DEF SendHello
<1>8. PICK y : y = s.pending
  OBVIOUS
<1>9. IsPending(y) /\ y.io = i /\ y.hash = h /\ y.hello = b /\ y.id = x.id /\ y.before = x.before
      /\ y.expecting = {"HelloVerifyRequest", "ServerHello"}
  BY <1>3, <1>7, <1>8 DEF IsPending
<1>10. GoodPending(y)
  BY <1>1, <1>4, <1>5, <1>9 DEF GoodPending
<1>11. HelloSent(y, {z}, num)
  BY <1>1, <1>3, <1>5, <1>9, NotNone DEF HelloSent
<1>12. \A r \in s.recs : IsRec(r) /\ AsItem(r) = z
  BY <1>3, <1>7, FragmentsFacts
<1>13. \E r \in s.recs : r.body.num = num
  BY <1>1, <1>3, <1>7, HelloHasRecords
<1> QED
  BY <1>3, <1>4, <1>6, <1>8, <1>9, <1>10, <1>11, <1>12, <1>13 DEF HelloMade

\* HelloRequest: ignored, refused or answered with a hello.
LEMMA DoHelloRequest ==
  ASSUME NEW c0, NEW q, Ready(c0, q), NEW c, Taken(c0, q, c, c0.pending.expecting), c0.active # None,
         fresh \in Nat, (\E r \in HelloRequest(c, q).recs : r.body.num > fresh) => fresh' = fresh + 1
  PROVE  Results("client", c0, HelloRequest(c, q))
<1>1. GoodPending(c.pending)
  BY DEF Taken, Ready, GoodChan, GoodPending, SameHello
<1>2. IsChan(c) /\ c.read \in Nat /\ c.write \in Nat /\ c.active = c0.active /\ SameKeys(c0, c) /\ c.closed = c0.closed
  BY DEF Taken, Ready, GoodChan, SameKeys
<1>3. Fine(c0, c, {}) /\ c.pending # None
  <2>1. Sent(c.pending.io) \subseteq Sent(c0.pending.io) /\ Heard(c.pending.io) \subseteq Heard(c0.pending.io)
    BY DEF Taken, Ready
  <2> QED
    BY <1>1, <1>2, <2>1, Pends DEF Ready
<1>4. CASE c.pending.hello # NoBody
  <2>1. HelloRequest(c, q) = Outcome(c, {})
    BY <1>4 DEF HelloRequest
  <2>2. Keep(c0, c, {})
    BY <1>2, <1>3 DEF Keep, SameActive, Taken, Ready
  <2>3. Did("client", c0, Outcome(c, {}), {})
    BY <1>3, <2>2, OutcomeFacts DEF Did, Move, Taken
  <2> QED
    BY <2>1, <2>3 DEF Results
<1>5. CASE c.pending.hello = NoBody /\ ~policy.server_reneg
  <2>1. HelloRequest(c, q) = Refused(c)
    BY <1>5 DEF HelloRequest
  <2>2. c0.pending.hello = NoBody
    BY <1>5 DEF Taken, SameHello
  <2> QED
    BY <1>5, <2>1, <2>2, Refuses
<1>6. CASE c.pending.hello = NoBody /\ policy.server_reneg
  <2>1. PICK s : s = SendHello(c, c.pending, q, fresh + 1, FALSE)
    OBVIOUS
  <2>2. PICK d : d = [c EXCEPT !.pending = s.pending]
    OBVIOUS
  <2>3. HelloRequest(c, q) = Outcome(d, s.recs)
    BY <1>6, <2>1, <2>2 DEF HelloRequest
  <2>4. ActiveId(c) \in Pairs
    <3>1. ActiveId(c) = ActiveId(c0)
      BY <1>2 DEF ActiveId
    <3> QED
      BY <3>1, ActiveIdFacts DEF Ready
  <2>5. PICK z \in Items : HelloMade(s, c.pending, q, fresh + 1, z)
    <3>1. fresh + 1 \in Nat /\ GoodIO(q) /\ ~q.finished
      BY DEF Ready
    <3>2. IsPending(c.pending) /\ c.pending.id \in Pairs /\ c.pending.before \in Pairs
      BY <1>1 DEF GoodPending
    <3>3. FALSE \in BOOLEAN
      OBVIOUS
    <3> QED
      BY <1>2, <2>1, <2>4, <3>1, <3>2, <3>3, SendHelloFacts, Zenon
  <2>6. /\ GoodPending(s.pending) /\ s.pending.id = c.pending.id /\ s.pending.before = c.pending.before
        /\ HelloSent(s.pending, {z}, fresh + 1)
        /\ Sent(s.pending.io) \subseteq Sent(q) \cup {z} /\ Heard(s.pending.io) = Heard(q)
        /\ \A r \in s.recs : IsRec(r) /\ AsItem(r) = z
        /\ \E r \in s.recs : r.body.num = fresh + 1
    BY <2>5 DEF HelloMade
  <2>7. fresh' = fresh + 1
    <3>1. \E r \in HelloRequest(c, q).recs : r.body.num > fresh
      BY <2>3, <2>6, OutcomeFacts
    <3> QED
      BY <3>1
  <2>8. IsChan(d) /\ d.active = c0.active /\ d.closed = c0.closed /\ SameKeys(c0, d) /\ d.pending = s.pending
        /\ d.read \in Nat /\ d.write \in Nat
    BY <1>2, <2>2 DEF IsChan, SameKeys
  <2>9. Fine(c0, d, {z}) /\ d.pending # None
    <3>1. Sent(d.pending.io) \subseteq Sent(c0.pending.io) \cup {z} /\ Heard(d.pending.io) \subseteq Heard(c0.pending.io)
      BY <2>6, <2>8 DEF Ready
    <3> QED
      BY <2>6, <2>8, <3>1, Pends DEF Ready
  <2>10. Greet("client", c0, d, {z})
    <3>1. SameChan(c0, d)
      BY <2>8 DEF SameChan, SameActive
    <3>2. c0.pending.hello = NoBody /\ c0.pending # None /\ c.pending.id = c0.pending.id /\ c.pending.before = c0.pending.before
      BY <1>6 DEF Taken, SameHello, Ready
    <3> QED
      BY <2>6, <2>7, <2>8, <3>1, <3>2 DEF Greet
  <2>11. Did("client", c0, Outcome(d, s.recs), {z})
    BY <2>6, <2>7, <2>8, <2>9, <2>10, OutcomeFacts DEF Did, Move, Taken
  <2> QED
    BY <2>3, <2>11 DEF Results
<1> QED
  BY <1>4, <1>5, <1>6

LEMMA DoHelloVerifyRequest ==
  ASSUME NEW c0, NEW q, Ready(c0, q), NEW c, Taken(c0, q, c, {}), "HelloVerifyRequest" \in c0.pending.expecting
  PROVE  Results("client", c0, HelloVerifyRequest(c, q))
<1>1. GoodPending(c.pending)
  BY DEF Taken, Ready, GoodChan, GoodPending, SameHello
<1>2. IsChan(c) /\ c.read \in Nat /\ c.write \in Nat /\ c.active = c0.active /\ SameKeys(c0, c) /\ c.closed = c0.closed
  BY DEF Taken, Ready, GoodChan, SameKeys
<1>3. PICK n \in Nat : n = c.pending.hello.num /\ n = c0.pending.hello.num
  BY <1>1, BodyFacts DEF GoodPending, Taken, SameHello
<1>4. PICK s : s = SendHello(c, c.pending, q, n, TRUE)
  OBVIOUS
<1>5. PICK d : d = [c EXCEPT !.pending = s.pending]
  OBVIOUS
<1>6. HelloVerifyRequest(c, q) = Outcome(d, s.recs)
  BY <1>3, <1>4, <1>5 DEF HelloVerifyRequest
<1>7. ActiveId(c) \in Pairs
  <2>1. ActiveId(c) = ActiveId(c0)
    BY <1>2 DEF ActiveId
  <2> QED
    BY <2>1, ActiveIdFacts DEF Ready
<1>8. PICK z \in Items : HelloMade(s, c.pending, q, n, z)
  <2>1. GoodIO(q) /\ ~q.finished
    BY DEF Ready
  <2>2. IsPending(c.pending) /\ c.pending.id \in Pairs /\ c.pending.before \in Pairs
    BY <1>1 DEF GoodPending
  <2>3. TRUE \in BOOLEAN
    OBVIOUS
  <2> QED
    BY <1>2, <1>4, <1>7, <2>1, <2>2, <2>3, SendHelloFacts, Zenon
<1>9. /\ GoodPending(s.pending) /\ s.pending.id = c.pending.id /\ s.pending.before = c.pending.before
      /\ HelloSent(s.pending, {z}, n)
      /\ Sent(s.pending.io) \subseteq Sent(q) \cup {z} /\ Heard(s.pending.io) = Heard(q)
      /\ \A r \in s.recs : IsRec(r) /\ AsItem(r) = z
  BY <1>8 DEF HelloMade
<1>10. IsChan(d) /\ d.active = c0.active /\ d.closed = c0.closed /\ SameKeys(c0, d) /\ d.pending = s.pending
      /\ d.read \in Nat /\ d.write \in Nat
  BY <1>2, <1>5 DEF IsChan, SameKeys
<1>11. Fine(c0, d, {z}) /\ d.pending # None
  <2>1. Sent(d.pending.io) \subseteq Sent(c0.pending.io) \cup {z} /\ Heard(d.pending.io) \subseteq Heard(c0.pending.io)
    BY <1>9, <1>10 DEF Ready
  <2> QED
    BY <1>9, <1>10, <2>1, Pends DEF Ready
<1>12. Again("client", c0, d, {z})
  <2>1. SameChan(c0, d)
    BY <1>10 DEF SameChan, SameActive
  <2>2. c0.pending # None /\ c.pending.id = c0.pending.id /\ c.pending.before = c0.pending.before
    BY DEF Taken, SameHello, Ready
  <2> QED
    BY <1>3, <1>9, <1>10, <2>1, <2>2 DEF Again
<1>13. Did("client", c0, Outcome(d, s.recs), {z})
  BY <1>9, <1>11, <1>12, OutcomeFacts DEF Did, Move, Again, SameChan
<1> QED
  BY <1>6, <1>13 DEF Results

LEMMA TranscriptFacts ==
  /\ <<>> \in Transcripts
  /\ \A h \in Transcripts : Len(h) \in Nat
  /\ \A h \in Transcripts, x \in Items : Append(h, Hashed(x)) \in Transcripts /\ Longer(h, Append(h, Hashed(x)))
  /\ \A h \in Transcripts, x \in Items : Append(h, Hashed(x))[Len(h) + 1][3] = x.body.num
                                         /\ Len(Append(h, Hashed(x))) = Len(h) + 1
  /\ \A f, g, h \in Transcripts : Longer(f, g) /\ Longer(g, h) => Longer(f, h)
<1>1. PICK S : S = MsgTypes \X Int \X Nat
  OBVIOUS
<1>2. Transcripts = Seq(S)
  BY <1>1 DEF Transcripts
<1>3. ASSUME NEW h \in Transcripts, NEW x \in Items
      PROVE  /\ Append(h, Hashed(x)) \in Transcripts /\ Longer(h, Append(h, Hashed(x)))
             /\ Append(h, Hashed(x))[Len(h) + 1][3] = x.body.num
             /\ Len(Append(h, Hashed(x))) = Len(h) + 1
  <2>1. PICK k : k = Hashed(x) /\ k \in S /\ k[3] = x.body.num
    BY <1>1, ItemsAre
  <2>2. Append(h, k) \in Seq(S) /\ Len(Append(h, k)) = Len(h) + 1 /\ Append(h, k)[Len(h) + 1] = k
        /\ Len(h) \in Nat /\ \A i \in 1..Len(h) : Append(h, k)[i] = h[i]
    BY <1>2, <2>1
  <2> QED
    BY <1>2, <2>1, <2>2 DEF Longer
<1>4. <<>> \in Transcripts /\ \A h \in Transcripts : Len(h) \in Nat
  BY <1>2
<1>5. ASSUME NEW f \in Transcripts, NEW g \in Transcripts, NEW h \in Transcripts, Longer(f, g), Longer(g, h)
      PROVE  Longer(f, h)
  BY <1>4, <1>5 DEF Longer
<1> QED
  BY <1>3, <1>4, <1>5

LEMMA TuplesOfItems ==
  /\ \A x, y \in Items : <<x, y>> \in Seq(Items) /\ {<<x, y>>[i] : i \in DOMAIN <<x, y>>} = {x, y}
  /\ \A x, y, z \in Items : <<x, y, z>> \in Seq(Items) /\ {<<x, y, z>>[i] : i \in DOMAIN <<x, y, z>>} = {x, y, z}
<1>1. ASSUME NEW x \in Items, NEW y \in Items
      PROVE  <<x, y>> \in Seq(Items) /\ {<<x, y>>[i] : i \in DOMAIN <<x, y>>} = {x, y}
  <2>1. DOMAIN <<x, y>> = {1, 2} /\ <<x, y>>[1] = x /\ <<x, y>>[2] = y
    OBVIOUS
  <2> QED
    BY <2>1
<1>2. ASSUME NEW x \in Items, NEW y \in Items, NEW z \in Items
      PROVE  <<x, y, z>> \in Seq(Items) /\ {<<x, y, z>>[i] : i \in DOMAIN <<x, y, z>>} = {x, y, z}
  <2>1. DOMAIN <<x, y, z>> = {1, 2, 3} /\ <<x, y, z>>[1] = x /\ <<x, y, z>>[2] = y /\ <<x, y, z>>[3] = z
    OBVIOUS
  <2> QED
    BY <2>1
<1> QED
  BY <1>1, <1>2

LEMMA DoServerHello ==
  ASSUME NEW c0, NEW q, Ready(c0, q), NEW c, Taken(c0, q, c, {}), "ServerHello" \in c0.pending.expecting,
         NEW m \in Said("server"), m \in Items, m.type = "ServerHello"
  PROVE  Results("client", c0, ServerHello(c, m, q))
<1>1. GoodPending(c.pending)
  BY DEF Taken, Ready, GoodChan, GoodPending, SameHello
<1>2. IsChan(c) /\ c.read \in Nat /\ c.write \in Nat /\ c.active = c0.active /\ SameKeys(c0, c) /\ c.closed = c0.closed
  BY DEF Taken, Ready, GoodChan, SameKeys
<1>3. IsPending(c.pending) /\ c.pending.io = q /\ c.pending.hello = c0.pending.hello /\ c.pending.before = c0.pending.before
      /\ c.pending.hash = c0.pending.hash /\ c0.pending # None
  BY DEF Taken, Ready, SameHello
<1>4. CASE HaveMoreData(q) \/ m.body.info # ActiveId(c)
  <2>1. ServerHello(c, m, q) = Exception(c)
    BY <1>4 DEF ServerHello, SecureRenegotiation
  <2> QED
    BY <2>1, Throws DEF Results
<1>5. CASE ~(HaveMoreData(q) \/ m.body.info # ActiveId(c))
  <2>1. PICK id : id = <<c.pending.hello.num, m.body.num>> /\ id \in Pairs
    <3>1. c.pending.hello \in Bodies /\ m.body \in Bodies
      BY <1>1, ItemsAre DEF GoodPending
    <3>2. c.pending.hello.num \in Nat /\ m.body.num \in Nat
      BY <3>1, BodyFacts
    <3>3. <<c.pending.hello.num, m.body.num>> \in Pairs
      BY <3>2 DEF Pairs
    <3> QED
      BY <3>3
  <2>2. PICK h1 : h1 = Append(c.pending.hash, Hashed(m)) /\ h1 \in Transcripts
    BY <1>1, TranscriptFacts DEF GoodPending
  <2>3. q.out \in Int /\ q.out + 1 \in Int /\ c.write + 1 \in Nat
    BY <1>2 DEF Ready, GoodIO
  <2>4. PICK key : key = Item("ClientKeyExchange", q.out, c.write, NoBody) /\ key \in Items /\ key.type = "ClientKeyExchange"
    BY <1>2, <2>3, ItemFacts, BodyFacts DEF MsgTypes
  <2>5. PICK ccs : ccs = Item(CCS, 0, c.write, NoBody) /\ ccs \in Items /\ ccs.type = CCS
    BY <1>2, ItemFacts, BodyFacts DEF MsgTypes
  <2>6. PICK h2 : h2 = Append(h1, Hashed(key)) /\ h2 \in Transcripts /\ Longer(h1, h2)
    BY <2>2, <2>4, TranscriptFacts
  <2>7. PICK b : b = [NoBody EXCEPT !.hash = h2] /\ b \in Bodies /\ b.hash = h2
    BY <2>6, BodyFacts
  <2>8. PICK fin : fin = Item("Finished", q.out + 1, c.write + 1, b) /\ fin \in Items /\ fin.type = "Finished" /\ fin.body = b
    BY <2>3, <2>7, ItemFacts DEF MsgTypes
  <2>9. PICK h3 : h3 = Append(h2, Hashed(fin)) /\ h3 \in Transcripts /\ Longer(h1, h3)
    <3>1. Append(h2, Hashed(fin)) \in Transcripts /\ Longer(h2, Append(h2, Hashed(fin)))
      BY <2>6, <2>8, TranscriptFacts
    <3> QED
      BY <2>2, <2>6, <3>1, TranscriptFacts
  <2>10. PICK items : items = <<key, ccs, fin>> /\ items \in Seq(Items) /\ {items[j] : j \in DOMAIN items} = {key, ccs, fin}
    <3>1. key \in Items /\ ccs \in Items /\ fin \in Items
      BY <2>4, <2>5, <2>8
    <3>2. <<key, ccs, fin>> \in Seq(Items) /\ {<<key, ccs, fin>>[j] : j \in DOMAIN <<key, ccs, fin>>} = {key, ccs, fin}
      BY <3>1, TuplesOfItems
    <3> QED
      BY <3>2
  <2>11. PICK i : i = Send(q, items) /\ GoodIO(i) /\ ~i.finished /\ Sent(i) \subseteq Sent(q) \cup {key, ccs, fin} /\ Heard(i) = Heard(q)
    BY <2>10, SendFacts DEF Ready
  <2>12. PICK nk : nk = NextKeys(c.write_keys, c.write, id)
    OBVIOUS
  <2>13. PICK y : y = [c.pending EXCEPT !.io = i, !.id = id, !.expecting = {CCS}, !.hash = h3]
    OBVIOUS
  <2>14. PICK d : d = [c EXCEPT !.write = c.write + 1, !.write_keys = nk, !.pending = y]
    OBVIOUS
  <2>15. ServerHello(c, m, q) = Outcome(d, Records(items))
    <3>1. NextWrite(c, id) = [c EXCEPT !.write = c.write + 1, !.write_keys = nk]
      BY <1>2, <2>12 DEF NextWrite, NextKeys, IsChan
    <3>2. [NextWrite(c, id) EXCEPT !.pending = [@ EXCEPT !.io = i, !.id = id, !.expecting = {CCS}, !.hash = h3]] = d
      BY <1>2, <2>13, <2>14, <3>1 DEF IsChan
    <3> QED
      BY <1>5, <2>1, <2>2, <2>4, <2>5, <2>6, <2>7, <2>8, <2>9, <2>10, <2>11, <3>2 DEF ServerHello, SecureRenegotiation
  <2>16. IsChan(d) /\ d.active = c0.active /\ d.closed = c0.closed /\ d.read = c0.read /\ d.read_keys = c0.read_keys
         /\ d.write = c0.write + 1 /\ d.write_keys = NextKeys(c0.write_keys, c0.write, id) /\ d.pending = y
         /\ d.read \in Nat /\ d.write \in Nat
    <3>1. d.write = c.write + 1 /\ d.write_keys = nk /\ d.pending = y /\ IsChan(d)
          /\ d.active = c.active /\ d.closed = c.closed /\ d.read = c.read /\ d.read_keys = c.read_keys
      BY <1>2, <2>14 DEF IsChan
    <3> QED
      BY <1>2, <2>3, <2>12, <3>1 DEF SameKeys
  <2>17. IsPending(y) /\ y.io = i /\ y.id = id /\ y.expecting = {CCS} /\ y.hash = h3
         /\ y.hello = c0.pending.hello /\ y.before = c0.pending.before
    BY <1>3, <2>13 DEF IsPending
  <2>18. GoodPending(y)
    BY <1>1, <1>3, <2>1, <2>9, <2>11, <2>17 DEF GoodPending
  <2>19. Fine(c0, d, {key, ccs, fin}) /\ d.pending # None
    <3>1. Sent(d.pending.io) \subseteq Sent(c0.pending.io) \cup {key, ccs, fin}
          /\ Heard(d.pending.io) \subseteq Heard(c0.pending.io)
      BY <2>11, <2>16, <2>17 DEF Ready
    <3>2. {key, ccs, fin} \subseteq Items \cup Notes
      BY <2>4, <2>5, <2>8
    <3> QED
      BY <2>16, <2>18, <3>1, <3>2, Pends DEF Ready
  <2>20. Answer("client", c0, d, {key, ccs, fin})
    <3>1. SameActive(c0, d)
      BY <2>16 DEF SameActive
    <3>2. m.body.info = ActiveId(c0)
      BY <1>2, <1>5 DEF ActiveId
    <3>3. id = <<c0.pending.hello.num, m.body.num>> /\ h1 = Append(c0.pending.hash, Hashed(m))
      BY <1>3, <2>1, <2>2
    <3>4. \A z \in {key, ccs, fin} : \/ z.type \in {"ClientKeyExchange", CCS}
                                     \/ z.type = "Finished" /\ Longer(h1, z.body.hash)
      <4>1. key.type = "ClientKeyExchange" /\ ccs.type = CCS
        BY <2>4, <2>5
      <4>2. fin.type = "Finished" /\ Longer(h1, fin.body.hash)
        BY <2>6, <2>7, <2>8
      <4> QED
        BY <4>1, <4>2
    <3> QED
      BY <1>3, <2>9, <2>16, <2>17, <2>19, <3>1, <3>2, <3>3, <3>4 DEF Answer
  <2>21. \A r \in Records(items) : IsRec(r) /\ AsItem(r) \in {key, ccs, fin}
    BY <2>10, RecordsFacts
  <2>22. Did("client", c0, Outcome(d, Records(items)), {key, ccs, fin})
    BY <2>19, <2>20, <2>21, OutcomeFacts DEF Did, Move, Answer
  <2> QED
    BY <2>15, <2>22 DEF Results
<1> QED
  BY <1>4, <1>5

LEMMA DoClientKeyExchange ==
  ASSUME NEW c0, NEW q, Ready(c0, q), NEW c, Taken(c0, q, c, {}), "ClientKeyExchange" \in c0.pending.expecting,
         NEW m \in Items
  PROVE  Results("server", c0, ClientKeyExchange(c, m))
<1>1. GoodPending(c.pending)
  BY DEF Taken, Ready, GoodChan, GoodPending, SameHello
<1>2. IsChan(c) /\ c.read \in Nat /\ c.write \in Nat /\ c.active = c0.active /\ SameKeys(c0, c) /\ c.closed = c0.closed
  BY DEF Taken, Ready, GoodChan, SameKeys
<1>3. PICK h : h = Append(c.pending.hash, Hashed(m)) /\ h \in Transcripts /\ Longer(c.pending.hash, h)
  BY <1>1, TranscriptFacts DEF GoodPending
<1>4. PICK y : y = [c.pending EXCEPT !.hash = h, !.expecting = {CCS}]
  OBVIOUS
<1>5. PICK d : d = [c EXCEPT !.pending = y]
  OBVIOUS
<1>6. ClientKeyExchange(c, m) = Outcome(d, {})
  <2>1. [c.pending EXCEPT !.hash = Append(c.pending.hash, Hashed(m)), !.expecting = {CCS}] = y
    BY <1>3, <1>4
  <2>2. [c EXCEPT !.pending = [@ EXCEPT !.hash = Append(c.pending.hash, Hashed(m)), !.expecting = {CCS}]] = d
    BY <1>5, <2>1
  <2> QED
    BY <2>2 DEF ClientKeyExchange
<1>7. IsChan(d) /\ d.active = c0.active /\ d.closed = c0.closed /\ SameKeys(c0, d) /\ d.pending = y
      /\ d.read \in Nat /\ d.write \in Nat
  BY <1>2, <1>5 DEF IsChan, SameKeys
<1>8. IsPending(y) /\ y.io = q /\ y.hash = h /\ y.expecting = {CCS} /\ SameHello(c0.pending, y)
      /\ c.pending.hash = c0.pending.hash
  BY <1>4 DEF IsPending, Taken, SameHello
<1>9. GoodPending(y)
  BY <1>1, <1>3, <1>8 DEF GoodPending, SameHello, Taken
<1>10. Fine(c0, d, {}) /\ d.pending # None
  <2>1. Sent(d.pending.io) \subseteq Sent(c0.pending.io) /\ Heard(d.pending.io) \subseteq Heard(c0.pending.io)
    BY <1>7, <1>8 DEF Ready
  <2> QED
    BY <1>7, <1>9, <2>1, Pends DEF Ready
<1>11. Exchange("server", c0, d, {})
  <2>1. SameChan(c0, d)
    BY <1>7 DEF SameChan, SameActive
  <2> QED
    BY <1>3, <1>7, <1>8, <1>10, <2>1 DEF Exchange, Ready
<1>12. Did("server", c0, Outcome(d, {}), {})
  BY <1>10, <1>11, OutcomeFacts DEF Did, Move, Exchange, SameChan
<1> QED
  BY <1>6, <1>12 DEF Results

LEMMA DoChangeCipherSpec ==
  ASSUME NEW p, NEW c0, NEW q, Ready(c0, q), NEW c, Taken(c0, q, c, {}), CCS \in c0.pending.expecting
  PROVE  Results(p, c0, ChangeCipherSpec(c))
<1>1. GoodPending(c.pending)
  BY DEF Taken, Ready, GoodChan, GoodPending, SameHello
<1>2. IsChan(c) /\ c.read \in Nat /\ c.write \in Nat /\ c.active = c0.active /\ SameKeys(c0, c) /\ c.closed = c0.closed
  BY DEF Taken, Ready, GoodChan, SameKeys
<1>3. PICK nk : nk = NextKeys(c.read_keys, c.read, c.pending.id)
  OBVIOUS
<1>4. PICK y : y = [c.pending EXCEPT !.expecting = {"Finished"}]
  OBVIOUS
<1>5. PICK d : d = [c EXCEPT !.read = c.read + 1, !.read_keys = nk, !.pending = y]
  OBVIOUS
<1>6. ChangeCipherSpec(c) = Outcome(d, {})
  <2>1. NextRead(c, c.pending.id) = [c EXCEPT !.read = c.read + 1, !.read_keys = nk]
    BY <1>2, <1>3 DEF NextRead, NextKeys, IsChan
  <2>2. [NextRead(c, c.pending.id) EXCEPT !.pending.expecting = {"Finished"}] = d
    BY <1>1, <1>2, <1>4, <1>5, <2>1 DEF IsChan, GoodPending, IsPending
  <2> QED
    BY <2>2 DEF ChangeCipherSpec
<1>7. IsChan(d) /\ d.active = c0.active /\ d.closed = c0.closed /\ d.write = c0.write /\ d.write_keys = c0.write_keys
      /\ d.read = c0.read + 1 /\ d.read_keys = NextKeys(c0.read_keys, c0.read, c0.pending.id) /\ d.pending = y
      /\ d.read \in Nat /\ d.write \in Nat
  <2>1. d.read = c.read + 1 /\ d.read_keys = nk /\ d.pending = y /\ IsChan(d)
        /\ d.active = c.active /\ d.closed = c.closed /\ d.write = c.write /\ d.write_keys = c.write_keys
    BY <1>2, <1>5 DEF IsChan
  <2>2. c.pending.id = c0.pending.id /\ c.read + 1 \in Nat
    BY <1>2 DEF Taken, SameHello
  <2> QED
    BY <1>2, <1>3, <2>1, <2>2 DEF SameKeys
<1>8. IsPending(y) /\ y.io = q /\ y.hash = c0.pending.hash /\ y.expecting = {"Finished"} /\ SameHello(c0.pending, y)
  BY <1>4 DEF IsPending, Taken, SameHello
<1>9. GoodPending(y)
  BY <1>1, <1>8 DEF GoodPending, SameHello, Taken
<1>10. Fine(c0, d, {}) /\ d.pending # None
  <2>1. Sent(d.pending.io) \subseteq Sent(c0.pending.io) /\ Heard(d.pending.io) \subseteq Heard(c0.pending.io)
    BY <1>7, <1>8 DEF Ready
  <2> QED
    BY <1>7, <1>9, <2>1, Pends DEF Ready
<1>11. Change(c0, d, {})
  <2>1. SameActive(c0, d)
    BY <1>7 DEF SameActive
  <2> QED
    BY <1>7, <1>8, <1>10, <2>1 DEF Change, Ready
<1>12. Did(p, c0, Outcome(d, {}), {})
  BY <1>10, <1>11, OutcomeFacts DEF Did, Move, Change
<1> QED
  BY <1>6, <1>12 DEF Results

LEMMA ResetFacts ==
  ASSUME NEW c, IsChan(c)
  PROVE  LET r == ResetAssociation(c)
         IN  /\ IsChan(r) /\ r.active = None /\ r.pending = c.pending /\ r.closed = c.closed
             /\ r.read = 0 /\ r.write = 0 /\ r.read_keys = NoKeys /\ r.write_keys = NoKeys
<1>1. PICK k : k = NoKeys
  OBVIOUS
<1>2. PICK n : n = None
  OBVIOUS
<1>3. ResetAssociation(c) = [c EXCEPT !.active = n, !.read = 0, !.write = 0, !.read_keys = k, !.write_keys = k]
  BY <1>1, <1>2 DEF ResetAssociation
<1> QED
  BY <1>1, <1>2, <1>3 DEF IsChan

\* ClientHello: refused, answered with a HelloVerifyRequest or with a ServerHello.
LEMMA DoClientHello ==
  ASSUME NEW c0, NEW q, Ready(c0, q), NEW c, Taken(c0, q, c, {}), "ClientHello" \in c0.pending.expecting,
         NEW m \in Said("client"), m \in Items, m.type = "ClientHello", fresh \in Nat, NEW restart,
         (\E r \in ClientHello(c, m, q, restart).recs : r.body.num > fresh) => fresh' = fresh + 1
  PROVE  Results("server", c0, ClientHello(c, m, q, restart))
<1> DEFINE initial == restart \/ c.active = None
<1>1. GoodPending(c.pending)
  BY DEF Taken, Ready, GoodChan, GoodPending, SameHello
<1>2. IsChan(c) /\ c.read \in Nat /\ c.write \in Nat /\ c.active = c0.active /\ SameKeys(c0, c) /\ c.closed = c0.closed
  BY DEF Taken, Ready, GoodChan, SameKeys
<1>3. IsPending(c.pending) /\ c.pending.io = q /\ SameHello(c0.pending, c.pending)
      /\ c.pending.hash = c0.pending.hash /\ c0.pending # None /\ c.pending.expecting = {}
  BY DEF Taken, Ready
<1>4. Sent(q) \subseteq Sent(c0.pending.io) /\ Heard(q) \subseteq Heard(c0.pending.io) /\ GoodIO(q) /\ ~q.finished
      /\ Timed(q) /\ GoodChan(c0)
  BY DEF Ready
<1>5. CASE ~initial /\ ~policy.client_reneg
  <2>1. ClientHello(c, m, q, restart) = Refused(c)
    BY <1>5 DEF ClientHello
  <2>2. c0.active # None
    BY <1>2, <1>5
  <2> QED
    BY <1>5, <2>1, <2>2, Refuses
<1>6. CASE ~(~initial /\ ~policy.client_reneg) /\ HaveMoreData(q)
  <2>1. ClientHello(c, m, q, restart) = Exception(c)
    BY <1>6 DEF ClientHello
  <2> QED
    BY <2>1, Throws DEF Results
<1>7. CASE ~(~initial /\ ~policy.client_reneg) /\ ~HaveMoreData(q) /\ initial /\ ~m.body.cookie
  <2>1. PICK e \in Nat : e = IF restart THEN 0 ELSE c.write
    BY <1>2
  <2>2. PICK i : i = SendHelloVerify(q) /\ GoodIO(i) /\ ~i.finished /\ Sent(i) = Sent(q) /\ Heard(i) = Heard(q)
                 /\ HelloVerifySeq(q) \in Int
    BY <1>4, HelloVerifyFacts
  <2>3. PICK z : z = Item("HelloVerifyRequest", HelloVerifySeq(q), e, NoBody) /\ z \in Items /\ z.type = "HelloVerifyRequest"
    BY <2>1, <2>2, ItemFacts, BodyFacts DEF MsgTypes
  <2>4. PICK y : y = [c.pending EXCEPT !.io = i, !.hash = <<>>, !.expecting = {"ClientHello"}]
    OBVIOUS
  <2>5. PICK d : d = [c EXCEPT !.pending = y]
    OBVIOUS
  <2>6. ClientHello(c, m, q, restart) = Outcome(d, Fragments(z))
    BY <1>7, <2>1, <2>2, <2>3, <2>4, <2>5 DEF ClientHello
  <2>7. IsChan(d) /\ d.active = c0.active /\ d.closed = c0.closed /\ SameKeys(c0, d) /\ d.pending = y
        /\ d.read \in Nat /\ d.write \in Nat
    BY <1>2, <2>5 DEF IsChan, SameKeys
  <2>8. IsPending(y) /\ y.io = i /\ y.hash = <<>> /\ y.expecting = {"ClientHello"} /\ SameHello(c0.pending, y)
    BY <1>3, <2>4 DEF IsPending, SameHello
  <2>9. GoodPending(y)
    BY <1>1, <1>3, <2>2, <2>8, TranscriptFacts DEF GoodPending, SameHello
  <2>10. Fine(c0, d, {z}) /\ d.pending # None
    <3>1. Sent(d.pending.io) \subseteq Sent(c0.pending.io) \cup {z} /\ Heard(d.pending.io) \subseteq Heard(c0.pending.io)
      BY <1>4, <2>2, <2>7, <2>8
    <3>2. {z} \subseteq Items \cup Notes
      BY <2>3
    <3> QED
      BY <1>3, <1>4, <2>7, <2>9, <3>1, <3>2, Pends
  <2>11. Verify("server", c0, d, {z})
    <3>1. SameChan(c0, d)
      BY <2>7 DEF SameChan, SameActive
    <3> QED
      BY <1>3, <2>3, <2>7, <2>8, <2>10, <3>1 DEF Verify
  <2>12. \A r \in Fragments(z) : IsRec(r) /\ AsItem(r) \in {z}
    BY <2>3, FragmentsFacts
  <2>13. Did("server", c0, Outcome(d, Fragments(z)), {z})
    BY <2>10, <2>11, <2>12, OutcomeFacts DEF Did, Move, Verify, SameChan
  <2> QED
    BY <2>6, <2>13 DEF Results
<1>8. CASE ~(~initial /\ ~policy.client_reneg) /\ ~HaveMoreData(q) /\ ~(initial /\ ~m.body.cookie)
  <2>1. PICK r : r = IF restart THEN ResetAssociation(c) ELSE c
    OBVIOUS
  <2>2. /\ IsChan(r) /\ r.pending = c.pending /\ r.closed = c0.closed /\ r.read \in Nat /\ r.write \in Nat
        /\ r.active = c0.active \/ r.active = None
        /\ \/ ~restart /\ r.active = c0.active /\ SameKeys(c0, r) /\ r = c
           \/ /\ restart /\ r.active = None
              /\ r.read = 0 /\ r.write = 0 /\ r.read_keys = NoKeys /\ r.write_keys = NoKeys
    <3>1. CASE restart
      BY <1>2, <2>1, <3>1, ResetFacts
    <3>2. CASE ~restart
      BY <1>2, <2>1, <3>2
    <3> QED
      BY <3>1, <3>2
  <2>3. ActiveId(r) \in Pairs /\ (~policy.client_reneg => ActiveId(r) = NoId)
    <3>1. CASE r.active = None
      BY <3>1 DEF ActiveId, NoId, Pairs
    <3>2. CASE r.active # None
      BY <1>2, <1>4, <1>8, <2>2, <3>2 DEF ActiveId, GoodChan
    <3> QED
      BY <3>1, <3>2
  <2>4. CASE m.body.info # ActiveId(r)
    <3>1. ClientHello(c, m, q, restart) = Exception(r)
      BY <1>8, <2>1, <2>4 DEF ClientHello, SecureRenegotiation
    <3>2. CASE ~restart
      BY <2>2, <3>1, <3>2, Throws DEF Results
    <3>3. CASE restart
      <4>1. Fine(c0, r, {}) /\ r.pending # None
        BY <1>1, <1>3, <1>4, <2>2, Pends
      <4>2. Restarted(c0, r)
        BY <2>2, <3>3 DEF Restarted
      <4>3. Stick("server", c0, r, {})
        BY <1>3, <2>2, <4>1, <4>2 DEF Stick
      <4>4. Threw("server", c0, Exception(r))
        BY <1>3, <1>4, <2>2, <4>1, <4>3, OutcomeFacts DEF Threw
      <4> QED
        BY <3>1, <4>4 DEF Results
    <3> QED
      BY <3>2, <3>3
  <2>5. CASE m.body.info = ActiveId(r)
    <3>1. PICK b : b = Hello(fresh + 1, FALSE, ActiveId(r)) /\ b \in Bodies /\ b.num = fresh + 1 /\ b.info = ActiveId(r)
      <4>1. fresh + 1 \in Nat /\ FALSE \in BOOLEAN
        OBVIOUS
      <4>2. Hello(fresh + 1, FALSE, ActiveId(r)) \in Bodies
            /\ Hello(fresh + 1, FALSE, ActiveId(r)).num = fresh + 1
            /\ Hello(fresh + 1, FALSE, ActiveId(r)).info = ActiveId(r)
        BY <2>3, <4>1, BodyFacts, Zenon
      <4> QED
        BY <4>2
    <3>2. q.out \in Int
      BY <1>4 DEF GoodIO
    <3>3. PICK z : z = Item("ServerHello", q.out, r.write, b) /\ z \in Items /\ z.type = "ServerHello" /\ z.body = b
      <4>1. b \in Bodies /\ r.write \in Nat /\ "ServerHello" \in MsgTypes
        BY <2>2, <3>1 DEF MsgTypes
      <4> QED
        BY <3>2, <4>1, ItemFacts
    <3>4. PICK i : i = Send(q, <<z>>) /\ GoodIO(i) /\ ~i.finished /\ Sent(i) \subseteq Sent(q) \cup {z} /\ Heard(i) = Heard(q)
      <4>1. <<z>> \in Seq(Items) /\ {<<z>>[j] : j \in DOMAIN <<z>>} = {z}
        BY <3>3
      <4> QED
        BY <1>4, <4>1, SendFacts
    <3>5. PICK n \in Nat : n = m.body.num
      BY ItemsAre, BodyFacts
    <3>6. PICK id : id = <<n, fresh + 1>> /\ id \in Pairs /\ id[1] = n /\ id[2] = fresh + 1
      <4>1. <<n, fresh + 1>> \in Pairs
        BY DEF Pairs
      <4> QED
        BY <4>1
    <3>7. PICK h : h = <<Hashed(m), Hashed(z)>> /\ h \in Transcripts /\ Len(h) = 2 /\ h[1][3] = n /\ h[2][3] = fresh + 1
      <4>1. PICK S : S = MsgTypes \X Int \X Nat
        OBVIOUS
      <4>2. PICK j, k \in S : j = Hashed(m) /\ k = Hashed(z) /\ j[3] = n /\ k[3] = fresh + 1
        BY <3>1, <3>3, <3>5, <4>1, ItemsAre
      <4>3. <<j, k>> \in Seq(S) /\ Len(<<j, k>>) = 2 /\ <<j, k>>[1] = j /\ <<j, k>>[2] = k
        OBVIOUS
      <4> QED
        BY <4>1, <4>2, <4>3 DEF Transcripts
    <3>8. PICK y : y = [c.pending EXCEPT !.io = i, !.hello = m.body, !.id = id, !.hash = h, !.expecting = {"ClientKeyExchange"}]
      OBVIOUS
    <3>9. PICK d : d = [r EXCEPT !.pending = y]
      OBVIOUS
    <3>10. ClientHello(c, m, q, restart) = Outcome(d, Fragments(z))
      BY <1>8, <2>1, <2>2, <2>5, <3>1, <3>3, <3>4, <3>5, <3>6, <3>7, <3>8, <3>9 DEF ClientHello, SecureRenegotiation
    <3>11. /\ IsChan(d) /\ d.active = r.active /\ d.closed = r.closed /\ d.pending = y
           /\ d.read = r.read /\ d.write = r.write /\ d.read_keys = r.read_keys /\ d.write_keys = r.write_keys
      BY <2>2, <3>9 DEF IsChan
    <3>12. IsPending(y) /\ y.io = i /\ y.hash = h /\ y.expecting = {"ClientKeyExchange"} /\ y.id = id
           /\ y.hello = m.body /\ y.before = c0.pending.before
      BY <1>3, <3>8 DEF IsPending, SameHello
    <3>13. GoodPending(y)
      BY <1>1, <1>3, <3>4, <3>6, <3>7, <3>12, ItemsAre DEF GoodPending, SameHello
    <3>14. Fine(c0, d, {z}) /\ d.pending # None
      <4>1. Sent(d.pending.io) \subseteq Sent(c0.pending.io) \cup {z} /\ Heard(d.pending.io) \subseteq Heard(c0.pending.io)
        BY <1>4, <3>4, <3>11, <3>12
      <4>2. {z} \subseteq Items \cup Notes
        BY <3>3
      <4> QED
        BY <1>3, <1>4, <2>2, <3>11, <3>13, <4>1, <4>2, Pends
    <3>15. fresh' = fresh + 1
      <4>1. PICK w \in Fragments(z) : w.body = b
        BY <3>3, HelloHasRecords
      <4>2. b.num = fresh + 1
        BY <3>1, Zenon
      <4>3. w.body.num > fresh
        BY <4>1, <4>2
      <4>4. \E v \in Fragments(z) : v.body.num > fresh
        BY <4>3
      <4> QED
        BY <3>10, <4>4, OutcomeFacts
    <3>16. Accept("server", c0, d, {z})
      <4>1. SameChan(c0, d) \/ Restarted(c0, d)
        BY <2>2, <3>11 DEF SameChan, SameActive, SameKeys, Restarted
      <4>2. y.id[2] = fresh + 1 /\ Len(y.hash) = 2 /\ y.id = <<y.hash[1][3], y.hash[2][3]>> /\ y.id[1] = m.body.num
        BY <3>5, <3>6, <3>7, <3>12
      <4>3. \A x \in {z} : /\ x.type = "ServerHello" /\ x.body.num = fresh + 1
                           /\ ~policy.client_reneg => x.body.info = NoId
        BY <2>3, <3>1, <3>3
      <4>4. ~policy.client_reneg => d.active = None
        BY <1>2, <1>8, <2>2, <3>11
      <4> QED
        BY <1>3, <3>11, <3>12, <3>14, <3>15, <4>1, <4>2, <4>3, <4>4 DEF Accept
    <3>17. \A w \in Fragments(z) : IsRec(w) /\ AsItem(w) \in {z}
      BY <3>3, FragmentsFacts
    <3>18. Did("server", c0, Outcome(d, Fragments(z)), {z})
      BY <3>14, <3>16, <3>17, OutcomeFacts DEF Did, Move, Accept, SameChan, Restarted
    <3> QED
      BY <3>10, <3>18 DEF Results
  <2> QED
    BY <2>4, <2>5
<1> QED
  BY <1>5, <1>6, <1>7, <1>8

LEMMA DoFinished ==
  ASSUME NEW p \in Sides, NEW c0, NEW q, Ready(c0, q), NEW c, Taken(c0, q, c, {}), "Finished" \in c0.pending.expecting,
         NEW m \in Said(Peer(p)), m \in Items, m.type = "Finished"
  PROVE  Results(p, c0, Finished(p, c, m, q))
<1>1. GoodPending(c.pending)
  BY DEF Taken, Ready, GoodChan, GoodPending, SameHello
<1>2. IsChan(c) /\ c.read \in Nat /\ c.write \in Nat /\ c.active = c0.active /\ SameKeys(c0, c) /\ c.closed = c0.closed
  BY DEF Taken, Ready, GoodChan, SameKeys
<1>3. IsPending(c.pending) /\ c.pending.io = q /\ c.pending.id = c0.pending.id
      /\ c.pending.hash = c0.pending.hash /\ c0.pending # None
  BY DEF Taken, Ready, SameHello
<1>4. Sent(q) \subseteq Sent(c0.pending.io) /\ GoodIO(q) /\ ~q.finished /\ GoodChan(c0)
  BY DEF Ready
<1>5. CASE HaveMoreData(q) \/ m.body.hash # c.pending.hash
  <2>1. Finished(p, c, m, q) = Exception(c)
    BY <1>5 DEF Finished
  <2> QED
    BY <2>1, Throws DEF Results
\* The new association.
<1>6. ASSUME NEW g, IsChan(g), g.pending = c.pending, g.closed = c.closed, g.read \in Nat, g.write \in Nat,
             NEW i, GoodIO(i), NEW X, X \subseteq Items, Sent(i) \subseteq Sent(q) \cup X
      PROVE  LET d == Activate(p, g, i)
             IN  /\ Fine(c0, d, X) /\ d.active # None /\ d.active.id = c0.pending.id /\ d.pending = None
                 /\ d.closed = c0.closed /\ SameKeys(g, d)
  <2>1. PICK j : j = Finalize(i, p = "server") /\ GoodIO(j) /\ Sent(j) = Sent(i)
    <3>1. PICK t : t = (p = "server")
      OBVIOUS
    <3>2. GoodIO(Finalize(i, t)) /\ Sent(Finalize(i, t)) = Sent(i)
      BY <1>6, FinalizeFacts
    <3> QED
      BY <3>1, <3>2
  <2>2. PICK a : a = [id |-> g.pending.id, io |-> j]
    OBVIOUS
  <2>3. IsActive(a) /\ a.id = c0.pending.id /\ a.io = j
    BY <1>3, <1>6, <2>2 DEF IsActive
  <2>4. PICK n : n = None
    OBVIOUS
  <2>5. PICK d : d = [g EXCEPT !.active = a, !.pending = n]
    OBVIOUS
  <2>6. Activate(p, g, i) = d
    BY <2>1, <2>2, <2>4, <2>5 DEF Activate
  <2>7. IsChan(d) /\ d.active = a /\ d.pending = None /\ d.closed = c0.closed /\ SameKeys(g, d)
    BY <1>2, <1>6, <2>4, <2>5 DEF IsChan, SameKeys
  <2>8. a # None
    BY <2>3, NotNone
  <2>9. a.id \in Pairs
    BY <1>1, <1>3, <2>3 DEF GoodPending
  <2>10. GoodChan(d)
    BY <1>6, <2>1, <2>3, <2>7, <2>9 DEF GoodChan, SameKeys
  <2>11. Kept(d) \subseteq Kept(c0) \cup X
    <3>1. Kept(d) = Sent(j)
      BY <2>3, <2>7, <2>8 DEF Kept
    <3>2. Sent(c0.pending.io) \subseteq Kept(c0)
      BY <1>3 DEF Kept
    <3> QED
      BY <1>4, <1>6, <2>1, <3>1, <3>2
  <2>12. Fine(c0, d, X)
    BY <1>6, <2>7, <2>10, <2>11 DEF Fine, Hears
  <2> QED
    BY <2>3, <2>6, <2>7, <2>8, <2>12
<1>7. CASE ~(HaveMoreData(q) \/ m.body.hash # c.pending.hash) /\ p = "client"
  <2>1. PICK d : d = Activate(p, c, q)
    OBVIOUS
  <2>2. Finished(p, c, m, q) = Outcome(d, {})
    BY <1>7, <2>1 DEF Finished
  <2>3. /\ Fine(c0, d, {}) /\ d.active # None /\ d.active.id = c0.pending.id /\ d.pending = None
        /\ d.closed = c0.closed /\ SameKeys(c, d)
    BY <1>2, <1>4, <1>6, <2>1
  <2>4. Finish(p, c0, d, {})
    BY <1>2, <1>3, <1>7, <2>3 DEF Finish, SameKeys
  <2>5. Did(p, c0, Outcome(d, {}), {})
    BY <2>3, <2>4, OutcomeFacts DEF Did, Move, Finish
  <2> QED
    BY <2>2, <2>5 DEF Results
<1>8. CASE ~(HaveMoreData(q) \/ m.body.hash # c.pending.hash) /\ p = "server"
  <2>1. PICK id, w : id = c.pending.id /\ w = c.write
    OBVIOUS
  <2>2. PICK nk : nk = NextKeys(c.write_keys, w, id)
    OBVIOUS
  <2>3. PICK g : g = [c EXCEPT !.write = w + 1, !.write_keys = nk]
    OBVIOUS
  <2>4. NextWrite(c, c.pending.id) = g
    BY <1>2, <2>1, <2>2, <2>3 DEF NextWrite, NextKeys, IsChan
  <2>5. IsChan(g) /\ g.pending = c.pending /\ g.closed = c.closed /\ g.read \in Nat /\ g.write \in Nat
        /\ g.read = c0.read /\ g.read_keys = c0.read_keys
        /\ g.write = c0.write + 1 /\ g.write_keys = NextKeys(c0.write_keys, c0.write, c0.pending.id)
    <3>1. IsChan(g) /\ g.pending = c.pending /\ g.closed = c.closed /\ g.read = c.read /\ g.read_keys = c.read_keys
          /\ g.write = w + 1 /\ g.write_keys = nk
      BY <1>2, <2>3 DEF IsChan
    <3>2. w + 1 \in Nat
      BY <1>2, <2>1
    <3> QED
      BY <1>2, <1>3, <2>1, <2>2, <3>1, <3>2 DEF SameKeys
  <2>6. q.out \in Int /\ c.write + 1 \in Nat
    BY <1>2, <1>4 DEF GoodIO
  <2>7. PICK ccs : ccs = Item(CCS, 0, c.write, NoBody) /\ ccs \in Items /\ ccs.type = CCS
    BY <1>2, ItemFacts, BodyFacts DEF MsgTypes
  <2>8. PICK h : h = Append(c.pending.hash, Hashed(m)) /\ h \in Transcripts /\ Longer(c.pending.hash, h)
    BY <1>1, TranscriptFacts DEF GoodPending
  <2>9. PICK b : b = [NoBody EXCEPT !.hash = h] /\ b \in Bodies /\ b.hash = h
    BY <2>8, BodyFacts
  <2>10. PICK fin : fin = Item("Finished", q.out, c.write + 1, b) /\ fin \in Items /\ fin.type = "Finished" /\ fin.body = b
    BY <2>6, <2>9, ItemFacts DEF MsgTypes
  <2>11. PICK items : items = <<ccs, fin>> /\ items \in Seq(Items) /\ {items[j] : j \in DOMAIN items} = {ccs, fin}
    <3>1. ccs \in Items /\ fin \in Items
      BY <2>7, <2>10
    <3>2. <<ccs, fin>> \in Seq(Items) /\ {<<ccs, fin>>[j] : j \in DOMAIN <<ccs, fin>>} = {ccs, fin}
      BY <3>1, TuplesOfItems
    <3> QED
      BY <3>2
  <2>12. PICK i : i = Send(q, items) /\ GoodIO(i) /\ Sent(i) \subseteq Sent(q) \cup {ccs, fin}
    BY <1>4, <2>11, SendFacts
  <2>13. PICK d : d = Activate(p, g, i)
    OBVIOUS
  <2>14. Finished(p, c, m, q) = Outcome(d, Records(items))
    BY <1>8, <2>4, <2>7, <2>8, <2>9, <2>10, <2>11, <2>12, <2>13 DEF Finished
  <2>15. {ccs, fin} \subseteq Items
    BY <2>7, <2>10
  <2>16. /\ Fine(c0, d, {ccs, fin}) /\ d.active # None /\ d.active.id = c0.pending.id /\ d.pending = None
         /\ d.closed = c0.closed /\ SameKeys(g, d)
    BY <1>6, <2>5, <2>12, <2>13, <2>15
  <2>17. Finish(p, c0, d, {ccs, fin})
    <3>1. \A z \in {ccs, fin} : z.type = CCS \/ (z.type = "Finished" /\ Longer(c0.pending.hash, z.body.hash))
      <4>1. ccs.type = CCS
        BY <2>7
      <4>2. fin.type = "Finished" /\ Longer(c0.pending.hash, fin.body.hash)
        BY <1>3, <2>8, <2>9, <2>10
      <4> QED
        BY <4>1, <4>2
    <3>2. d.read = c0.read /\ d.read_keys = c0.read_keys
          /\ d.write = c0.write + 1 /\ d.write_keys = NextKeys(c0.write_keys, c0.write, c0.pending.id)
      BY <2>5, <2>16 DEF SameKeys
    <3> QED
      BY <1>3, <1>8, <2>16, <3>1, <3>2 DEF Finish
  <2>18. \A r \in Records(items) : IsRec(r) /\ AsItem(r) \in {ccs, fin}
    BY <2>11, RecordsFacts
  <2>19. Did(p, c0, Outcome(d, Records(items)), {ccs, fin})
    BY <2>16, <2>17, <2>18, OutcomeFacts DEF Did, Move, Finish
  <2> QED
    BY <2>14, <2>19 DEF Results
<1> QED
  BY <1>5, <1>7, <1>8 DEF Sides

-----------------------------------------------------------------------------
(* Every step is a move.                                                   *)

\* A side is waiting for nothing but its peer's messages.
Expecting == \A p \in Sides : chan[p].pending # None => chan[p].pending.expecting \subseteq Expected(p)

LEMMA DoHandle ==
  ASSUME Typed, NEW p \in Sides, chan[p].pending # None, chan[p].pending.expecting \subseteq Expected(p),
         NEW m \in NextFor(p), NEW q, q = AfterNext(ConcludeFlight(chan[p].pending.io), m), NEW restart,
         NEW out, out = Handle(p, m, q, restart),
         (\E r \in out.recs : r.body.num > fresh) => fresh' = fresh + 1
  PROVE  Results(p, chan[p], out)
<1> DEFINE c0 == chan[p]
<1>1. GoodChan(c0) /\ fresh \in Nat
  BY DEF Typed
<1>2. IsChan(c0) /\ GoodPending(c0.pending)
  BY <1>1 DEF GoodChan
<1>3. IsPending(c0.pending) /\ GoodIO(c0.pending.io) /\ ~c0.pending.io.finished
  BY <1>2 DEF GoodPending
<1>4. Ready(c0, q)
  <2>1. PICK i : /\ i = ConcludeFlight(c0.pending.io) /\ GoodIO(i) /\ ~i.finished /\ Timed(i)
                 /\ Sent(i) = Sent(c0.pending.io) /\ Heard(i) = Heard(c0.pending.io) /\ Last(i.flights) = <<>>
    BY <1>3, ConcludeFacts
  <2>2. q = AfterNext(i, m)
    BY <2>1
  <2>3. GoodIO(q) /\ q.finished = i.finished /\ q.flights = i.flights /\ Sent(q) = Sent(i) /\ Heard(q) \subseteq Heard(i)
    BY <2>1, <2>2, AfterNextFacts
  <2>4. Timed(q)
    BY <2>1, <2>3 DEF Timed
  <2> QED
    BY <1>1, <2>1, <2>3, <2>4 DEF Ready
<1> DEFINE expecting == c0.pending.expecting
<1>5. PICK taken : taken = [c0 EXCEPT !.pending.io = q] /\ Taken(c0, q, taken, expecting)
  <2>1. PICK y : y = [c0.pending EXCEPT !.io = q]
    OBVIOUS
  <2>2. PICK t : t = [c0 EXCEPT !.pending = y]
    OBVIOUS
  <2>3. [c0 EXCEPT !.pending.io = q] = t
    BY <1>2, <2>1, <2>2 DEF IsChan
  <2>4. IsPending(y) /\ y.io = q /\ y.expecting = expecting /\ SameHello(c0.pending, y) /\ y.hash = c0.pending.hash
    BY <1>3, <2>1 DEF IsPending, SameHello
  <2>5. IsChan(t) /\ t.active = c0.active /\ t.closed = c0.closed /\ SameKeys(c0, t) /\ t.pending = y
    BY <1>2, <2>2 DEF IsChan, SameKeys
  <2>6. Taken(c0, q, t, expecting)
    BY <2>4, <2>5 DEF Taken
  <2> QED
    BY <2>3, <2>6
<1>6. PICK c : c = [taken EXCEPT !.pending.expecting = {}] /\ Taken(c0, q, c, {})
  <2>1. PICK y : y = [taken.pending EXCEPT !.expecting = {}]
    OBVIOUS
  <2>2. PICK t : t = [taken EXCEPT !.pending = y]
    OBVIOUS
  <2>3. [taken EXCEPT !.pending.expecting = {}] = t
    BY <1>5, <2>1, <2>2 DEF IsChan, Taken
  <2>4. IsPending(y) /\ y.io = q /\ y.expecting = {} /\ SameHello(c0.pending, y) /\ y.hash = c0.pending.hash
    BY <1>5, <2>1 DEF IsPending, SameHello, Taken
  <2>5. IsChan(t) /\ t.active = c0.active /\ t.closed = c0.closed /\ SameKeys(c0, t) /\ t.pending = y
    BY <1>5, <2>2 DEF IsChan, SameKeys, Taken
  <2>6. Taken(c0, q, t, {})
    BY <2>4, <2>5 DEF Taken
  <2> QED
    BY <2>3, <2>6
<1>7. taken.active = c0.active /\ taken.pending.expecting = expecting
  BY <1>5 DEF Taken
<1>8. expecting \subseteq Expected(p)
  OBVIOUS
<1>9. \/ CCS \in expecting /\ m.type = CCS
      \/ CCS \notin expecting /\ m \in Said(Peer(p)) /\ m \in Items
  <2>1. m \in NextRecord(c0.pending.io, CCS \in expecting)
    BY DEF NextFor
  <2>2. PICK e : e = (CCS \in expecting) /\ m \in NextRecord(c0.pending.io, e)
    BY <2>1
  <2>3. Hears(c0) \subseteq Said(Peer(p))
    BY PeerFacts DEF Said
  <2>4. Hears(c0) = Heard(c0.pending.io)
    BY DEF Hears
  <2>5. \/ e /\ m.type = CCS
        \/ ~e /\ m \in Heard(c0.pending.io) /\ m \in Items
    BY <1>3, <2>2, NextRecordFacts
  <2> QED
    BY <2>2, <2>3, <2>4, <2>5
<1> HIDE DEF c0, expecting
<1>10. CASE p = "client" /\ m.type = "HelloRequest" /\ taken.active # None
  <2>1. out = HelloRequest(taken, q)
    BY <1>5, <1>10 DEF Handle, c0
  <2>2. Results("client", c0, HelloRequest(taken, q))
    BY <1>1, <1>4, <1>5, <1>7, <1>10, <2>1, DoHelloRequest DEF expecting
  <2> QED
    BY <1>10, <2>1, <2>2 DEF c0
<1>11. CASE ~(p = "client" /\ m.type = "HelloRequest" /\ taken.active # None) /\ m.type \notin expecting
  <2>1. out = Exception(taken)
    BY <1>5, <1>7, <1>11 DEF Handle, c0
  <2>2. Threw(p, c0, Exception(taken))
    BY <1>4, <1>5, Throws DEF expecting
  <2> QED
    BY <2>1, <2>2 DEF Results, c0
<1>12. CASE ~(p = "client" /\ m.type = "HelloRequest" /\ taken.active # None) /\ m.type \in expecting
  <2>1. out = CASE m.type = "HelloVerifyRequest" -> HelloVerifyRequest(c, q)
                [] m.type = "ServerHello" -> ServerHello(c, m, q)
                [] m.type = "ClientHello" -> ClientHello(c, m, q, restart)
                [] m.type = "ClientKeyExchange" -> ClientKeyExchange(c, m)
                [] m.type = CCS -> ChangeCipherSpec(c)
                [] m.type = "Finished" -> Finished(p, c, m, q)
    BY <1>5, <1>6, <1>7, <1>12 DEF Handle, c0
  <2>2. m.type \in Expected(p)
    BY <1>8, <1>12
  <2>3. CASE m.type = CCS
    <3>1. out = ChangeCipherSpec(c)
      BY <2>1, <2>3 DEF CCS
    <3> QED
      BY <1>4, <1>6, <1>12, <2>3, <3>1, DoChangeCipherSpec DEF expecting, c0
  <2>4. CASE m.type = "Finished"
    <3>1. out = Finished(p, c, m, q)
      BY <2>1, <2>4 DEF CCS
    <3>2. m \in Said(Peer(p)) /\ m \in Items
      BY <1>9, <2>4 DEF CCS
    <3> QED
      BY <1>4, <1>6, <1>12, <2>4, <3>1, <3>2, DoFinished DEF expecting, c0
  <2>5. CASE m.type = "HelloVerifyRequest"
    <3>1. out = HelloVerifyRequest(c, q) /\ p = "client"
      BY <2>1, <2>2, <2>5 DEF CCS, Expected
    <3> QED
      BY <1>4, <1>6, <1>12, <2>5, <3>1, DoHelloVerifyRequest DEF expecting, c0
  <2>6. CASE m.type = "ServerHello"
    <3>1. out = ServerHello(c, m, q) /\ p = "client" /\ m \in Said("server") /\ m \in Items
      BY <1>9, <2>1, <2>2, <2>6 DEF CCS, Expected, Peer
    <3> QED
      BY <1>4, <1>6, <1>12, <2>6, <3>1, DoServerHello DEF expecting, c0
  <2>7. CASE m.type = "ClientHello"
    <3>1. out = ClientHello(c, m, q, restart) /\ p # "client" /\ m \in Said("client") /\ m \in Items
      BY <1>9, <2>1, <2>2, <2>7 DEF CCS, Expected, Peer, Sides
    <3>2. p = "server"
      BY <3>1 DEF Sides
    <3>3. Results("server", c0, ClientHello(c, m, q, restart))
      BY <1>1, <1>4, <1>6, <1>12, <2>7, <3>1, DoClientHello DEF expecting
    <3> QED
      BY <3>1, <3>2, <3>3 DEF c0
  <2>8. CASE m.type = "ClientKeyExchange"
    <3>1. out = ClientKeyExchange(c, m) /\ p = "server" /\ m \in Items
      BY <1>9, <2>1, <2>2, <2>8 DEF CCS, Expected, Sides
    <3> QED
      BY <1>4, <1>6, <1>12, <2>8, <3>1, DoClientKeyExchange DEF expecting, c0
  <2> QED
    BY <2>2, <2>3, <2>4, <2>5, <2>6, <2>7, <2>8 DEF Expected
<1> QED
  BY <1>10, <1>11, <1>12

LEMMA WireFacts ==
  ASSUME NEW p, NEW c, NEW recs
  PROVE  /\ \A w \in Wire(p, c, recs) : w.from = p /\ w.rec \in recs
         /\ \A r \in recs : \E w \in Wire(p, c, recs) : w.rec = r
<1>1. ASSUME NEW w \in Wire(p, c, recs) PROVE w.from = p /\ w.rec \in recs
  <2>1. PICK r \in recs : w = [from |-> p, rec |-> r, key |-> c.write_keys[r.epoch]]
    BY <1>1 DEF Wire
  <2> QED
    BY <2>1
<1>2. ASSUME NEW r \in recs PROVE \E w \in Wire(p, c, recs) : w.rec = r
  <2>1. PICK k : k = c.write_keys[r.epoch]
    OBVIOUS
  <2>2. PICK w : w = [from |-> p, rec |-> r, key |-> k]
    OBVIOUS
  <2>3. w \in Wire(p, c, recs)
    BY <1>2, <2>1, <2>2 DEF Wire
  <2> QED
    BY <2>2, <2>3
<1> QED
  BY <1>1, <1>2

\* An alert is a note.
LEMMA AlertFacts ==
  ASSUME NEW p, NEW c, c.write \in Nat, NEW type \in Alerts
  PROVE  LET x == AsItem(Plain(type, c.write))
         IN  /\ x \in Notes /\ x.type = type
             /\ \A w \in AlertRecord(p, c, type) : w.from = p /\ IsRec(w.rec) /\ AsItem(w.rec) = x
BY PlainFacts, WireFacts DEF AlertRecord

LEMMA DeadFacts ==
  ASSUME NEW c, GoodChan(c)
  PROVE  /\ GoodChan(AfterAlert(c, "Fatal")) /\ Kept(AfterAlert(c, "Fatal")) = {} /\ Hears(AfterAlert(c, "Fatal")) = {}
         /\ \A X : (\A x \in X : x.type = "Fatal") => Die(AfterAlert(c, "Fatal"), X)
         /\ AfterAlert(c, "Fatal").pending = None
<1>1. PICK n : n = None
  OBVIOUS
<1>2. PICK d : d = AfterAlert(c, "Fatal")
  OBVIOUS
<1>3. d = [[c EXCEPT !.active = n, !.pending = n, !.read_keys = <<>>, !.write_keys = <<>>] EXCEPT !.closed = TRUE]
  BY <1>1, <1>2 DEF AfterAlert, Reset
<1>4. IsChan(d) /\ d.active = None /\ d.pending = None /\ d.closed /\ d.read = c.read /\ d.write = c.write
  BY <1>1, <1>3 DEF GoodChan, IsChan
<1> QED
  BY <1>2, <1>4 DEF GoodChan, Kept, Hears, Die

\* What every step is.
Moves == \E p \in Sides : \E X : Step(p, X) /\ Move(p, chan[p], chan'[p], X)
Steady == Typed' /\ AllTimed' /\ Moves

\* The other side's flights are as they were.
LEMMA StaysTimed ==
  ASSUME AllTimed, NEW p \in Sides, chan'[Peer(p)] = chan[Peer(p)], \A k \in working : k.side = p,
         (\A k \in working' : k.side # p) /\ chan'[p].pending # None => Timed(chan'[p].pending.io)
  PROVE  AllTimed'
<1>1. chan[Peer(p)].pending # None => Timed(chan[Peer(p)].pending.io)
  BY PeerFacts DEF AllTimed
<1>2. \A s \in Sides : chan'[s].pending # None /\ (\A k \in working' : k.side # s) => Timed(chan'[s].pending.io)
  BY <1>1, PeerFacts
<1> QED
  BY <1>2 DEF AllTimed

\* A move to a channel that says no more than the old one and X.
LEMMA FineMoves ==
  ASSUME Typed, AllTimed, NEW p \in Sides, \A k \in working : k.side = p,
         NEW d, NEW n, n \subseteq net, NEW ws, NEW X,
         Become(p, d, n, ws), policy' = policy, fresh' \in Nat, fresh' >= fresh,
         Fine(chan[p], d, X), Move(p, chan[p], d, X),
         \A w \in ws : w.from = p /\ IsRec(w.rec) /\ AsItem(w.rec) \in Said(p) \cup X,
         \A k \in working' : k.side = p /\ ~d.closed /\ d.pending # None,
         \A j, k \in working' : j = k,
         (\A k \in working' : k.side # p) /\ d.pending # None => Timed(d.pending.io)
  PROVE  Steady
<1>1. GoodChan(d) /\ Kept(d) \subseteq Kept(chan[p]) \cup X /\ Hears(d) \subseteq Hears(chan[p])
      /\ X \subseteq Items \cup Notes
  BY DEF Fine
<1>2. Kept(chan[p]) \subseteq Said(p) /\ Hears(chan[p]) \subseteq Said(Peer(p))
  BY PeerFacts DEF Said
<1>3. Kept(d) \subseteq Said(p) \cup X /\ Hears(d) \subseteq Said(Peer(p))
  BY <1>1, <1>2
<1>4. Typed' /\ Step(p, X) /\ chan'[p] = d
  BY <1>1, <1>3, Becoming
<1>5. AllTimed'
  BY <1>4, StaysTimed DEF Step
<1> QED
  BY <1>4, <1>5 DEF Steady, Moves

\* An exception leaves from_peer().
LEMMA ThrowMoves ==
  ASSUME Typed, AllTimed, NEW p \in Sides, NEW n, n \subseteq net, Throw(p, n), \A k \in working : k.side = p
  PROVE  Steady
<1> DEFINE c == chan[p]
<1>1. PICK d : d = AfterAlert(c, "Fatal")
  OBVIOUS
<1>2. PICK ws : ws = AlertRecord(p, c, "Fatal")
  OBVIOUS
<1>3. PICK x : x = AsItem(Plain("Fatal", c.write))
  OBVIOUS
<1>4. Become(p, d, n, ws) /\ working' = {} /\ policy' = policy /\ fresh' = fresh
  BY <1>1, <1>2 DEF Throw
<1>5. GoodChan(c) /\ c.write \in Nat /\ fresh \in Nat
  BY DEF Typed, GoodChan
<1>6. x \in Notes /\ x.type = "Fatal" /\ \A w \in ws : w.from = p /\ IsRec(w.rec) /\ AsItem(w.rec) = x
  BY <1>2, <1>3, <1>5, AlertFacts DEF Alerts
<1>7. GoodChan(d) /\ Kept(d) = {} /\ Hears(d) = {} /\ Die(d, {x}) /\ d.pending = None
  BY <1>1, <1>5, <1>6, DeadFacts
<1>8. Fine(c, d, {x}) /\ Move(p, c, d, {x})
  BY <1>6, <1>7 DEF Fine, Move
<1>9. \A w \in ws : w.from = p /\ IsRec(w.rec) /\ AsItem(w.rec) \in Said(p) \cup {x}
  BY <1>6
<1>10. fresh' \in Nat /\ fresh' >= fresh
  BY <1>4, <1>5
<1> QED
  BY <1>4, <1>7, <1>8, <1>9, <1>10, FineMoves

\* A handler that throws sends nothing.
LEMMA ThrowsNothing ==
  ASSUME NEW p \in Sides, chan[p].pending.expecting \subseteq Expected(p), IsChan(chan[p]), IsPending(chan[p].pending),
         NEW m, NEW q, NEW restart, Handle(p, m, q, restart).throws
  PROVE  Handle(p, m, q, restart).recs = {}
<1> DEFINE Silent(o) == o.throws => o.recs = {}
<1>1. /\ \A c, recs : Silent(Outcome(c, recs))
      /\ \A c : Silent(Exception(c)) /\ Silent(Refused(c))
  <2>1. \A c : Exception(c).recs = {}
    BY DEF Exception, Outcome
  <2>2. \A c : ~[Outcome(c, {}) EXCEPT !.alert = {"NoRenegotiation"}].throws
    BY DEF Outcome
  <2> QED
    BY <2>1, <2>2, OutcomeFacts DEF Refused
<1> HIDE DEF Silent
<1>2. PICK taken : taken = [chan[p] EXCEPT !.pending.io = q]
  OBVIOUS
<1>3. PICK c : c = [taken EXCEPT !.pending.expecting = {}]
  OBVIOUS
<1>4. taken.pending.expecting = chan[p].pending.expecting
  BY <1>2 DEF IsChan, IsPending
<1>5. CASE p = "client" /\ m.type = "HelloRequest" /\ taken.active # None
  <2>1. Handle(p, m, q, restart) = HelloRequest(taken, q)
    BY <1>2, <1>5 DEF Handle
  <2>2. Silent(HelloRequest(taken, q))
    BY <1>1 DEF HelloRequest
  <2> QED
    BY <2>1, <2>2 DEF Silent
<1>6. CASE ~(p = "client" /\ m.type = "HelloRequest" /\ taken.active # None) /\ m.type \notin taken.pending.expecting
  <2>1. Handle(p, m, q, restart) = Exception(taken)
    BY <1>2, <1>6 DEF Handle
  <2> QED
    BY <1>1, <2>1 DEF Silent
<1>7. CASE ~(p = "client" /\ m.type = "HelloRequest" /\ taken.active # None) /\ m.type \in taken.pending.expecting
  <2>1. Handle(p, m, q, restart) =
          CASE m.type = "HelloVerifyRequest" -> HelloVerifyRequest(c, q)
            [] m.type = "ServerHello" -> ServerHello(c, m, q)
            [] m.type = "ClientHello" -> ClientHello(c, m, q, restart)
            [] m.type = "ClientKeyExchange" -> ClientKeyExchange(c, m)
            [] m.type = CCS -> ChangeCipherSpec(c)
            [] m.type = "Finished" -> Finished(p, c, m, q)
    BY <1>2, <1>3, <1>7 DEF Handle
  <2>2. m.type \in Expected(p)
    BY <1>4, <1>7
  <2>3. /\ Silent(HelloVerifyRequest(c, q)) /\ Silent(ServerHello(c, m, q)) /\ Silent(ClientKeyExchange(c, m))
        /\ Silent(ChangeCipherSpec(c)) /\ Silent(Finished(p, c, m, q)) /\ Silent(ClientHello(c, m, q, restart))
    <3>1. Silent(HelloVerifyRequest(c, q)) /\ Silent(ClientKeyExchange(c, m)) /\ Silent(ChangeCipherSpec(c))
      BY <1>1, Zenon DEF HelloVerifyRequest, ClientKeyExchange, ChangeCipherSpec
    <3>2. Silent(ServerHello(c, m, q))
      BY <1>1, Zenon DEF ServerHello, SecureRenegotiation
    <3>3. Silent(Finished(p, c, m, q))
      BY <1>1, Zenon DEF Finished
    <3>4. Silent(ClientHello(c, m, q, restart))
      BY <1>1, Zenon DEF ClientHello, SecureRenegotiation
    <3> QED
      BY <3>1, <3>2, <3>3, <3>4
  <2>4. Silent(Handle(p, m, q, restart))
    <3>1. m.type \in {"HelloVerifyRequest", "ServerHello", "ClientHello", "ClientKeyExchange", CCS, "Finished"}
      BY <2>2 DEF Expected
    <3> QED
      BY <2>1, <2>3, <3>1 DEF CCS
  <2> QED
    BY <2>4 DEF Silent
<1> QED
  BY <1>5, <1>6, <1>7

\* Once around the loop of process_handshake_ccs().
LEMMA ProcessMoves ==
  ASSUME Typed, AllTimed, Expecting, NEW k \in working, Process(k)
  PROVE  Steady
<1> DEFINE p == k.side
           c0 == chan[p]
<1>1. p \in Sides /\ (\A j \in working : j = k) /\ ~c0.closed /\ c0.pending # None /\ GoodChan(c0) /\ fresh \in Nat
  BY DEF Typed
<1>2. c0.pending.expecting \subseteq Expected(p) /\ IsChan(c0) /\ IsPending(c0.pending)
  BY <1>1 DEF Expecting, GoodChan, GoodPending
<1> HIDE DEF p
<1>3. PICK m \in NextFor(p) :
        LET q   == AfterNext(ConcludeFlight(chan[p].pending.io), m)
            out == Handle(p, m, q, k.restart)
        IN  IF out.throws
            THEN IF k.absorb
                 THEN /\ chan' = [chan EXCEPT ![p] = out.c]
                      /\ working' = {}
                      /\ UNCHANGED <<policy, net, fresh, calls>>
                 ELSE Throw(p, net)
            ELSE LET after == IF out.alert = {} THEN out.c ELSE AfterAlert(out.c, "NoRenegotiation")
                     ws    == Wire(p, out.c, out.recs) \cup UNION {AlertRecord(p, out.c, a) : a \in out.alert}
                 IN  /\ Become(p, after, net, ws)
                     /\ working' = IF after.pending = None THEN {} ELSE working
                     /\ fresh' = IF \E w \in ws : w.rec.body.num > fresh THEN fresh + 1 ELSE fresh
                     /\ UNCHANGED <<policy, calls>>
  BY DEF Process, p
<1>4. PICK q : q = AfterNext(ConcludeFlight(chan[p].pending.io), m)
  OBVIOUS
<1>5. PICK out : out = Handle(p, m, q, k.restart)
  OBVIOUS
<1>6. IF out.throws
      THEN IF k.absorb
           THEN /\ chan' = [chan EXCEPT ![p] = out.c]
                /\ working' = {}
                /\ UNCHANGED <<policy, net, fresh, calls>>
           ELSE Throw(p, net)
      ELSE LET after == IF out.alert = {} THEN out.c ELSE AfterAlert(out.c, "NoRenegotiation")
               ws    == Wire(p, out.c, out.recs) \cup UNION {AlertRecord(p, out.c, a) : a \in out.alert}
           IN  /\ Become(p, after, net, ws)
               /\ working' = IF after.pending = None THEN {} ELSE working
               /\ fresh' = IF \E w \in ws : w.rec.body.num > fresh THEN fresh + 1 ELSE fresh
               /\ UNCHANGED <<policy, calls>>
  BY <1>3, <1>4, <1>5
<1>7. \A j \in working : j.side = p
  BY <1>1 DEF p
<1>8. (\E r \in out.recs : r.body.num > fresh) => fresh' = fresh + 1
  <2>1. CASE out.throws
    BY <1>1, <1>2, <1>5, <2>1, ThrowsNothing
  <2>2. CASE ~out.throws
    <3>1. fresh' = IF \E w \in (Wire(p, out.c, out.recs) \cup UNION {AlertRecord(p, out.c, a) : a \in out.alert}) :
                          w.rec.body.num > fresh THEN fresh + 1 ELSE fresh
      BY <1>6, <2>2
    <3>2. ASSUME NEW r \in out.recs, r.body.num > fresh
          PROVE  \E w \in (Wire(p, out.c, out.recs) \cup UNION {AlertRecord(p, out.c, a) : a \in out.alert}) :
                          w.rec.body.num > fresh
      <4>1. PICK w \in Wire(p, out.c, out.recs) : w.rec = r
        BY <3>2, WireFacts
      <4> QED
        BY <3>2, <4>1
    <3> QED
      BY <3>1, <3>2
  <2> QED
    BY <2>1, <2>2
<1>9. Results(p, c0, out)
  BY <1>1, <1>2, <1>4, <1>5, <1>8, DoHandle
<1>10. CASE Threw(p, c0, out)
  <2>1. out.throws /\ Fine(c0, out.c, {}) /\ Timed(out.c.pending.io) /\ Stick(p, c0, out.c, {})
    BY <1>10 DEF Threw
  <2>2. CASE ~k.absorb
    <3>1. Throw(p, net)
      BY <1>6, <2>1, <2>2
    <3> QED
      BY <1>1, <1>7, <3>1, ThrowMoves
  <2>3. CASE k.absorb
    <3>1. Become(p, out.c, net, {}) /\ working' = {} /\ policy' = policy /\ fresh' = fresh
      BY <1>6, <2>1, <2>3 DEF Become, PutInto
    <3>2. Move(p, c0, out.c, {})
      BY <2>1 DEF Move
    <3>3. fresh' \in Nat /\ fresh' >= fresh
      BY <1>1, <3>1
    <3>4. /\ \A w \in {} : w.from = p /\ IsRec(w.rec) /\ AsItem(w.rec) \in Said(p) \cup {}
          /\ \A j \in working' : j.side = p /\ ~out.c.closed /\ out.c.pending # None
          /\ \A i, j \in working' : i = j
          /\ net \subseteq net
      BY <3>1
    <3> QED
      BY <1>1, <1>7, <2>1, <3>1, <3>2, <3>3, <3>4, FineMoves
  <2> QED
    BY <2>2, <2>3
<1>11. CASE Warned(p, c0, out)
  <2>1. /\ ~out.throws /\ out.alert = {"NoRenegotiation"} /\ out.recs = {} /\ GoodChan(out.c)
        /\ out.c.active # None
        /\ \A X : (\A x \in X : x.type = "NoRenegotiation") /\ X \subseteq Notes =>
             Fine(c0, [out.c EXCEPT !.pending = None], X) /\ Drop(p, c0, [out.c EXCEPT !.pending = None], X)
    BY <1>11 DEF Warned
  <2>2. PICK d : d = [out.c EXCEPT !.pending = None]
    OBVIOUS
  <2>3. d.pending = None /\ AfterAlert(out.c, "NoRenegotiation") = d
    <3>1. d.pending = None
      BY <2>1, <2>2 DEF GoodChan, IsChan
    <3>2. AfterAlert(out.c, "NoRenegotiation") = d
      BY <2>1, <2>2 DEF AfterAlert
    <3> QED
      BY <3>1, <3>2
  <2>4. PICK ws : ws = Wire(p, out.c, out.recs) \cup UNION {AlertRecord(p, out.c, a) : a \in out.alert}
    OBVIOUS
  <2>5. /\ Become(p, d, net, ws) /\ working' = {} /\ policy' = policy
        /\ fresh' = IF \E w \in ws : w.rec.body.num > fresh THEN fresh + 1 ELSE fresh
    BY <1>6, <2>1, <2>3, <2>4
  <2>6. PICK x : x = AsItem(Plain("NoRenegotiation", out.c.write))
    OBVIOUS
  <2>7. x \in Notes /\ x.type = "NoRenegotiation"
        /\ \A w \in AlertRecord(p, out.c, "NoRenegotiation") : w.from = p /\ IsRec(w.rec) /\ AsItem(w.rec) = x
    <3>1. out.c.write \in Nat /\ "NoRenegotiation" \in Alerts
      BY <2>1 DEF GoodChan, Alerts
    <3> QED
      BY <2>6, <3>1, AlertFacts
  <2>8. \A w \in ws : w.from = p /\ IsRec(w.rec) /\ AsItem(w.rec) \in Said(p) \cup {x}
    <3>1. Wire(p, out.c, {}) = {}
      BY DEF Wire
    <3>2. ws = AlertRecord(p, out.c, "NoRenegotiation")
      BY <2>1, <2>4, <3>1
    <3> QED
      BY <2>7, <3>2
  <2>9. Fine(c0, d, {x}) /\ Move(p, c0, d, {x})
    <3>1. Fine(c0, d, {x}) /\ Drop(p, c0, d, {x})
      BY <2>1, <2>2, <2>7
    <3> QED
      BY <3>1 DEF Move
  <2>10. fresh' \in Nat /\ fresh' >= fresh
    BY <1>1, <2>5
  <2> QED
    BY <1>1, <1>7, <2>3, <2>5, <2>8, <2>9, <2>10, FineMoves
<1>12. ASSUME NEW X, Did(p, c0, out, X) PROVE Steady
  <2>1. /\ ~out.throws /\ out.alert = {} /\ Fine(c0, out.c, X) /\ Move(p, c0, out.c, X)
        /\ (out.c.closed <=> c0.closed)
        /\ \A r \in out.recs : IsRec(r) /\ AsItem(r) \in X
    BY <1>12 DEF Did
  <2>2. PICK ws : ws = Wire(p, out.c, out.recs) \cup UNION {AlertRecord(p, out.c, a) : a \in out.alert}
    OBVIOUS
  <2>3. ws = Wire(p, out.c, out.recs)
    BY <2>1, <2>2
  <2>4. /\ Become(p, out.c, net, ws) /\ policy' = policy
        /\ working' = (IF out.c.pending = None THEN {} ELSE working)
        /\ fresh' = IF \E w \in ws : w.rec.body.num > fresh THEN fresh + 1 ELSE fresh
    BY <1>6, <2>1, <2>2
  <2>5. \A w \in ws : w.from = p /\ IsRec(w.rec) /\ AsItem(w.rec) \in Said(p) \cup X
    BY <2>1, <2>3, WireFacts
  <2>6. fresh' \in Nat /\ fresh' >= fresh
    BY <1>1, <2>4
  <2>7. \A j \in working' : j.side = p /\ ~out.c.closed /\ out.c.pending # None
    BY <1>1, <1>7, <2>1, <2>4
  <2>8. \A i, j \in working' : i = j
    BY <1>1, <2>4
  <2>9. (\A j \in working' : j.side # p) => out.c.pending = None
    BY <1>7, <2>4
  <2> QED
    BY <1>1, <1>7, <2>1, <2>4, <2>5, <2>6, <2>7, <2>8, <2>9, FineMoves
<1> QED
  BY <1>9, <1>10, <1>11, <1>12 DEF Results

\* Only the handshake IO of the pending handshake changes.
LEMMA PendingIO ==
  ASSUME NEW c, GoodChan(c), c.pending # None, NEW i, GoodIO(i), ~i.finished,
         Sent(i) \subseteq Sent(c.pending.io), NEW d, Taken(c, i, d, c.pending.expecting)
  PROVE  /\ GoodChan(d) /\ d.pending # None /\ d.pending.io = i /\ d.closed = c.closed
         /\ Kept(d) \subseteq Kept(c) /\ Hears(d) = Heard(i) /\ Keep(c, d, {})
<1>1. GoodPending(d.pending) /\ d.pending # None
  BY NotNone DEF Taken, GoodChan, GoodPending, SameHello
<1>2. GoodChan(d)
  BY <1>1 DEF GoodChan, SameKeys, Taken
<1>3. Keep(c, d, {})
  BY <1>1 DEF Keep, SameActive, Taken
<1>4. Kept(d) \subseteq Kept(c) /\ Hears(d) = Heard(i)
  BY <1>1 DEF Kept, Hears, Taken
<1> QED
  BY <1>1, <1>2, <1>3, <1>4 DEF Taken

\* No full message: the call returns, with the flight concluded.
LEMMA ReturnMoves ==
  ASSUME Typed, AllTimed, NEW k \in working, Return(k)
  PROVE  Steady
<1> DEFINE p == k.side
           c == chan[p]
<1>1. p \in Sides /\ (\A j \in working : j = k) /\ c.pending # None /\ GoodChan(c) /\ fresh \in Nat
      /\ chan = [s \in Sides |-> chan[s]]
  BY DEF Typed
<1>2. GoodIO(c.pending.io) /\ ~c.pending.io.finished /\ IsChan(c) /\ IsPending(c.pending)
  BY <1>1 DEF GoodChan, GoodPending
<1>3. PICK i : /\ i = ConcludeFlight(c.pending.io) /\ GoodIO(i) /\ ~i.finished /\ Timed(i)
               /\ Sent(i) = Sent(c.pending.io) /\ Heard(i) = Heard(c.pending.io)
  BY <1>2, ConcludeFacts
<1>4. PICK d : chan' = [chan EXCEPT ![p] = d] /\ Taken(c, i, d, c.pending.expecting)
  <2>1. PICK y : y = [c.pending EXCEPT !.io = i]
    OBVIOUS
  <2>2. PICK d : d = [c EXCEPT !.pending = y]
    OBVIOUS
  <2>3. chan' = [chan EXCEPT ![p] = d]
    <3>1. chan' = [chan EXCEPT ![p].pending.io = i]
      BY <1>1, <1>2, <1>3 DEF Return, IsChan, IsPending
    <3>2. [chan EXCEPT ![p].pending.io = i] = [chan EXCEPT ![p] = d]
      BY <1>1, <1>2, <2>1, <2>2 DEF IsChan, IsPending
    <3> QED
      BY <3>1, <3>2
  <2>4. IsPending(y) /\ y.io = i /\ y.expecting = c.pending.expecting /\ SameHello(c.pending, y) /\ y.hash = c.pending.hash
    BY <1>2, <2>1 DEF IsPending, SameHello
  <2>5. IsChan(d) /\ d.active = c.active /\ d.closed = c.closed /\ SameKeys(c, d) /\ d.pending = y
    BY <1>2, <2>2 DEF IsChan, SameKeys
  <2>6. Taken(c, i, d, c.pending.expecting)
    BY <2>4, <2>5 DEF Taken
  <2> QED
    BY <2>3, <2>6
<1>5. /\ GoodChan(d) /\ d.pending # None /\ d.pending.io = i /\ d.closed = c.closed
      /\ Kept(d) \subseteq Kept(c) /\ Hears(d) = Heard(i) /\ Keep(c, d, {})
  <2>1. Sent(i) \subseteq Sent(c.pending.io)
    BY <1>3
  <2> QED
    BY <1>1, <1>3, <1>4, <2>1, PendingIO
<1>6. working' = {} /\ policy' = policy /\ fresh' = fresh /\ net' = net
  BY DEF Return
<1>7. Become(p, d, net, {})
  BY <1>4, <1>6 DEF Become, PutInto
<1>8. Fine(c, d, {}) /\ Move(p, c, d, {})
  BY <1>1, <1>3, <1>5 DEF Fine, Move, Hears
<1>9. fresh' \in Nat /\ fresh' >= fresh
  BY <1>1, <1>6
<1>10. \A j \in working : j.side = p
  BY <1>1
<1>11. /\ \A w \in {} : w.from = p /\ IsRec(w.rec) /\ AsItem(w.rec) \in Said(p) \cup {}
       /\ \A j \in working' : j.side = p /\ ~d.closed /\ d.pending # None
       /\ \A j, h \in working' : j = h
       /\ net \subseteq net
  BY <1>6
<1> HIDE DEF p
<1> QED
  BY <1>1, <1>3, <1>5, <1>6, <1>7, <1>8, <1>9, <1>10, <1>11, FineMoves

-----------------------------------------------------------------------------
(* from_peer().                                                            *)

LEMMA IgnoreMoves ==
  ASSUME Typed, AllTimed, NEW p \in Sides, NEW n, n \subseteq net, Ignore(n)
  PROVE  Steady
<1>1. net' = n /\ UNCHANGED <<policy, chan, working, fresh>>
  BY DEF Ignore
<1>2. Typed' /\ Step(p, {}) /\ Keep(chan[p], chan'[p], {})
  BY <1>1, Ignoring
<1>3. AllTimed'
  BY <1>1 DEF AllTimed
<1> QED
  BY <1>2, <1>3 DEF Steady, Moves, Move

\* Without a record being processed, and none after.
LEMMA IdleMoves ==
  ASSUME Typed, AllTimed, NEW p \in Sides, working = {}, working' = {},
         NEW d, NEW n, n \subseteq net, NEW ws, NEW X,
         Become(p, d, n, ws), policy' = policy, fresh' \in Nat, fresh' >= fresh,
         Fine(chan[p], d, X), Move(p, chan[p], d, X),
         \A w \in ws : w.from = p /\ IsRec(w.rec) /\ AsItem(w.rec) \in Said(p) \cup X,
         d.pending # None => Timed(d.pending.io)
  PROVE  Steady
<1>1. /\ \A k \in working : k.side = p
      /\ \A k \in working' : k.side = p /\ ~d.closed /\ d.pending # None
      /\ \A j, k \in working' : j = k
  OBVIOUS
<1> QED
  BY <1>1, FineMoves

\* A channel that differs in its closure, and in nothing else.
LEMMA ClosedFacts ==
  ASSUME NEW c, GoodChan(c), NEW d, NEW b, d = [c EXCEPT !.closed = b]
  PROVE  /\ IsChan(d) /\ d.active = c.active /\ d.pending = c.pending /\ d.closed = b /\ SameKeys(c, d)
         /\ GoodChan(d) /\ Kept(d) = Kept(c) /\ Hears(d) = Hears(c)
<1>1. IsChan(d) /\ d.active = c.active /\ d.pending = c.pending /\ d.closed = b /\ SameKeys(c, d)
  BY DEF GoodChan, IsChan, SameKeys
<1> QED
  BY <1>1 DEF GoodChan, SameKeys, Kept, Hears

\* A channel whose pending handshake has been dropped.
LEMMA DroppedFacts ==
  ASSUME NEW c, GoodChan(c), NEW d, d = [c EXCEPT !.pending = None]
  PROVE  /\ IsChan(d) /\ d.active = c.active /\ d.pending = None /\ d.closed = c.closed /\ SameKeys(c, d)
         /\ GoodChan(d) /\ Kept(d) \subseteq Kept(c) /\ Hears(d) = {}
<1>1. PICK n : n = None
  OBVIOUS
<1>2. IsChan(d) /\ d.active = c.active /\ d.pending = n /\ d.closed = c.closed /\ SameKeys(c, d)
  BY <1>1 DEF GoodChan, IsChan, SameKeys
<1> QED
  BY <1>1, <1>2 DEF GoodChan, SameKeys, Kept, Hears

\* Nothing but closure.
LEMMA ClosedMoves ==
  ASSUME NEW c, GoodChan(c), NEW d, NEW b, d = [c EXCEPT !.closed = b], c.closed => b, NEW X, X \subseteq Notes,
         \A x \in X : x.type \in {"CloseNotify", "Fatal"}
  PROVE  Fine(c, d, X) /\ Keep(c, d, X) /\ d.pending = c.pending
<1>1. /\ d.active = c.active /\ d.pending = c.pending /\ d.closed = b /\ SameKeys(c, d)
      /\ GoodChan(d) /\ Kept(d) = Kept(c) /\ Hears(d) = Hears(c)
  BY ClosedFacts
<1>2. Fine(c, d, X)
  BY <1>1 DEF Fine
<1>3. Keep(c, d, X)
  BY <1>1 DEF Keep, SameActive, SameHello
<1> QED
  BY <1>1, <1>2, <1>3

\* process_alert()
LEMMA AlertMoves ==
  ASSUME Typed, AllTimed, NEW p \in Sides, working = {}, NEW n, n \subseteq net,
         NEW r, r.type \in Alerts, AsItem(r) \in Said(Peer(p)), ProcessAlert(p, chan[p], r, n)
  PROVE  Steady
<1> DEFINE c == chan[p]
<1>1. GoodChan(c) /\ c.write \in Nat /\ fresh \in Nat /\ (c.pending # None => Timed(c.pending.io))
  BY DEF Typed, GoodChan, AllTimed
<1>2. PICK seen : seen = IF r.type = "NoRenegotiation" /\ c.active # None THEN [c EXCEPT !.pending = None] ELSE c
  OBVIOUS
<1>3. PICK ws : ws = IF r.type = "CloseNotify" THEN AlertRecord(p, c, "CloseNotify") ELSE {}
  OBVIOUS
<1>4. PICK b : b = (seen.closed \/ r.type # "NoRenegotiation")
  OBVIOUS
<1>5. PICK d : d = [seen EXCEPT !.closed = b]
  OBVIOUS
<1>6. Become(p, d, n, ws) /\ policy' = policy /\ fresh' = fresh /\ working' = {}
  BY <1>2, <1>3, <1>4, <1>5 DEF ProcessAlert
<1>7. fresh' \in Nat /\ fresh' >= fresh
  BY <1>1, <1>6
<1>8. CASE r.type = "NoRenegotiation" /\ c.active # None
  <2>1. seen = [c EXCEPT !.pending = None]
    BY <1>2, <1>8
  <2>2. /\ seen.active = c.active /\ seen.pending = None /\ seen.closed = c.closed /\ SameKeys(c, seen)
        /\ GoodChan(seen) /\ Kept(seen) \subseteq Kept(c) /\ Hears(seen) = {}
    BY <1>1, <2>1, DroppedFacts
  <2>3. /\ d.active = seen.active /\ d.pending = seen.pending /\ d.closed = b /\ SameKeys(seen, d)
        /\ GoodChan(d) /\ Kept(d) = Kept(seen) /\ Hears(d) = Hears(seen)
    BY <1>5, <2>2, ClosedFacts
  <2>4. ws = {}
    BY <1>3, <1>8
  <2>5. d.closed <=> c.closed
    BY <1>4, <1>8, <2>2, <2>3
  <2>6. SameChan(c, d)
    BY <2>2, <2>3, <2>5 DEF SameChan, SameActive, SameKeys
  <2>7. AsItem(r).type = "NoRenegotiation"
    BY <1>8 DEF AsItem
  <2>8. Drop(p, c, d, {})
    BY <1>8, <2>2, <2>3, <2>6, <2>7 DEF Drop
  <2>9. Fine(c, d, {}) /\ Move(p, c, d, {})
    BY <2>2, <2>3, <2>8 DEF Fine, Move
  <2>10. \A w \in ws : w.from = p /\ IsRec(w.rec) /\ AsItem(w.rec) \in Said(p) \cup {}
    BY <2>4
  <2> QED
    BY <1>6, <1>7, <2>2, <2>3, <2>9, <2>10, IdleMoves
<1>9. CASE ~(r.type = "NoRenegotiation" /\ c.active # None)
  <2>1. seen = c
    BY <1>2, <1>9
  <2>2. PICK x : x = AsItem(Plain("CloseNotify", c.write))
    OBVIOUS
  <2>3. x \in Notes /\ x.type = "CloseNotify"
        /\ \A w \in AlertRecord(p, c, "CloseNotify") : w.from = p /\ IsRec(w.rec) /\ AsItem(w.rec) = x
    <3>1. "CloseNotify" \in Alerts
      BY DEF Alerts
    <3> QED
      BY <1>1, <2>2, <3>1, AlertFacts
  <2>4. \A w \in ws : w.from = p /\ IsRec(w.rec) /\ AsItem(w.rec) \in Said(p) \cup {x}
    BY <1>3, <2>3
  <2>5. Fine(c, d, {x}) /\ Keep(c, d, {x}) /\ d.pending = c.pending
    <3>1. c.closed => b
      BY <1>4, <2>1
    <3>2. d = [c EXCEPT !.closed = b]
      BY <1>5, <2>1
    <3>3. {x} \subseteq Notes /\ \A z \in {x} : z.type \in {"CloseNotify", "Fatal"}
      BY <2>3
    <3> HIDE DEF c
    <3> QED
      BY <1>1, <3>1, <3>2, <3>3, ClosedMoves
  <2>6. Move(p, c, d, {x})
    BY <2>5 DEF Move
  <2> QED
    BY <1>1, <1>6, <1>7, <2>4, <2>5, <2>6, IdleMoves
<1> QED
  BY <1>8, <1>9

\* create_handshake_state()
LEMMA NewPendingFacts ==
  ASSUME NEW p, NEW c, c.read \in Nat, c.write \in Nat
  PROVE  LET y == NewPending(p, c)
         IN  /\ GoodPending(y) /\ y.io = NewIO /\ y.expecting = (IF p = "server" THEN {"ClientHello"} ELSE {})
             /\ y.hash = <<>> /\ y.hello = NoBody /\ y.id = NoId /\ y.before = <<c.read, c.write>>
<1>1. PICK e : e = IF p = "server" THEN {"ClientHello"} ELSE {}
  OBVIOUS
<1>2. PICK i : i = NewIO /\ GoodIO(i) /\ ~i.finished
  BY NewIOFacts
<1>3. PICK h : h = NoBody /\ h \in Bodies
  BY BodyFacts
<1>4. PICK id : id = NoId /\ id \in Pairs
  <2>1. NoId \in Pairs
    BY DEF NoId, Pairs
  <2> QED
    BY <2>1
<1>5. PICK b : b = <<c.read, c.write>> /\ b \in Pairs
  <2>1. <<c.read, c.write>> \in Pairs
    BY DEF Pairs
  <2> QED
    BY <2>1
<1>6. PICK t : t = <<>> /\ t \in Transcripts
  BY TranscriptFacts
<1>7. PICK y : y = NewPending(p, c)
  OBVIOUS
<1>8. y = [io |-> i, expecting |-> e, hash |-> t, hello |-> h, id |-> id, before |-> b]
  BY <1>1, <1>2, <1>3, <1>4, <1>5, <1>6, <1>7 DEF NewPending
<1>9. /\ y.io = i /\ y.expecting = e /\ y.hash = t /\ y.hello = h /\ y.id = id /\ y.before = b
      /\ IsPending(y)
  <2>1. y.io = i /\ y.expecting = e /\ y.hash = t /\ y.hello = h /\ y.id = id /\ y.before = b
    BY <1>8
  <2> QED
    BY <1>8, <2>1 DEF IsPending
<1>10. GoodPending(y)
  <2>1. GoodIO(y.io) /\ ~y.io.finished
    BY <1>2, <1>9
  <2> QED
    BY <1>3, <1>4, <1>5, <1>6, <1>9, <2>1 DEF GoodPending
<1> QED
  BY <1>1, <1>2, <1>3, <1>4, <1>5, <1>6, <1>7, <1>9, <1>10

\* What p sends again it has said.
LEMMA ReplayFacts ==
  ASSUME NEW p, NEW c, NEW io, GoodIO(io), Sent(io) \subseteq Said(p), NEW w \in Wire(p, c, Records(LastFlight(io)))
  PROVE  w.from = p /\ IsRec(w.rec) /\ AsItem(w.rec) \in Said(p) \cup {}
<1>1. w.from = p /\ w.rec \in Records(LastFlight(io))
  BY WireFacts
<1> QED
  BY <1>1, LastFlightFacts

\* process_retransmitted_record()
LEMMA RetransmittedMoves ==
  ASSUME Typed, AllTimed, NEW p \in Sides, working = {}, NEW n, n \subseteq net, chan[p].active # None,
         NEW r, IsRec(r), AsItem(r) \in Items, Retransmitted(p, chan[p], r, n)
  PROVE  Steady
<1> DEFINE c == chan[p]
<1>1. /\ GoodChan(c) /\ fresh \in Nat /\ (c.pending # None => Timed(c.pending.io))
      /\ IsActive(c.active) /\ GoodIO(c.active.io) /\ c.active.id \in Pairs
  BY DEF Typed, GoodChan, AllTimed
<1>2. PICK io : io = c.active.io
  OBVIOUS
<1>3. PICK again : again = TRUE
  OBVIOUS
<1>4. PICK i : /\ i = AddRecord(io, r, again).io /\ GoodIO(i) /\ Sent(i) = Sent(io)
  BY <1>1, <1>2, AddRecordFacts
<1>5. PICK ws : ws = IF AddRecord(io, r, TRUE).replay /\ Replays(io) THEN Wire(p, c, Records(LastFlight(io))) ELSE {}
  OBVIOUS
<1>6. PICK a : a = [c.active EXCEPT !.io = i]
  OBVIOUS
<1>7. PICK d : d = [c EXCEPT !.active = a]
  OBVIOUS
<1>8. CASE AddRecordThrows(io, r, TRUE)
  <2>1. Ignore(n) \/ Throw(p, n)
    BY <1>2, <1>8 DEF Retransmitted
  <2>2. \A k \in working : k.side = p
    OBVIOUS
  <2> QED
    BY <2>1, <2>2, IgnoreMoves, ThrowMoves
<1>9. CASE ~AddRecordThrows(io, r, TRUE)
  <2>1. Become(p, d, n, ws) /\ policy' = policy /\ working' = {} /\ fresh' = fresh
    <3>1. /\ Become(p, [c EXCEPT !.active.io = AddRecord(io, r, TRUE).io], n, ws)
          /\ UNCHANGED <<policy, working, fresh, calls>>
      BY <1>2, <1>5, <1>9 DEF Retransmitted
    <3>2. AddRecord(io, r, TRUE).io = i
      BY <1>3, <1>4, Zenon
    <3>3. [c EXCEPT !.active.io = i] = d
      BY <1>1, <1>6, <1>7 DEF GoodChan, IsChan, IsActive
    <3> QED
      BY <3>1, <3>2, <3>3
  <2>2. IsActive(a) /\ a.id = c.active.id /\ a.io = i /\ a # None
    BY <1>1, <1>6, NotNone DEF IsActive
  <2>3. IsChan(d) /\ d.active = a /\ d.pending = c.pending /\ d.closed = c.closed /\ SameKeys(c, d)
    BY <1>1, <1>7 DEF GoodChan, IsChan, SameKeys
  <2>4. GoodChan(d)
    BY <1>1, <1>4, <2>2, <2>3 DEF GoodChan, SameKeys
  <2>5. Kept(d) = Kept(c) /\ Hears(d) = Hears(c)
    BY <1>2, <1>4, <2>2, <2>3 DEF Kept, Hears
  <2>6. Fine(c, d, {}) /\ Move(p, c, d, {})
    <3>1. Keep(c, d, {})
      BY <2>2, <2>3 DEF Keep, SameActive, SameHello
    <3> QED
      BY <2>4, <2>5, <3>1 DEF Fine, Move
  <2>7. \A w \in ws : w.from = p /\ IsRec(w.rec) /\ AsItem(w.rec) \in Said(p) \cup {}
    <3>1. Sent(io) \subseteq Said(p)
      BY <1>2 DEF Said, Kept
    <3>2. \A w \in Wire(p, c, Records(LastFlight(io))) : w.from = p /\ IsRec(w.rec) /\ AsItem(w.rec) \in Said(p) \cup {}
      BY <1>1, <1>2, <3>1, ReplayFacts
    <3>3. ws = {} \/ ws = Wire(p, c, Records(LastFlight(io)))
      BY <1>5
    <3> QED
      BY <3>2, <3>3
  <2>8. fresh' \in Nat /\ fresh' >= fresh
    BY <1>1, <2>1
  <2> QED
    BY <1>1, <2>1, <2>3, <2>6, <2>7, <2>8, IdleMoves
<1> QED
  BY <1>8, <1>9

\* process_handshake_ccs() up to the loop.
LEMMA HandshakeMoves ==
  ASSUME Typed, AllTimed, NEW p \in Sides, working = {}, NEW n, n \subseteq net, ~chan[p].closed, NEW restart,
         NEW r, IsRec(r), AsItem(r) \in Items, AsItem(r) \in Said(Peer(p)), ProcessHandshake(p, chan[p], r, n, restart)
  PROVE  Steady
<1> DEFINE c == chan[p]
<1>1. GoodChan(c) /\ fresh \in Nat /\ c.read \in Nat /\ c.write \in Nat /\ (c.pending # None => GoodPending(c.pending))
  BY DEF Typed, GoodChan
<1>2. PICK pend : pend = IF c.pending = None THEN NewPending(p, c) ELSE c.pending
  OBVIOUS
<1>3. \A k \in working : k.side = p
  OBVIOUS
<1>4. PICK again : again = FALSE
  OBVIOUS
<1>5. PICK next : next = AddRecord(pend.io, r, FALSE)
  OBVIOUS
<1>6. PICK ws : ws = IF next.replay THEN Wire(p, c, Records(LastFlight(pend.io))) ELSE {}
  OBVIOUS
<1>7. PICK k : k = [side |-> p, epoch |-> r.epoch, restart |-> restart, absorb |-> Absorbs(c, r.epoch)]
  OBVIOUS
<1>8. \/ c.active # None /\ Retransmitted(p, c, r, n)
      \/ Ignore(n)
      \/ Throw(p, n)
      \/ /\ Become(p, [c EXCEPT !.pending = pend], n, {})
         /\ UNCHANGED <<policy, working, fresh, calls>>
      \/ /\ Become(p, [c EXCEPT !.pending = [pend EXCEPT !.io = next.io]], n, ws)
         /\ working' = {k}
         /\ UNCHANGED <<policy, fresh, calls>>
  BY <1>2, <1>5, <1>6, <1>7, Zenon DEF ProcessHandshake
<1>9. CASE \/ c.active # None /\ Retransmitted(p, c, r, n)
           \/ Ignore(n)
           \/ Throw(p, n)
  BY <1>3, <1>9, RetransmittedMoves, IgnoreMoves, ThrowMoves
<1>10. CASE /\ Become(p, [c EXCEPT !.pending = [pend EXCEPT !.io = next.io]], n, ws)
            /\ working' = {k}
            /\ UNCHANGED <<policy, fresh, calls>>
  <2>1. GoodPending(pend) /\ Sent(pend.io) \subseteq Kept(c) /\ Heard(pend.io) = Hears(c)
    <3>1. CASE c.pending # None
      BY <1>1, <1>2, <3>1 DEF Kept, Hears
    <3>2. CASE c.pending = None
      <4>1. GoodPending(pend) /\ pend.io = NewIO
        BY <1>1, <1>2, <3>2, NewPendingFacts
      <4> QED
        BY <3>2, <4>1, NewIOFacts DEF Hears
    <3> QED
      BY <3>1, <3>2
  <2>2. PICK i : /\ i = next.io /\ GoodIO(i) /\ i.finished = pend.io.finished /\ Sent(i) = Sent(pend.io)
                 /\ Heard(i) \subseteq Heard(pend.io) \cup {AsItem(r)}
    <3>1. PICK s : s = AddRecord(pend.io, r, again).io
      OBVIOUS
    <3>2. GoodIO(s) /\ s.finished = pend.io.finished /\ Sent(s) = Sent(pend.io) /\ Heard(s) \subseteq Heard(pend.io) \cup {AsItem(r)}
      BY <2>1, <3>1, AddRecordFacts DEF GoodPending
    <3>3. s = next.io
      BY <1>4, <1>5, <3>1, Zenon
    <3> QED
      BY <3>2, <3>3
  <2>3. PICK y : y = [pend EXCEPT !.io = i]
    OBVIOUS
  <2>4. PICK d : d = [c EXCEPT !.pending = y]
    OBVIOUS
  <2>5. Become(p, d, n, ws) /\ policy' = policy /\ fresh' = fresh
    BY <1>10, <2>2, <2>3, <2>4
  <2>6. IsPending(y) /\ y.io = i /\ y.expecting = pend.expecting /\ SameHello(pend, y) /\ y.hash = pend.hash
    BY <2>1, <2>3 DEF GoodPending, IsPending, SameHello
  <2>7. GoodPending(y) /\ y # None
    BY <2>1, <2>2, <2>6, NotNone DEF GoodPending, SameHello
  <2>8. IsChan(d) /\ d.active = c.active /\ d.closed = c.closed /\ SameKeys(c, d) /\ d.pending = y
    BY <1>1, <2>4 DEF GoodChan, IsChan, SameKeys
  <2>9. GoodChan(d)
    BY <1>1, <2>7, <2>8 DEF GoodChan, SameKeys
  <2>10. Kept(d) \subseteq Kept(c) /\ Hears(d) \subseteq Hears(c) \cup {AsItem(r)}
    BY <2>1, <2>2, <2>6, <2>7, <2>8 DEF Kept, Hears
  <2>11. Kept(c) \subseteq Said(p) /\ Hears(c) \subseteq Said(Peer(p))
    BY PeerFacts DEF Said
  <2>12. \A w \in ws : w.from = p /\ IsRec(w.rec) /\ AsItem(w.rec) \in Said(p) \cup {}
    <3>1. GoodIO(pend.io) /\ Sent(pend.io) \subseteq Said(p)
      BY <2>1, <2>11 DEF GoodPending
    <3>2. \A w \in Wire(p, c, Records(LastFlight(pend.io))) :
            w.from = p /\ IsRec(w.rec) /\ AsItem(w.rec) \in Said(p) \cup {}
      BY <3>1, ReplayFacts
    <3>3. ws = {} \/ ws = Wire(p, c, Records(LastFlight(pend.io)))
      BY <1>6
    <3> QED
      BY <3>2, <3>3
  <2>13. /\ \A j \in working' : j.side = p /\ ~d.closed /\ d.pending # None
         /\ \A j, h \in working' : j = h
    <3>1. k.side = p
      BY <1>7
    <3> QED
      BY <1>10, <2>7, <2>8, <3>1
  <2>14. Typed' /\ Step(p, {}) /\ chan'[p] = d
    <3>1. Kept(d) \subseteq Said(p) \cup {} /\ Hears(d) \subseteq Said(Peer(p)) /\ {} \subseteq Items \cup Notes
      BY <2>10, <2>11
    <3>2. fresh' \in Nat /\ fresh' >= fresh
      BY <1>1, <2>5
    <3>3. PICK X : X = {}
      OBVIOUS
    <3>4. \A w \in ws : w.from = p /\ IsRec(w.rec) /\ AsItem(w.rec) \in Said(p) \cup X
      BY <2>12, <3>3
    <3>5. Kept(d) \subseteq Said(p) \cup X /\ X \subseteq Items \cup Notes
      BY <3>1, <3>3
    <3>6. Typed' /\ Step(p, X) /\ chan'[p] = d
      BY <2>5, <2>9, <2>13, <3>1, <3>2, <3>4, <3>5, Becoming
    <3> QED
      BY <3>3, <3>6
  <2>15. AllTimed'
    <3>1. \E j \in working' : j.side = p
      BY <1>7, <1>10
    <3>2. chan'[Peer(p)] = chan[Peer(p)]
      BY <2>14 DEF Step
    <3> QED
      BY <1>3, <3>1, <3>2, StaysTimed
  <2>16. Move(p, c, d, {})
    <3>1. CASE c.pending # None
      <4>1. pend = c.pending
        BY <1>2, <3>1
      <4>2. Keep(c, d, {})
        BY <2>6, <2>7, <2>8, <3>1, <4>1 DEF Keep, SameActive
      <4> QED
        BY <4>2 DEF Move
    <3>2. CASE c.pending = None
      <4>1. /\ pend.expecting = (IF p = "server" THEN {"ClientHello"} ELSE {})
            /\ pend.hash = <<>> /\ pend.hello = NoBody /\ pend.id = NoId /\ pend.before = <<c.read, c.write>>
        BY <1>1, <1>2, <3>2, NewPendingFacts
      <4>2. SameChan(c, d)
        BY <2>8 DEF SameChan, SameActive
      <4>3. Begin(p, c, d, {})
        BY <2>6, <2>7, <2>8, <3>2, <4>1, <4>2 DEF Begin, SameHello
      <4> QED
        BY <4>3 DEF Move
    <3> QED
      BY <3>1, <3>2
  <2> QED
    BY <2>14, <2>15, <2>16 DEF Steady, Moves
<1>11. CASE /\ Become(p, [c EXCEPT !.pending = pend], n, {})
            /\ UNCHANGED <<policy, working, fresh, calls>>
  <2>1. PICK d : d = [c EXCEPT !.pending = pend]
    OBVIOUS
  <2>2. IsChan(d) /\ d.active = c.active /\ d.closed = c.closed /\ SameKeys(c, d) /\ d.pending = pend
    BY <1>1, <2>1 DEF GoodChan, IsChan, SameKeys
  <2>3. PICK X : X = {}
    OBVIOUS
  <2>4. /\ Become(p, d, n, X) /\ working' = {} /\ policy' = policy /\ fresh' \in Nat /\ fresh' >= fresh
        /\ \A w \in X : w.from = p /\ IsRec(w.rec) /\ AsItem(w.rec) \in Said(p) \cup X
    BY <1>1, <1>11, <2>1, <2>3
  <2>5. CASE c.pending # None
    <3>1. d.pending = c.pending
      BY <1>2, <2>2, <2>5
    <3>2. Fine(c, d, {})
      BY <1>1, <2>2, <3>1 DEF Fine, GoodChan, SameKeys, Kept, Hears
    <3>3. Keep(c, d, {})
      BY <2>2, <2>5, <3>1 DEF Keep, SameActive, SameHello
    <3>4. Timed(d.pending.io)
      BY <2>5, <3>1 DEF AllTimed
    <3> QED
      BY <2>3, <2>4, <3>2, <3>3, <3>4, IdleMoves DEF Move
  <2>6. CASE c.pending = None
    <3>1. /\ GoodPending(pend) /\ pend.io = NewIO /\ pend.expecting = (IF p = "server" THEN {"ClientHello"} ELSE {})
          /\ pend.hash = <<>> /\ pend.hello = NoBody /\ pend.id = NoId /\ pend.before = <<c.read, c.write>>
      BY <1>1, <1>2, <2>6, NewPendingFacts
    <3>2. pend # None
      BY <3>1, NotNone DEF GoodPending
    <3>3. Fine(c, d, {})
      BY <1>1, <2>2, <3>1, NewIOFacts DEF Fine, GoodChan, SameKeys, Kept, Hears
    <3>4. Begin(p, c, d, {})
      BY <2>2, <2>6, <3>1, <3>2 DEF Begin, SameChan, SameActive
    <3>5. Timed(d.pending.io)
      BY <2>2, <3>1, NewIOFacts
    <3> QED
      BY <2>3, <2>4, <3>3, <3>4, <3>5, IdleMoves DEF Move
  <2> QED
    BY <2>5, <2>6
<1> QED
  BY <1>8, <1>9, <1>10, <1>11

\* from_peer() of one record.
LEMMA FromPeerMoves ==
  ASSUME Typed, AllTimed, NEW w \in net, FromPeer(w)
  PROVE  Steady
<1> DEFINE p == Peer(w.from)
           c == chan[p]
           r == w.rec
           restart == policy.restart /\ p = "server" /\ r.epoch = 0 /\ c.active # None
<1>1. p \in Sides /\ w.from = Peer(p) /\ IsRec(r) /\ AsItem(r) \in Items \cup Notes
  BY PeerFacts DEF Typed
<1>2. AsItem(r) \in Said(Peer(p))
  BY <1>1 DEF Said
<1>3. PICK n \in Rest(w) :
        \/ Ignore(n)
        \/ r.type \in Alerts /\ ProcessAlert(p, c, r, n)
        \/ ProcessData(p, c, r, n)
        \/ Throw(p, n)
        \/ /\ r.type \notin Alerts /\ r.type # "ApplicationData" /\ ~c.closed
           /\ ProcessHandshake(p, c, r, n, restart)
  BY Zenon DEF FromPeer
<1>4. working = {} /\ n \subseteq net
  BY <1>3 DEF FromPeer, Rest
<1>5. \A k \in working : k.side = p
  BY <1>4
<1> HIDE DEF p, restart
<1>6. CASE Ignore(n) \/ Throw(p, n) \/ ProcessData(p, c, r, n)
  <2>1. Ignore(n) \/ Throw(p, n)
    BY <1>6 DEF ProcessData
  <2> QED
    BY <1>1, <1>4, <1>5, <2>1, IgnoreMoves, ThrowMoves
<1>7. CASE r.type \in Alerts /\ ProcessAlert(p, c, r, n)
  BY <1>1, <1>2, <1>4, <1>7, AlertMoves
<1>8. CASE /\ r.type \notin Alerts /\ r.type # "ApplicationData" /\ ~c.closed
           /\ ProcessHandshake(p, c, r, n, restart)
  <2>1. AsItem(r) \in Items
    <3>1. AsItem(r).type = r.type
      BY DEF AsItem
    <3> QED
      BY <1>1, <1>8, <3>1, ItemsAre
  <2>2. PICK b : b = restart
    OBVIOUS
  <2>3. ProcessHandshake(p, c, r, n, b)
    BY <1>8, <2>2, Zenon
  <2> QED
    BY <1>1, <1>2, <1>4, <1>8, <2>1, <2>3, HandshakeMoves
<1> QED
  BY <1>3, <1>6, <1>7, <1>8

-----------------------------------------------------------------------------
(* What the applications do, and timeouts.                                 *)

\* Handshake y is pending where none was.
LEMMA Opened ==
  ASSUME NEW c, GoodChan(c), c.pending = None, NEW y, GoodPending(y), NEW X, X \subseteq Items,
         Sent(y.io) \subseteq X, Heard(y.io) = {}, NEW d, d = [c EXCEPT !.pending = y]
  PROVE  Fine(c, d, X) /\ SameChan(c, d) /\ d.pending = y /\ y # None
<1>1. IsChan(d) /\ d.active = c.active /\ d.closed = c.closed /\ SameKeys(c, d) /\ d.pending = y
  BY DEF GoodChan, IsChan, SameKeys
<1>2. y # None
  BY NotNone DEF GoodPending
<1>3. GoodChan(d)
  BY <1>1 DEF GoodChan, SameKeys
<1>4. Kept(d) \subseteq Kept(c) \cup X /\ Hears(d) = {}
  BY <1>1, <1>2 DEF Kept, Hears
<1>5. SameChan(c, d)
  BY <1>1 DEF SameChan, SameActive
<1> QED
  BY <1>1, <1>2, <1>3, <1>4, <1>5 DEF Fine

\* send_client_hello() in a handshake that begins.
LEMMA FirstHello ==
  ASSUME NEW c, c.read \in Nat, c.write \in Nat, ActiveId(c) \in Pairs, fresh \in Nat,
         NEW x, x = NewPending("client", c), NEW s, s = SendHello(c, x, x.io, fresh + 1, FALSE)
  PROVE  \E z \in Items :
           /\ GoodPending(s.pending) /\ s.pending.id = NoId /\ s.pending.before = <<c.read, c.write>>
           /\ HelloSent(s.pending, {z}, fresh + 1)
           /\ Sent(s.pending.io) \subseteq {z} /\ Heard(s.pending.io) = {} /\ Timed(s.pending.io)
           /\ \A r \in s.recs : IsRec(r) /\ AsItem(r) = z
<1>1. GoodPending(x) /\ x.io = NewIO /\ x.id = NoId /\ x.before = <<c.read, c.write>>
  BY NewPendingFacts
<1>2. IsPending(x) /\ x.id \in Pairs /\ x.before \in Pairs /\ GoodIO(x.io) /\ ~x.io.finished
  BY <1>1 DEF GoodPending
<1>3. FALSE \in BOOLEAN /\ fresh + 1 \in Nat
  OBVIOUS
<1>4. PICK z \in Items : HelloMade(s, x, x.io, fresh + 1, z)
  BY <1>2, <1>3, SendHelloFacts, Zenon
<1>5. /\ GoodPending(s.pending) /\ s.pending.id = x.id /\ s.pending.before = x.before
      /\ HelloSent(s.pending, {z}, fresh + 1)
      /\ Sent(s.pending.io) \subseteq Sent(x.io) \cup {z} /\ Heard(s.pending.io) = Heard(x.io)
      /\ Len(s.pending.io.flights) = Len(x.io.flights)
      /\ \A r \in s.recs : IsRec(r) /\ AsItem(r) = z
  BY <1>4 DEF HelloMade
<1>6. Sent(x.io) = {} /\ Heard(x.io) = {} /\ Len(x.io.flights) = 1
  BY <1>1, NewIOFacts
<1> QED
  BY <1>1, <1>5, <1>6 DEF Timed

LEMMA RenegotiateMoves ==
  ASSUME Typed, AllTimed, NEW p \in Sides, Renegotiate(p)
  PROVE  Steady
<1> DEFINE c == chan[p]
<1>1. GoodChan(c) /\ c.read \in Nat /\ c.write \in Nat /\ fresh \in Nat /\ ActiveId(c) \in Pairs
  BY ActiveIdFacts DEF Typed, GoodChan
<1>2. c.pending = None /\ c.active # None /\ working = {} /\ working' = {} /\ policy' = policy
  BY DEF Renegotiate, Call
<1>3. PICK x : x = NewPending(p, c)
  OBVIOUS
<1>4. CASE p = "client"
  <2>1. PICK s : s = SendHello(c, x, x.io, fresh + 1, FALSE)
    OBVIOUS
  <2>2. PICK d : d = [c EXCEPT !.pending = s.pending]
    OBVIOUS
  <2>3. fresh' = fresh + 1 /\ Become(p, d, net, Wire(p, c, s.recs))
    BY <1>3, <1>4, <2>1, <2>2 DEF Renegotiate
  <2>4. PICK z \in Items :
           /\ GoodPending(s.pending) /\ s.pending.id = NoId /\ s.pending.before = <<c.read, c.write>>
           /\ HelloSent(s.pending, {z}, fresh + 1)
           /\ Sent(s.pending.io) \subseteq {z} /\ Heard(s.pending.io) = {} /\ Timed(s.pending.io)
           /\ \A r \in s.recs : IsRec(r) /\ AsItem(r) = z
    <3> HIDE DEF c
    <3>1. x = NewPending("client", c)
      BY <1>3, <1>4
    <3> QED
      BY <1>1, <2>1, <3>1, FirstHello, Zenon
  <2>5. Fine(c, d, {z}) /\ SameChan(c, d) /\ d.pending = s.pending /\ s.pending # None
    <3>1. {z} \subseteq Items
      BY <2>4
    <3> HIDE DEF c
    <3> QED
      BY <1>1, <1>2, <2>2, <2>4, <3>1, Opened
  <2>6. Greet(p, c, d, {z})
    BY <1>2, <1>4, <2>3, <2>4, <2>5 DEF Greet
  <2>7. Move(p, c, d, {z})
    BY <2>6 DEF Move
  <2>8. \A w \in Wire(p, c, s.recs) : w.from = p /\ IsRec(w.rec) /\ AsItem(w.rec) \in Said(p) \cup {z}
    BY <2>4, WireFacts
  <2>9. fresh' \in Nat /\ fresh' >= fresh /\ net \subseteq net
    BY <1>1, <2>3
  <2> QED
    BY <1>2, <2>3, <2>4, <2>5, <2>7, <2>8, <2>9, IdleMoves
<1>5. CASE p = "server"
  <2>1. PICK z \in Items : z = Item("HelloRequest", 0, c.write, NoBody) /\ z.type = "HelloRequest"
    <3>1. 0 \in Int /\ NoBody \in Bodies /\ "HelloRequest" \in MsgTypes
      BY BodyFacts DEF MsgTypes
    <3> QED
      BY <1>1, <3>1, ItemFacts
  <2>2. /\ GoodPending(x) /\ x.io = NewIO /\ x.expecting = {"ClientHello"}
        /\ x.hash = <<>> /\ x.hello = NoBody /\ x.id = NoId /\ x.before = <<c.read, c.write>>
    BY <1>1, <1>3, <1>5, NewPendingFacts
  <2>3. PICK items : items = <<z>> /\ items \in Seq(Items) /\ {items[j] : j \in DOMAIN items} = {z}
    <3>1. <<z>> \in Seq(Items) /\ {<<z>>[j] : j \in DOMAIN <<z>>} = {z}
      BY <2>1
    <3> QED
      BY <3>1
  <2>4. PICK i : /\ i = Send(x.io, items) /\ GoodIO(i) /\ i.finished = x.io.finished /\ Sent(i) \subseteq {z}
                 /\ Heard(i) = {} /\ Len(i.flights) = 1
    <3>1. GoodIO(x.io) /\ Sent(x.io) = {} /\ Heard(x.io) = {} /\ Len(x.io.flights) = 1
      BY <2>2, NewIOFacts
    <3> QED
      BY <2>3, <3>1, SendFacts
  <2>5. PICK y : y = [x EXCEPT !.io = i]
    OBVIOUS
  <2>6. IsPending(y) /\ y.io = i /\ y.expecting = x.expecting /\ SameHello(x, y) /\ y.hash = x.hash
    BY <2>2, <2>5 DEF GoodPending, IsPending, SameHello
  <2>7. GoodPending(y)
    BY <2>2, <2>4, <2>6 DEF GoodPending, SameHello
  <2>8. PICK d : d = [c EXCEPT !.pending = y]
    OBVIOUS
  <2>9. fresh' = fresh /\ Become(p, d, net, Wire(p, c, Fragments(z)))
    <3>1. /\ Become(p, [c EXCEPT !.pending = [x EXCEPT !.io = Send(x.io, <<z>>)]], net, Wire(p, c, Fragments(z)))
          /\ UNCHANGED fresh
      BY <1>3, <1>5, <2>1 DEF Renegotiate
    <3> QED
      BY <2>3, <2>4, <2>5, <2>8, <3>1
  <2>10. Fine(c, d, {z}) /\ SameChan(c, d) /\ d.pending = y /\ y # None
    <3>1. {z} \subseteq Items /\ Sent(y.io) \subseteq {z} /\ Heard(y.io) = {}
      BY <2>1, <2>4, <2>6
    <3> HIDE DEF c
    <3> QED
      BY <1>1, <1>2, <2>7, <2>8, <3>1, Opened
  <2>11. Move(p, c, d, {z})
    <3>1. Begin(p, c, d, {z})
      BY <1>2, <1>5, <2>1, <2>2, <2>6, <2>10 DEF Begin, SameHello
    <3> QED
      BY <3>1 DEF Move
  <2>12. \A w \in Wire(p, c, Fragments(z)) : w.from = p /\ IsRec(w.rec) /\ AsItem(w.rec) \in Said(p) \cup {z}
    BY <2>1, WireFacts, FragmentsFacts
  <2>13. fresh' \in Nat /\ fresh' >= fresh /\ net \subseteq net
    BY <1>1, <2>9
  <2>14. Timed(d.pending.io)
    BY <2>4, <2>6, <2>10 DEF Timed
  <2> QED
    BY <1>2, <2>9, <2>10, <2>11, <2>12, <2>13, <2>14, IdleMoves
<1> QED
  BY <1>4, <1>5 DEF Sides

LEMMA ToPeerMoves ==
  ASSUME Typed, AllTimed, NEW p \in Sides, ToPeer(p)
  PROVE  Steady
<1> DEFINE c == chan[p]
           ws == Wire(p, c, {Plain("ApplicationData", c.write)})
<1>1. GoodChan(c) /\ c.write \in Nat /\ fresh \in Nat
  BY DEF Typed, GoodChan
<1>2. /\ c.active # None /\ ~c.closed /\ working = {} /\ working' = {} /\ policy' = policy /\ fresh' = fresh
      /\ Become(p, c, net, ws)
  BY DEF ToPeer, Call
<1>3. PICK x : x = AsItem(Plain("ApplicationData", c.write)) /\ x \in Notes /\ x.type = "ApplicationData" /\ x.epoch = c.write
  BY <1>1, PlainFacts
<1>4. \A w \in ws : w.from = p /\ IsRec(w.rec) /\ AsItem(w.rec) \in Said(p) \cup {x}
  BY <1>1, <1>3, WireFacts, PlainFacts
<1>5. Fine(c, c, {x}) /\ Move(p, c, c, {x})
  <2>1. Keep(c, c, {x})
    BY <1>2, <1>3 DEF Keep, SameActive, SameKeys, SameHello
  <2> QED
    BY <1>1, <1>3, <2>1 DEF Fine, Move
<1>6. fresh' \in Nat /\ fresh' >= fresh /\ net \subseteq net /\ (c.pending # None => Timed(c.pending.io))
  BY <1>1, <1>2 DEF AllTimed
<1> HIDE DEF ws
<1> QED
  BY <1>2, <1>4, <1>5, <1>6, IdleMoves

LEMMA CloseMoves ==
  ASSUME Typed, AllTimed, NEW p \in Sides, Close(p)
  PROVE  Steady
<1> DEFINE c == chan[p]
<1>1. GoodChan(c) /\ c.write \in Nat /\ fresh \in Nat
  BY DEF Typed, GoodChan
<1>2. PICK ws : ws = AlertRecord(p, c, "CloseNotify")
  OBVIOUS
<1>3. PICK b : b = TRUE
  OBVIOUS
<1>4. PICK d : d = [c EXCEPT !.closed = b]
  OBVIOUS
<1>5. working = {} /\ working' = {} /\ policy' = policy /\ fresh' = fresh /\ Become(p, d, net, ws)
  <2>1. AfterAlert(c, "CloseNotify") = d
    BY <1>3, <1>4, Zenon DEF AfterAlert
  <2> QED
    BY <1>2, <2>1 DEF Close, Call
<1>6. PICK x : x = AsItem(Plain("CloseNotify", c.write))
  OBVIOUS
<1>7. x \in Notes /\ x.type = "CloseNotify" /\ \A w \in ws : w.from = p /\ IsRec(w.rec) /\ AsItem(w.rec) = x
  <2>1. "CloseNotify" \in Alerts
    BY DEF Alerts
  <2> QED
    BY <1>1, <1>2, <1>6, <2>1, AlertFacts
<1>8. \A w \in ws : w.from = p /\ IsRec(w.rec) /\ AsItem(w.rec) \in Said(p) \cup {x}
  BY <1>7
<1>9. Fine(c, d, {x}) /\ Keep(c, d, {x}) /\ d.pending = c.pending
  <2>1. {x} \subseteq Notes /\ (\A z \in {x} : z.type \in {"CloseNotify", "Fatal"}) /\ (c.closed => b)
    BY <1>3, <1>7
  <2> HIDE DEF c
  <2> QED
    BY <1>1, <1>4, <2>1, ClosedMoves
<1>10. Move(p, c, d, {x})
  BY <1>9 DEF Move
<1>11. fresh' \in Nat /\ fresh' >= fresh /\ net \subseteq net /\ (d.pending # None => Timed(d.pending.io))
  BY <1>1, <1>5, <1>9 DEF AllTimed
<1> QED
  BY <1>5, <1>8, <1>9, <1>10, <1>11, IdleMoves

LEMMA ReconnectMoves ==
  ASSUME Typed, AllTimed, Reconnect
  PROVE  Steady
<1>1. PICK p \in Sides : p = "client"
  BY DEF Sides
<1> DEFINE c0 == chan[p]
<1>2. GoodChan(c0) /\ IsChan(c0) /\ fresh \in Nat
  BY DEF Typed, GoodChan
<1>3. PICK b : b = FALSE
  OBVIOUS
<1>4. PICK a : /\ a = ResetAssociation(c0) /\ IsChan(a) /\ a.active = None /\ a.read = 0 /\ a.write = 0
               /\ a.read_keys = NoKeys /\ a.write_keys = NoKeys
  BY <1>2, ResetFacts
<1>5. PICK c : c = [a EXCEPT !.closed = b]
  OBVIOUS
<1>6. /\ IsChan(c) /\ c.active = None /\ c.closed = b /\ c.read = 0 /\ c.write = 0
      /\ c.read_keys = NoKeys /\ c.write_keys = NoKeys
  BY <1>4, <1>5 DEF IsChan
<1>7. PICK x : x = NewPending("client", c)
  OBVIOUS
<1>8. PICK s : s = SendHello(c, x, x.io, fresh + 1, FALSE)
  OBVIOUS
<1>9. PICK d : d = [c EXCEPT !.pending = s.pending]
  OBVIOUS
<1>10. /\ working = {} /\ working' = {} /\ policy' = policy /\ fresh' = fresh + 1
       /\ Become(p, d, net, Wire(p, c, s.recs))
  <2>1. c = [ResetAssociation(chan["client"]) EXCEPT !.closed = FALSE]
    BY <1>1, <1>3, <1>4, <1>5, Zenon
  <2>2. working = {} /\ working' = {} /\ policy' = policy /\ fresh' = fresh + 1
    BY DEF Reconnect, Call
  <2>3. LET e    == [ResetAssociation(chan["client"]) EXCEPT !.closed = FALSE]
            pend == NewPending("client", e)
            t    == SendHello(e, pend, pend.io, fresh + 1, FALSE)
        IN  Become("client", [e EXCEPT !.pending = t.pending], net, Wire("client", e, t.recs))
    BY DEF Reconnect
  <2>4. Become("client", d, net, Wire("client", c, s.recs))
    BY <1>7, <1>8, <1>9, <2>1, <2>3, Zenon
  <2> QED
    BY <1>1, <2>2, <2>4
<1>11. PICK z \in Items :
         /\ GoodPending(s.pending) /\ s.pending.id = NoId
         /\ HelloSent(s.pending, {z}, fresh + 1)
         /\ Sent(s.pending.io) \subseteq {z} /\ Heard(s.pending.io) = {} /\ Timed(s.pending.io)
         /\ \A r \in s.recs : IsRec(r) /\ AsItem(r) = z
  <2>1. c.read \in Nat /\ c.write \in Nat
    BY <1>6
  <2>2. ActiveId(c) \in Pairs
    BY <1>6 DEF ActiveId, NoId, Pairs
  <2> QED
    BY <1>2, <1>7, <1>8, <2>1, <2>2, FirstHello, Zenon
<1>12. /\ IsChan(d) /\ d.active = None /\ d.closed = b /\ d.read = 0 /\ d.write = 0
       /\ d.read_keys = NoKeys /\ d.write_keys = NoKeys /\ d.pending = s.pending
  BY <1>6, <1>9 DEF IsChan
<1>13. d.pending # None
  BY <1>11, <1>12, NotNone DEF GoodPending
<1>14. Fine(c0, d, {z})
  <2>1. GoodChan(d)
    BY <1>11, <1>12 DEF GoodChan
  <2>2. Kept(d) \subseteq {z} /\ Hears(d) = {}
    BY <1>11, <1>12, <1>13 DEF Kept, Hears
  <2> QED
    BY <1>11, <2>1, <2>2 DEF Fine
<1>15. Move(p, c0, d, {z})
  <2>1. Greet(p, c0, d, {z})
    BY <1>1, <1>3, <1>10, <1>11, <1>12 DEF Greet
  <2> QED
    BY <2>1 DEF Move
<1>16. \A w \in Wire(p, c, s.recs) : w.from = p /\ IsRec(w.rec) /\ AsItem(w.rec) \in Said(p) \cup {z}
  BY <1>11, WireFacts
<1>17. fresh' \in Nat /\ fresh' >= fresh /\ net \subseteq net /\ Timed(d.pending.io)
  BY <1>2, <1>10, <1>11, <1>12
<1> QED
  BY <1>10, <1>14, <1>15, <1>16, <1>17, IdleMoves

LEMMA TimeoutMoves ==
  ASSUME Typed, AllTimed, NEW p \in Sides, TimeoutCheck(p)
  PROVE  Steady
<1> DEFINE c == chan[p]
<1>1. /\ GoodChan(c) /\ fresh \in Nat /\ c.pending # None
      /\ working = {} /\ working' = {} /\ policy' = policy /\ fresh' = fresh
  BY DEF Typed, TimeoutCheck
<1>2. IsChan(c) /\ IsPending(c.pending) /\ GoodIO(c.pending.io) /\ ~c.pending.io.finished /\ Timed(c.pending.io)
  BY <1>1 DEF GoodChan, GoodPending, AllTimed
<1>3. fresh' \in Nat /\ fresh' >= fresh /\ net \subseteq net
  BY <1>1
<1>4. CASE c.pending.io.count + 1 > policy.limit
  <2>1. PICK d : d = Abandon(c)
    OBVIOUS
  <2>2. Become(p, d, net, {})
    BY <1>4, <2>1 DEF TimeoutCheck, Become, PutInto
  <2>3. Fine(c, d, {}) /\ Move(p, c, d, {}) /\ d.pending = None
    <3>1. CASE c.active # None /\ c.pending.before = <<c.read, c.write>>
      <4>1. d = [c EXCEPT !.pending = None]
        BY <2>1, <3>1 DEF Abandon
      <4>2. /\ d.active = c.active /\ d.pending = None /\ d.closed = c.closed /\ SameKeys(c, d)
            /\ GoodChan(d) /\ Kept(d) \subseteq Kept(c) /\ Hears(d) = {}
        BY <1>1, <4>1, DroppedFacts
      <4>3. SameChan(c, d)
        BY <4>2 DEF SameChan, SameActive
      <4>4. Drop(p, c, d, {})
        BY <1>1, <3>1, <4>2, <4>3 DEF Drop
      <4> QED
        BY <4>2, <4>4 DEF Fine, Move
    <3>2. CASE ~(c.active # None /\ c.pending.before = <<c.read, c.write>>)
      <4>1. d = AfterAlert(c, "Fatal")
        BY <2>1, <3>2, Zenon DEF Abandon, AfterAlert
      <4>2. GoodChan(d) /\ Kept(d) = {} /\ Hears(d) = {} /\ d.pending = None
        BY <1>1, <4>1, DeadFacts
      <4>3. Die(d, {})
        BY <1>1, <4>1, DeadFacts
      <4> QED
        BY <4>2, <4>3 DEF Fine, Move
    <3> QED
      BY <3>1, <3>2
  <2>4. PICK X : X = {}
    OBVIOUS
  <2>5. /\ \A w \in X : w.from = p /\ IsRec(w.rec) /\ AsItem(w.rec) \in Said(p) \cup X
        /\ Become(p, d, net, X) /\ Fine(c, d, X) /\ Move(p, c, d, X)
        /\ d.pending # None => Timed(d.pending.io)
    BY <2>2, <2>3, <2>4
  <2> HIDE DEF c
  <2> QED
    BY <1>1, <1>3, <2>5, IdleMoves DEF c
<1>5. CASE ~(c.pending.io.count + 1 > policy.limit)
  <2>1. PICK n : n = c.pending.io.count + 1
    OBVIOUS
  <2>2. PICK i : i = [c.pending.io EXCEPT !.count = n]
    OBVIOUS
  <2>3. /\ IsIO(i) /\ i.flights = c.pending.io.flights /\ i.out = c.pending.io.out /\ i.messages = c.pending.io.messages
        /\ i.client_hello = c.pending.io.client_hello /\ i.finished = c.pending.io.finished
        /\ i.last_write = c.pending.io.last_write
    BY <1>2, <2>2 DEF GoodIO, IsIO
  <2>4. GoodIO(i) /\ Sent(i) = Sent(c.pending.io) /\ Heard(i) = Heard(c.pending.io) /\ Timed(i)
    <3>1. Slots(i) = Slots(c.pending.io) /\ Sent(i) = Sent(c.pending.io)
      BY <2>3 DEF Slots, Sent
    <3> QED
      BY <1>2, <2>3, <3>1 DEF GoodIO, Heard, Timed
  <2>5. PICK y : y = [c.pending EXCEPT !.io = i]
    OBVIOUS
  <2>6. PICK d : d = [c EXCEPT !.pending = y]
    OBVIOUS
  <2>7. Become(p, d, net, Wire(p, c, Records(LastFlight(c.pending.io))))
    <3>1. Become(p, [c EXCEPT !.pending.io.count = @ + 1], net, Wire(p, c, Records(LastFlight(c.pending.io))))
      BY <1>5 DEF TimeoutCheck
    <3>2. [c EXCEPT !.pending.io.count = @ + 1] = d
      BY <1>2, <2>1, <2>2, <2>5, <2>6 DEF IsChan, IsPending, GoodIO, IsIO
    <3> QED
      BY <3>1, <3>2
  <2>8. Taken(c, i, d, c.pending.expecting)
    <3>1. IsPending(y) /\ y.io = i /\ y.expecting = c.pending.expecting /\ SameHello(c.pending, y) /\ y.hash = c.pending.hash
      BY <1>2, <2>5 DEF IsPending, SameHello
    <3>2. IsChan(d) /\ d.active = c.active /\ d.closed = c.closed /\ SameKeys(c, d) /\ d.pending = y
      BY <1>2, <2>6 DEF IsChan, SameKeys
    <3> QED
      BY <3>1, <3>2 DEF Taken
  <2>9. GoodChan(d) /\ d.pending.io = i /\ Kept(d) \subseteq Kept(c) /\ Hears(d) = Heard(i) /\ Keep(c, d, {})
    <3>1. ~i.finished /\ Sent(i) \subseteq Sent(c.pending.io)
      BY <1>2, <2>3, <2>4
    <3> QED
      BY <1>1, <2>4, <2>8, <3>1, PendingIO
  <2>10. Fine(c, d, {}) /\ Move(p, c, d, {})
    BY <1>1, <2>4, <2>9 DEF Fine, Move, Hears
  <2>11. \A w \in Wire(p, c, Records(LastFlight(c.pending.io))) :
           w.from = p /\ IsRec(w.rec) /\ AsItem(w.rec) \in Said(p) \cup {}
    <3>1. Sent(c.pending.io) \subseteq Said(p)
      BY <1>1 DEF Said, Kept
    <3> QED
      BY <1>2, <3>1, ReplayFacts
  <2>12. Timed(d.pending.io)
    BY <2>4, <2>9
  <2> QED
    BY <1>1, <1>3, <2>7, <2>10, <2>11, <2>12, IdleMoves
<1> QED
  BY <1>4, <1>5

\* Every step is a move.
LEMMA EveryStepMoves ==
  ASSUME Typed, AllTimed, Expecting, [Next]_vars
  PROVE  Steady
<1>1. CASE UNCHANGED vars
  <2>1. PICK p \in Sides : TRUE
    BY DEF Sides
  <2>2. Ignore(net)
    BY <1>1 DEF Ignore, vars
  <2>3. net \subseteq net
    OBVIOUS
  <2> QED
    BY <2>2, <2>3, IgnoreMoves
<1>2. CASE \E w \in net : FromPeer(w)
  BY <1>2, FromPeerMoves
<1>3. CASE \E k \in working : Process(k) \/ Return(k)
  BY <1>3, ProcessMoves, ReturnMoves
<1>4. CASE \E p \in Sides : Renegotiate(p) \/ ToPeer(p) \/ Close(p) \/ TimeoutCheck(p)
  BY <1>4, RenegotiateMoves, ToPeerMoves, CloseMoves, TimeoutMoves
<1>5. CASE Reconnect
  BY <1>5, ReconnectMoves
<1> QED
  BY <1>1, <1>2, <1>3, <1>4, <1>5 DEF Next

-----------------------------------------------------------------------------
(* Protected: what the moves do to the stage of a handshake.               *)

Guarded(p, c) ==
  /\ c.active # None => c.write > 0
  /\ p = "client" /\ c.active # None => c.active.id # NoId
  /\ c.pending # None => Staged(p, c, c.pending)

LEMMA LongerFacts ==
  ASSUME NEW g \in Transcripts, NEW h \in Transcripts, Longer(g, h), Len(g) >= 2
  PROVE  Len(h) >= 2 /\ h[1] = g[1] /\ h[2] = g[2]
<1>1. Len(g) \in Nat /\ Len(h) \in Nat
  BY TranscriptFacts
<1>2. 1 \in 1..Len(g) /\ 2 \in 1..Len(g)
  BY <1>1
<1> QED
  BY <1>1, <1>2 DEF Longer

\* The transcript of the hellos, when one more is heard.
LEMMA HellosFacts ==
  ASSUME NEW g \in Transcripts, Len(g) = 1, NEW m \in Items, NEW h \in Transcripts, Longer(Append(g, Hashed(m)), h)
  PROVE  Len(h) >= 2 /\ h[1] = g[1] /\ h[2][3] = m.body.num
<1>1. PICK f \in Transcripts : f = Append(g, Hashed(m))
  BY TranscriptFacts
<1>2. Len(f) = 2 /\ f[2][3] = m.body.num
  <2>1. Append(g, Hashed(m))[Len(g) + 1][3] = m.body.num /\ Len(Append(g, Hashed(m))) = Len(g) + 1
    BY TranscriptFacts
  <2>2. Len(g) + 1 = 2
    OBVIOUS
  <2> QED
    BY <1>1, <2>1, <2>2
<1>3. f[1] = g[1]
  <2>1. Longer(g, f)
    BY <1>1, TranscriptFacts
  <2>2. 1 \in 1..Len(g)
    OBVIOUS
  <2> QED
    BY <2>1, <2>2 DEF Longer
<1>4. Len(h) >= 2 /\ h[1] = f[1] /\ h[2] = f[2]
  <2>1. Longer(f, h) /\ Len(f) >= 2
    BY <1>1, <1>2
  <2> QED
    BY <2>1, LongerFacts
<1> QED
  BY <1>2, <1>3, <1>4

LEMMA AnswerGuards ==
  ASSUME Typed, NEW c, NEW d, GoodChan(c), GoodChan(d), Guarded("client", c), NEW X, Answer("client", c, d, X)
  PROVE  Guarded("client", d)
<1> DEFINE x == c.pending
           y == d.pending
<1>1. /\ x # None /\ "ServerHello" \in x.expecting /\ SameActive(c, d)
      /\ y # None /\ y.expecting = {CCS} /\ y.hello = x.hello /\ y.before = x.before /\ d.write = c.write + 1
  BY DEF Answer
<1>2. PICK m \in Said("server") : m \in Items /\ y.id = <<x.hello.num, m.body.num>> /\ Longer(Append(x.hash, Hashed(m)), y.hash)
  BY DEF Answer
<1>3. /\ GoodPending(x) /\ GoodPending(y) /\ c.write \in Nat
      /\ x.hash \in Transcripts /\ y.hash \in Transcripts /\ x.before \in Pairs /\ m.body.num \in Nat
  BY <1>1, <1>2, ItemsAre, BodyFacts DEF GoodChan, GoodPending
<1>4. /\ x.hello.num > 0 /\ Len(x.hash) = 1 /\ x.hash[1][3] = x.hello.num
      /\ c.active # None => x.before[2] <= c.write
  BY <1>1 DEF Guarded, Staged
<1>5. Len(y.hash) >= 2 /\ y.id = <<y.hash[1][3], y.hash[2][3]>>
  BY <1>2, <1>3, <1>4, HellosFacts
<1>6. x.hello.num \in Nat /\ x.before[2] \in Nat
  BY <1>3, BodyFacts DEF GoodPending, Pairs
<1>7. y.id # NoId /\ y.id[1] = y.hello.num /\ y.hello # NoBody
  BY <1>1, <1>2, <1>4, <1>6, BodyFacts DEF NoId
<1>8. d.write > 0 /\ (d.active # None => y.before[2] < d.write)
  BY <1>1, <1>3, <1>4, <1>6 DEF SameActive
<1>9. Staged("client", d, y)
  BY <1>1, <1>3, <1>5, <1>6, <1>7, <1>8 DEF Staged, Expected, CCS
<1>10. d.active # None => d.active.id # NoId
  BY <1>1 DEF SameActive, Guarded
<1> QED
  BY <1>8, <1>9, <1>10 DEF Guarded

\* No move leaves a stage out.
LEMMA MoveGuards ==
  ASSUME Typed, NEW p \in Sides, NEW c, NEW d, GoodChan(c), GoodChan(d), Guarded(p, c), NEW X, Move(p, c, d, X)
  PROVE  Guarded(p, d)
<1> DEFINE x == c.pending
           y == d.pending
<1>1. /\ c.read \in Nat /\ c.write \in Nat /\ (x # None => x.hash \in Transcripts /\ x.before \in Pairs)
      /\ y # None => y.hash \in Transcripts /\ y.before \in Pairs
  BY DEF GoodChan, GoodPending
<1>2. CASE Keep(c, d, X)
  BY <1>2 DEF Keep, Guarded, Staged, SameActive, SameKeys, SameHello
<1>3. CASE Die(d, X)
  BY <1>3 DEF Die, Guarded
<1>4. CASE Begin(p, c, d, X)
  <2>1. /\ SameActive(c, d) /\ SameKeys(c, d) /\ y # None
        /\ y.expecting = (IF p = "server" THEN {"ClientHello"} ELSE {})
        /\ y.hello = NoBody /\ y.id = NoId /\ y.before = <<c.read, c.write>>
    BY <1>4 DEF Begin, SameChan
  <2>2. Staged(p, d, y)
    BY <1>1, <2>1 DEF Staged, Expected, CCS, SameKeys
  <2> QED
    BY <2>1, <2>2 DEF Guarded, SameActive, SameKeys
<1>5. CASE Drop(p, c, d, X)
  BY <1>5 DEF Drop, Guarded, SameChan, SameActive, SameKeys
<1>6. CASE Greet(p, c, d, X)
  <2>1. /\ p = "client" /\ y # None /\ y.expecting = {"HelloVerifyRequest", "ServerHello"}
        /\ y.hello.num = fresh + 1 /\ Len(y.hash) = 1 /\ y.hash[1][3] = fresh + 1 /\ fresh \in Nat
    BY <1>6 DEF Greet, HelloSent, Typed
  <2>2. y.hello # NoBody /\ y.hello.num > 0
    BY <2>1, BodyFacts
  <2>3. CASE /\ SameChan(c, d) /\ c.active # None /\ c.pending = None
             /\ d.pending.id = NoId /\ d.pending.before = <<c.read, c.write>>
    <3>1. Staged(p, d, y)
      BY <1>1, <2>1, <2>2, <2>3 DEF Staged, Expected, CCS, SameChan, SameKeys
    <3> QED
      BY <2>3, <3>1 DEF Guarded, SameChan, SameActive, SameKeys
  <2>4. CASE /\ SameChan(c, d) /\ c.active # None /\ c.pending # None /\ c.pending.hello = NoBody
             /\ d.pending.id = c.pending.id /\ d.pending.before = c.pending.before
    <3>1. x.id = NoId /\ x.before[2] <= c.write
      BY <2>1, <2>4 DEF Guarded, Staged
    <3>2. Staged(p, d, y)
      BY <1>1, <2>1, <2>2, <2>4, <3>1 DEF Staged, Expected, CCS, SameChan, SameKeys
    <3> QED
      BY <2>4, <3>2 DEF Guarded, SameChan, SameActive, SameKeys
  <2>5. CASE d.active = None /\ ~d.closed /\ d.pending.id = NoId
    <3>1. Staged(p, d, y)
      BY <1>1, <2>1, <2>2, <2>5 DEF Staged, Expected, CCS
    <3> QED
      BY <2>5, <3>1 DEF Guarded
  <2> QED
    BY <1>6, <2>3, <2>4, <2>5 DEF Greet
<1>7. CASE Again(p, c, d, X)
  <2>1. /\ p = "client" /\ x # None /\ "HelloVerifyRequest" \in x.expecting /\ SameActive(c, d) /\ SameKeys(c, d)
        /\ y # None /\ y.expecting = {"HelloVerifyRequest", "ServerHello"}
        /\ y.hello.num = x.hello.num /\ Len(y.hash) = 1 /\ y.hash[1][3] = x.hello.num
        /\ y.id = x.id /\ y.before = x.before
    BY <1>7 DEF Again, HelloSent, SameChan
  <2>2. x.hello.num > 0 /\ x.id = NoId
    BY <2>1 DEF Guarded, Staged
  <2>3. c.active # None => x.before[2] <= c.write
    BY <2>1 DEF Guarded, Staged
  <2>4. Staged(p, d, y)
    BY <2>1, <2>2, <2>3 DEF Staged, Expected, CCS, SameActive, SameKeys
  <2> QED
    BY <2>1, <2>4 DEF Guarded, SameActive, SameKeys
<1>8. CASE Stick(p, c, d, X)
  <2>1. /\ x # None /\ y # None /\ SameHello(x, y) /\ y.hash = x.hash
        /\ y.expecting = {} \/ y.expecting = x.expecting
    BY <1>8 DEF Stick
  <2>2. CASE SameChan(c, d)
    BY <2>1, <2>2 DEF Guarded, Staged, SameChan, SameActive, SameKeys, SameHello, Expected
  <2>3. CASE p = "server" /\ Restarted(c, d)
    BY <2>1, <2>3 DEF Guarded, Staged, Restarted, SameHello, Expected
  <2> QED
    BY <1>8, <2>2, <2>3 DEF Stick
<1>9. CASE Answer(p, c, d, X)
  <2>1. p = "client"
    BY <1>9 DEF Answer
  <2> QED
    BY <1>9, <2>1, AnswerGuards
<1>10. CASE Verify(p, c, d, X)
  BY <1>10 DEF Verify, Guarded, Staged, SameChan, SameActive, SameKeys, SameHello, Expected, CCS
<1>11. CASE Accept(p, c, d, X)
  <2>1. /\ p = "server" /\ y # None /\ y.expecting = {"ClientKeyExchange"}
        /\ Len(y.hash) = 2 /\ y.id = <<y.hash[1][3], y.hash[2][3]>>
    BY <1>11 DEF Accept
  <2>2. Staged(p, d, y)
    BY <2>1 DEF Staged, Expected, CCS
  <2>3. d.active # None => d.write > 0
    BY <1>11 DEF Accept, SameChan, SameActive, SameKeys, Restarted, Guarded
  <2> QED
    BY <2>1, <2>2, <2>3 DEF Guarded
<1>12. CASE Exchange(p, c, d, X)
  <2>1. /\ p = "server" /\ x # None /\ "ClientKeyExchange" \in x.expecting /\ SameActive(c, d) /\ SameKeys(c, d)
        /\ y # None /\ y.id = x.id /\ Longer(x.hash, y.hash) /\ y.expecting = {CCS}
    BY <1>12 DEF Exchange, SameChan, SameHello
  <2>2. Len(x.hash) >= 2 /\ x.id = <<x.hash[1][3], x.hash[2][3]>>
    BY <2>1 DEF Guarded, Staged
  <2>3. Len(y.hash) >= 2 /\ y.id = <<y.hash[1][3], y.hash[2][3]>>
    BY <1>1, <2>1, <2>2, LongerFacts
  <2>4. Staged(p, d, y)
    BY <2>1, <2>3 DEF Staged, Expected
  <2> QED
    BY <2>1, <2>4 DEF Guarded, SameActive, SameKeys
<1>13. CASE Change(c, d, X)
  <2>1. /\ x # None /\ CCS \in x.expecting /\ SameActive(c, d) /\ d.write = c.write
        /\ y # None /\ SameHello(x, y) /\ y.hash = x.hash /\ y.expecting = {"Finished"}
    BY <1>13 DEF Change
  <2>2. Staged(p, d, y)
    BY <2>1 DEF Staged, Expected, SameHello, SameActive, Guarded, CCS
  <2> QED
    BY <2>1, <2>2 DEF Guarded, SameActive
<1>14. CASE Finish(p, c, d, X)
  <2>1. x # None /\ "Finished" \in x.expecting /\ d.active.id = x.id /\ d.pending = None
        /\ d.write = (IF p = "client" THEN c.write ELSE c.write + 1)
    BY <1>14 DEF Finish
  <2>2. p = "client" => c.write > 0 /\ x.id # NoId
    BY <2>1 DEF Guarded, Staged
  <2>3. d.write > 0
    BY <1>1, <2>1, <2>2
  <2> QED
    BY <2>1, <2>2, <2>3 DEF Guarded
<1> QED
  BY <1>2, <1>3, <1>4, <1>5, <1>6, <1>7, <1>8, <1>9, <1>10, <1>11, <1>12, <1>13, <1>14 DEF Move

\* What a move says is protected, if it is data.
LEMMA MoveSpeaks ==
  ASSUME NEW p, NEW c, NEW d, NEW X, Move(p, c, d, X), Guarded(p, c), NEW x \in X, x.type = "ApplicationData"
  PROVE  x.epoch > 0
<1>1. CASE Keep(c, d, X)
  BY <1>1 DEF Keep, Guarded
<1>2. CASE Die(d, X) \/ Begin(p, c, d, X) \/ Drop(p, c, d, X)
  BY <1>2 DEF Die, Begin, Drop
<1>3. CASE Greet(p, c, d, X) \/ Again(p, c, d, X)
  BY <1>3 DEF Greet, Again, HelloSent
<1>4. CASE Stick(p, c, d, X) \/ Exchange(p, c, d, X) \/ Change(c, d, X)
  BY <1>4 DEF Stick, Exchange, Change
<1>5. CASE Answer(p, c, d, X)
  BY <1>5 DEF Answer, CCS
<1>6. CASE Verify(p, c, d, X) \/ Accept(p, c, d, X)
  BY <1>6 DEF Verify, Accept
<1>7. CASE Finish(p, c, d, X)
  BY <1>7 DEF Finish, CCS
<1> QED
  BY <1>1, <1>2, <1>3, <1>4, <1>5, <1>6, <1>7 DEF Move

LEMMA ProtectedIsGuarded ==
  ASSUME Protected, NEW p \in Sides
  PROVE  Guarded(p, chan[p])
BY DEF Protected, Guarded

LEMMA ProtectedStep ==
  ASSUME Typed, Typed', Protected, Moves
  PROVE  Protected'
<1>0. PICK p \in Sides : \E X : Step(p, X) /\ Move(p, chan[p], chan'[p], X)
  BY DEF Moves
<1>1. PICK X : Step(p, X) /\ Move(p, chan[p], chan'[p], X)
  BY <1>0
<1>2. \A s \in Sides : GoodChan(chan[s]) /\ GoodChan(chan'[s]) /\ Guarded(s, chan[s])
  BY ProtectedIsGuarded DEF Typed
<1>3. Guarded(p, chan'[p])
  BY <1>1, <1>2, MoveGuards
<1>4. \A s \in Sides : Guarded(s, chan'[s])
  BY <1>1, <1>2, <1>3, PeerFacts DEF Step
<1>5. ASSUME NEW s \in Sides, NEW x \in Said(s)', x.type = "ApplicationData" PROVE x.epoch > 0
  <2>1. CASE x \in Said(s)
    BY <1>5, <2>1 DEF Protected
  <2>2. CASE s = p /\ x \in X
    BY <1>1, <1>2, <1>5, <2>2, MoveSpeaks
  <2> QED
    BY <1>1, <1>5, <2>1, <2>2, PeerFacts DEF Step
<1>6. "client" \in Sides
  BY DEF Sides
<1> QED
  BY <1>4, <1>5, <1>6 DEF Protected, Guarded

-----------------------------------------------------------------------------
(* The association of handshake 1.                                         *)

LEMMA ActiveIOFacts ==
  ASSUME NEW p \in Sides
  PROVE  /\ GoodIO(ActiveIO(p))
         /\ \A x \in Sent(ActiveIO(p)) : x.type \in {CCS, "Finished"} /\ x.body = NoBody
<1>1. PICK seq : seq = (IF p = "server" THEN 2 ELSE 3) /\ seq \in Int
  <2>1. (IF p = "server" THEN 2 ELSE 3) \in Int
    OBVIOUS
  <2> QED
    BY <2>1
<1>2. PICK a \in Items : a = Item(CCS, 0, 0, NoBody) /\ a.type = CCS /\ a.body = NoBody
  <2>1. CCS \in MsgTypes /\ 0 \in Int /\ 0 \in Nat
    BY DEF MsgTypes
  <2> QED
    BY <2>1, BodyFacts, ItemFacts
<1>3. PICK b \in Items : b = Item("Finished", seq, 1, NoBody) /\ b.type = "Finished" /\ b.body = NoBody
  <2>1. "Finished" \in MsgTypes /\ 1 \in Nat
    BY DEF MsgTypes
  <2>2. LET x == Item("Finished", seq, 1, NoBody) IN x \in Items /\ x.type = "Finished" /\ x.body = NoBody
    BY <1>1, <2>1, BodyFacts DEF Item, Items
  <2> QED
    BY <2>2
<1>4. PICK g : g = <<a, b>> /\ g \in Seq(Items) /\ {g[j] : j \in DOMAIN g} = {a, b}
  <2>1. <<a, b>> \in Seq(Items) /\ {<<a, b>>[j] : j \in DOMAIN <<a, b>>} = {a, b}
    BY TuplesOfItems
  <2> QED
    BY <2>1
<1>5. PICK e : e = <<>> /\ e \in Seq(Items) /\ {e[j] : j \in DOMAIN e} = {}
  <2>1. <<>> \in Seq(Items) /\ {<<>>[j] : j \in DOMAIN <<>>} = {}
    OBVIOUS
  <2> QED
    BY <2>1
<1>6. PICK f : f = <<g, e>>
  OBVIOUS
<1>7. /\ f \in Seq(Seq(Items)) /\ f # <<>>
      /\ \A i \in DOMAIN f : \A j \in DOMAIN f[i] : f[i][j] \in {a, b}
  <2>1. f \in Seq(Seq(Items)) /\ f # <<>> /\ DOMAIN f = {1, 2} /\ f[1] = g /\ f[2] = e
    BY <1>4, <1>5, <1>6
  <2>2. \A j \in DOMAIN g : g[j] \in {a, b}
    BY <1>4
  <2>3. DOMAIN e = {}
    BY <1>5
  <2> QED
    BY <2>1, <2>2, <2>3
<1>8. PICK io, n, o, t, u, s :
        /\ io = ActiveIO(p) /\ n = (IF p = "server" THEN 4 ELSE 3) /\ o = seq + 1 /\ t = TRUE
        /\ u = (p = "server") /\ s = {0}
  OBVIOUS
<1>9. io = [NewIO EXCEPT !.flights = f, !.in = n, !.out = o, !.ccs_epochs = s, !.finished = t, !.terminal = u]
  BY <1>1, <1>2, <1>3, <1>4, <1>5, <1>6, <1>8, Zenon DEF ActiveIO
<1>10. NewIO.messages = <<>> /\ NewIO.client_hello = {} /\ IsIO(NewIO)
  BY DEF NewIO, IsIO
<1>11. IsIO(io) /\ io.flights = f /\ io.out = o /\ io.messages = NewIO.messages /\ io.client_hello = NewIO.client_hello
  BY <1>9, <1>10 DEF IsIO
<1>12. GoodIO(io)
  <2>1. io.out \in Int
    BY <1>1, <1>8, <1>11
  <2>2. Slots(io) = {}
    BY <1>10, <1>11 DEF Slots
  <2> QED
    BY <1>7, <1>11, <2>1, <2>2 DEF GoodIO
<1>13. \A x \in Sent(io) : x \in {a, b}
  BY <1>7, <1>11 DEF Sent
<1> QED
  BY <1>2, <1>3, <1>8, <1>12, <1>13

\* What the first handshake may have left in the network.
LEMMA OldFacts ==
  ASSUME NEW w \in OldRecords
  PROVE  /\ IsRec(w.rec) /\ AsItem(w.rec) \in Items
         /\ \/ w.from = "client" /\ w.rec.type = "ClientHello" /\ w.rec.body.num = 1
            \/ w.from = "server" /\ w.rec.type = "HelloVerifyRequest"
<1> DEFINE k == [write_keys |-> NoKeys]
<1>1. PICK v \in Bodies : v = Hello(1, FALSE, NoId) /\ v.num = 1
  <2>1. 1 \in Nat /\ FALSE \in BOOLEAN /\ NoId \in Pairs
    BY DEF NoId, Pairs
  <2>2. Hello(1, FALSE, NoId) \in Bodies /\ Hello(1, FALSE, NoId).num = 1
    BY <2>1, BodyFacts, Zenon
  <2> QED
    BY <2>2, Zenon
<1>2. PICK u \in Bodies : u = Hello(1, TRUE, NoId) /\ u.num = 1
  <2>1. 1 \in Nat /\ TRUE \in BOOLEAN /\ NoId \in Pairs
    BY DEF NoId, Pairs
  <2>2. Hello(1, TRUE, NoId) \in Bodies /\ Hello(1, TRUE, NoId).num = 1
    BY <2>1, BodyFacts, Zenon
  <2> QED
    BY <2>2, Zenon
<1>3. PICK a \in Items : a = Item("ClientHello", 0, 0, v) /\ a.type = "ClientHello" /\ a.body = v
  <2>1. "ClientHello" \in MsgTypes /\ 0 \in Int /\ 0 \in Nat
    BY DEF MsgTypes
  <2>2. LET x == Item("ClientHello", 0, 0, v) IN x \in Items /\ x.type = "ClientHello" /\ x.body = v
    BY <1>1, <2>1 DEF Item, Items
  <2> QED
    BY <2>2
<1>4. PICK b \in Items : b = Item("ClientHello", 1, 0, u) /\ b.type = "ClientHello" /\ b.body = u
  <2>1. "ClientHello" \in MsgTypes /\ 1 \in Int /\ 0 \in Nat
    BY DEF MsgTypes
  <2>2. LET x == Item("ClientHello", 1, 0, u) IN x \in Items /\ x.type = "ClientHello" /\ x.body = u
    BY <1>2, <2>1 DEF Item, Items
  <2> QED
    BY <2>2
<1>5. PICK h \in Items : h = Item("HelloVerifyRequest", 0, 0, NoBody) /\ h.type = "HelloVerifyRequest"
  <2>1. "HelloVerifyRequest" \in MsgTypes /\ 0 \in Int /\ 0 \in Nat
    BY DEF MsgTypes
  <2> QED
    BY <2>1, BodyFacts, ItemFacts
<1>6. \/ \E i \in {Item("ClientHello", 0, 0, Hello(1, FALSE, NoId)), Item("ClientHello", 1, 0, Hello(1, TRUE, NoId))} :
          w \in Wire("client", k, Fragments(i))
      \/ \E i \in {Item("HelloVerifyRequest", 0, 0, NoBody)} : w \in Wire("server", k, Fragments(i))
  BY Zenon DEF OldRecords
<1> HIDE DEF k
<1>7. ASSUME NEW z \in Items, NEW q, w \in Wire(q, k, Fragments(z))
      PROVE  w.from = q /\ IsRec(w.rec) /\ AsItem(w.rec) = z /\ w.rec.type = z.type /\ w.rec.body = z.body
  <2>1. w.from = q /\ w.rec \in Fragments(z)
    BY <1>7, WireFacts
  <2>2. IsRec(w.rec) /\ AsItem(w.rec) = z
    BY <2>1, FragmentsFacts
  <2>3. AsItem(w.rec).type = w.rec.type /\ AsItem(w.rec).body = w.rec.body
    BY DEF AsItem
  <2> QED
    BY <2>1, <2>2, <2>3
<1>8. w \in Wire("client", k, Fragments(a)) \/ w \in Wire("client", k, Fragments(b)) \/ w \in Wire("server", k, Fragments(h))
  BY <1>1, <1>2, <1>3, <1>4, <1>5, <1>6, Zenon
<1> QED
  BY <1>1, <1>2, <1>3, <1>4, <1>5, <1>7, <1>8

LEMMA InitFacts ==
  ASSUME Init
  PROVE  /\ policy \in Policies /\ fresh = 1 /\ working = {} /\ net \subseteq OldRecords
         /\ chan = [p \in Sides |-> chan[p]]
         /\ \A p \in Sides :
              LET c == chan[p]
              IN  /\ IsChan(c) /\ c.active # None /\ c.pending = None /\ c.read = 1 /\ c.write = 1 /\ ~c.closed
                  /\ IsActive(c.active) /\ c.active.id = <<1, 1>> /\ c.active.io = ActiveIO(p)
                  /\ c.read_keys = With(NoKeys, 1, <<1, 1>>) /\ c.write_keys = With(NoKeys, 1, <<1, 1>>)
<1>1. policy \in Policies /\ fresh = 1 /\ working = {} /\ net \subseteq OldRecords
  BY DEF Init
<1>2. PICK id, k, b, n : id = <<1, 1>> /\ k = With(NoKeys, 1, <<1, 1>>) /\ b = FALSE /\ n = None
  OBVIOUS
<1>3. chan = [p \in Sides |->
               [active |-> [id |-> id, io |-> ActiveIO(p)], pending |-> n,
                read |-> 1, write |-> 1, closed |-> b, read_keys |-> k, write_keys |-> k]]
  BY <1>2, Zenon DEF Init
<1>4. ASSUME NEW p \in Sides
      PROVE  LET c == chan[p]
              IN  /\ IsChan(c) /\ c.active # None /\ c.pending = n /\ c.read = 1 /\ c.write = 1 /\ c.closed = b
                  /\ IsActive(c.active) /\ c.active.id = id /\ c.active.io = ActiveIO(p)
                  /\ c.read_keys = k /\ c.write_keys = k
  <2>1. PICK i : i = ActiveIO(p)
    OBVIOUS
  <2>2. PICK a : a = [id |-> id, io |-> i]
    OBVIOUS
  <2>3. PICK c : c = chan[p]
    OBVIOUS
  <2>4. c = [active |-> a, pending |-> n, read |-> 1, write |-> 1, closed |-> b, read_keys |-> k, write_keys |-> k]
    BY <1>3, <2>1, <2>2, <2>3
  <2>5. IsActive(a) /\ a.id = id /\ a.io = i /\ a # None
    <3>1. IsActive(a) /\ a.id = id /\ a.io = i
      BY <2>2 DEF IsActive
    <3> QED
      BY <3>1, NotNone
  <2>6. IsChan(c) /\ c.active = a /\ c.pending = n /\ c.read = 1 /\ c.write = 1 /\ c.closed = b /\ c.read_keys = k /\ c.write_keys = k
    BY <2>4 DEF IsChan
  <2> QED
    BY <2>1, <2>3, <2>5, <2>6
<1>5. chan = [p \in Sides |-> chan[p]]
  BY <1>3
<1> QED
  BY <1>1, <1>2, <1>4, <1>5

\* What has been said when the first handshake is over.
LEMMA InitSaid ==
  ASSUME Init
  PROVE  /\ \A p \in Sides : Said(p) \subseteq Items
         /\ \A x \in Said("client") : \/ x.type = "ClientHello" /\ x.body.num = 1
                                      \/ x.type \in {CCS, "Finished"} /\ x.body = NoBody
         /\ \A x \in Said("server") : \/ x.type = "HelloVerifyRequest"
                                      \/ x.type \in {CCS, "Finished"} /\ x.body = NoBody
<1>1. ASSUME NEW p \in Sides, NEW x \in Said(p)
      PROVE  /\ x \in Items
             /\ \/ x.type \in {CCS, "Finished"} /\ x.body = NoBody
                \/ p = "client" /\ x.type = "ClientHello" /\ x.body.num = 1
                \/ p = "server" /\ x.type = "HelloVerifyRequest"
  <2>1. Hears(chan[Peer(p)]) = {} /\ Kept(chan[p]) = Sent(ActiveIO(p))
    BY InitFacts, PeerFacts DEF Hears, Kept
  <2>2. CASE x \in Sent(ActiveIO(p))
    <3>1. x \in Items
      BY <2>2, ActiveIOFacts DEF GoodIO, Sent
    <3> QED
      BY <2>2, <3>1, ActiveIOFacts
  <2>3. CASE \E w \in net : w.from = p /\ x = AsItem(w.rec)
    <3>1. PICK w \in net : w.from = p /\ x = AsItem(w.rec)
      BY <2>3
    <3>2. x.type = w.rec.type /\ x.body = w.rec.body
      BY <3>1 DEF AsItem
    <3>3. w \in OldRecords
      BY InitFacts
    <3> QED
      BY <3>1, <3>2, <3>3, OldFacts
  <2> QED
    BY <1>1, <2>1, <2>2, <2>3 DEF Said
<1>2. \A p \in Sides : p = "client" \/ p = "server"
  BY DEF Sides
<1>3. "client" \in Sides /\ "server" \in Sides /\ "client" # "server"
  BY DEF Sides
<1> QED
  BY <1>1, <1>3

LEMMA InitTyped ==
  ASSUME Init
  PROVE  Typed /\ AllTimed /\ Protected
<1>1. \A p \in Sides : GoodChan(chan[p])
  <2>1. <<1, 1>> \in Pairs
    BY DEF Pairs
  <2> QED
    BY <2>1, InitFacts, ActiveIOFacts DEF GoodChan
<1>2. \A w \in net : w.from \in Sides /\ IsRec(w.rec) /\ AsItem(w.rec) \in Items \cup Notes
  BY InitFacts, OldFacts DEF Sides
<1>3. Typed
  BY <1>1, <1>2, InitFacts DEF Typed
<1>4. AllTimed
  BY InitFacts DEF AllTimed
<1>5. Protected
  <2>1. \A p \in Sides : \A x \in Said(p) : x.type # "ApplicationData"
    BY InitSaid DEF CCS, Sides
  <2>2. <<1, 1>> # NoId
    BY DEF NoId
  <2> QED
    BY <2>1, <2>2, InitFacts DEF Protected, Sides
<1> QED
  BY <1>3, <1>4, <1>5

-----------------------------------------------------------------------------

\* The data are what they should be, the flights that were sent are complete and
\* the stages of the handshakes are in order, in every reachable state.
Stable == Typed /\ AllTimed /\ Protected

LEMMA StableStep ==
  ASSUME Stable, [Next]_vars
  PROVE  Stable' /\ Moves
<1>1. Expecting
  BY DEF Stable, Protected, Expecting, Staged
<1>2. Steady
  BY <1>1, EveryStepMoves DEF Stable
<1>3. Protected'
  BY <1>2, ProtectedStep DEF Stable, Steady
<1> QED
  BY <1>2, <1>3 DEF Stable, Steady

\* Stable is an inductive invariant.
THEOREM AlwaysStable == Spec => []Stable
<1>1. Init => Stable
  BY InitTyped DEF Stable
<1>2. Stable /\ [Next]_vars => Stable'
  BY StableStep
<1> QED
  BY <1>1, <1>2, PTL DEF Spec

\* to_peer() needs an active state, and that comes with an epoch above 0 in the
\* direction of writing, whatever is renegotiated or restarted meanwhile.
THEOREM DataIsProtected == Spec => []NoPlaintextData
<1>1. Stable => NoPlaintextData
  <2> SUFFICES ASSUME Stable, NEW w \in net, w.rec.type = "ApplicationData" PROVE w.rec.epoch > 0
    BY DEF NoPlaintextData
  <2>1. w.from \in Sides /\ AsItem(w.rec) \in Said(w.from)
    BY DEF Stable, Typed, Said
  <2>2. AsItem(w.rec).type = w.rec.type /\ AsItem(w.rec).epoch = w.rec.epoch
    BY DEF AsItem
  <2> QED
    BY <2>1, <2>2 DEF Stable, Protected
<1> QED
  BY <1>1, AlwaysStable, PTL

\* Every handshake that has sent a flight has a timer: the loop of
\* process_handshake_ccs() never returns with a flight open.
THEOREM PendingTimed == Spec => []PendingIsTimed
<1>1. Stable => PendingIsTimed
  <2> SUFFICES ASSUME Stable, working = {}, NEW p \in Sides, chan[p].pending # None, chan[p].pending.io.last_write
               PROVE  TimerRuns(chan[p].pending.io)
    BY DEF PendingIsTimed
  <2>1. Timed(chan[p].pending.io)
    BY DEF Stable, AllTimed
  <2>2. ~chan[p].pending.io.finished
    BY DEF Stable, Typed, GoodChan, GoodPending
  <2> QED
    BY <2>1, <2>2 DEF Timed, TimerRuns
<1> QED
  BY <1>1, AlwaysStable, PTL

-----------------------------------------------------------------------------
(* Policed, Numbered and Agreeing: which handshake the two sides are in.   *)

\* Who says what.
LEMMA MoveSays ==
  ASSUME NEW p \in Sides, NEW c, NEW d, NEW X, Move(p, c, d, X), NEW x \in X
  PROVE  /\ x.type = "NoRenegotiation" =>
              \/ p = "server" /\ ~policy.client_reneg
              \/ p = "client" /\ ~policy.server_reneg /\ ~policy.abort
         /\ x.type = "ClientHello" => Greet(p, c, d, X) \/ Again(p, c, d, X)
         /\ x.type = "ServerHello" => Accept(p, c, d, X)
         /\ x.type = "Finished" => Answer(p, c, d, X) \/ (p = "server" /\ Finish(p, c, d, X))
<1>1. CASE Keep(c, d, X)
  BY <1>1 DEF Keep
<1>2. CASE Die(d, X) \/ Begin(p, c, d, X)
  BY <1>2 DEF Die, Begin
<1>3. CASE Drop(p, c, d, X)
  BY <1>3 DEF Drop
<1>4. CASE Greet(p, c, d, X) \/ Again(p, c, d, X)
  BY <1>4 DEF Greet, Again, HelloSent
<1>5. CASE Stick(p, c, d, X) \/ Exchange(p, c, d, X) \/ Change(c, d, X)
  BY <1>5 DEF Stick, Exchange, Change
<1>6. CASE Answer(p, c, d, X)
  BY <1>6 DEF Answer, CCS
<1>7. CASE Verify(p, c, d, X) \/ Accept(p, c, d, X)
  BY <1>7 DEF Verify, Accept
<1>8. CASE Finish(p, c, d, X)
  BY <1>8 DEF Finish, CCS
<1> QED
  BY <1>1, <1>2, <1>3, <1>4, <1>5, <1>6, <1>7, <1>8 DEF Move

\* What the policy of the server leaves of a client's renegotiation.
Unanswered(c) ==
  c.active # None /\ c.pending # None =>
    /\ c.pending.id = NoId
    /\ c.pending.before = <<c.read, c.write>>
    /\ c.pending.expecting \cap {CCS, "Finished"} = {}

LEMMA MoveUnanswered ==
  ASSUME NEW c, NEW d, GoodChan(c), GoodChan(d), Guarded("client", c), NEW X, Move("client", c, d, X),
         \A x \in Said("server") : x.type = "ServerHello" => x.body.info = NoId, Unanswered(c)
  PROVE  Unanswered(d)
<1> DEFINE p == "client"
<1>1. CASE Keep(c, d, X)
  BY <1>1 DEF Keep, Unanswered, SameActive, SameKeys, SameHello
<1>2. CASE Die(d, X) \/ Drop(p, c, d, X) \/ Finish(p, c, d, X)
  BY <1>2 DEF Die, Drop, Finish, Unanswered
<1>3. CASE Begin(p, c, d, X)
  BY <1>3 DEF Begin, Unanswered, SameChan, SameActive, SameKeys, CCS
<1>4. CASE Greet(p, c, d, X)
  BY <1>4 DEF Greet, HelloSent, Unanswered, SameChan, SameActive, SameKeys, CCS
<1>5. CASE Again(p, c, d, X)
  BY <1>5 DEF Again, HelloSent, Unanswered, SameChan, SameActive, SameKeys, CCS
<1>6. CASE Stick(p, c, d, X)
  BY <1>6 DEF Stick, Unanswered, SameChan, SameActive, SameKeys, SameHello
<1>7. CASE Answer(p, c, d, X)
  <2>1. SameActive(c, d) /\ \E m \in Said("server") : m.type = "ServerHello" /\ m.body.info = ActiveId(c)
    BY <1>7 DEF Answer
  <2>2. ActiveId(c) = NoId
    BY <2>1
  <2>3. c.active = None
    BY <2>2 DEF ActiveId, Guarded
  <2> QED
    BY <2>1, <2>3 DEF SameActive, Unanswered
<1>8. CASE Verify(p, c, d, X) \/ Accept(p, c, d, X) \/ Exchange(p, c, d, X)
  BY <1>8 DEF Verify, Accept, Exchange
<1>9. CASE Change(c, d, X)
  BY <1>9 DEF Change, Unanswered, SameActive
<1> QED
  BY <1>1, <1>2, <1>3, <1>4, <1>5, <1>6, <1>7, <1>8, <1>9 DEF Move

LEMMA PolicedStep ==
  ASSUME Typed, Typed', Protected, Policed, Moves
  PROVE  Policed'
<1>0. PICK p \in Sides : \E X : Step(p, X) /\ Move(p, chan[p], chan'[p], X)
  BY DEF Moves
<1>1. PICK X : Step(p, X) /\ Move(p, chan[p], chan'[p], X)
  BY <1>0
<1>2. "client" \in Sides /\ "server" \in Sides /\ Peer("server") = "client" /\ Peer("client") = "server"
  BY DEF Sides, Peer
<1>3. policy' = policy /\ chan'[Peer(p)] = chan[Peer(p)]
  BY <1>1 DEF Step
<1>4. ASSUME NEW x \in Said("server")' PROVE x \in Said("server") \/ (p = "server" /\ x \in X)
  BY <1>1, <1>2, <1>4, PeerFacts DEF Step
<1>5. ASSUME NEW x \in Said("server")'
      PROVE  /\ x.type = "NoRenegotiation" => ~policy.client_reneg
             /\ ~policy.client_reneg /\ x.type = "ServerHello" => x.body.info = NoId
  <2>1. CASE x \in Said("server")
    BY <2>1 DEF Policed
  <2>2. CASE p = "server" /\ x \in X
    <3>1. x.type = "NoRenegotiation" => ~policy.client_reneg
      BY <1>1, <2>2, MoveSays
    <3>2. x.type = "ServerHello" => Accept(p, chan[p], chan'[p], X)
      BY <1>1, <2>2, MoveSays
    <3> QED
      BY <2>2, <3>1, <3>2 DEF Accept
  <2> QED
    BY <1>4, <1>5, <2>1, <2>2
<1>6. ~policy.client_reneg => Unanswered(chan'["client"])
  <2> SUFFICES ASSUME ~policy.client_reneg PROVE Unanswered(chan'["client"])
    OBVIOUS
  <2>1. Unanswered(chan["client"]) /\ \A x \in Said("server") : x.type = "ServerHello" => x.body.info = NoId
    BY DEF Policed, Unanswered
  <2>2. CASE p = "client"
    <3>1. GoodChan(chan["client"]) /\ GoodChan(chan'["client"]) /\ Guarded("client", chan["client"])
      BY <1>2, ProtectedIsGuarded DEF Typed
    <3>2. Move("client", chan["client"], chan'["client"], X)
      BY <1>1, <2>2
    <3> QED
      BY <2>1, <3>1, <3>2, MoveUnanswered
  <2>3. CASE p = "server"
    BY <1>2, <1>3, <2>1, <2>3
  <2> QED
    BY <2>2, <2>3 DEF Sides
<1> QED
  BY <1>3, <1>5, <1>6 DEF Policed, Unanswered

\* The hellos of a transcript.
LEMMA IdFacts ==
  /\ \A h \in Transcripts : Len(h) >= 2 => IdOf(h) \in Pairs /\ h # <<>>
  /\ \A g, h \in Transcripts : Len(g) >= 2 /\ Longer(g, h) => Len(h) >= 2 /\ IdOf(h) = IdOf(g)
  /\ \A i \in Pairs : i[1] \in Nat /\ i[2] \in Nat
<1>1. ASSUME NEW h \in Transcripts, Len(h) >= 2 PROVE IdOf(h) \in Pairs /\ h # <<>>
  <2>1. Len(h) \in Nat /\ 1 \in DOMAIN h /\ 2 \in DOMAIN h
    BY <1>1 DEF Transcripts
  <2>2. h[1] \in MsgTypes \X Int \X Nat /\ h[2] \in MsgTypes \X Int \X Nat
    BY <2>1 DEF Transcripts
  <2>3. h[1][3] \in Nat /\ h[2][3] \in Nat
    BY <2>2
  <2> QED
    BY <1>1, <2>3 DEF IdOf, Pairs
<1>2. ASSUME NEW g \in Transcripts, NEW h \in Transcripts, Len(g) >= 2, Longer(g, h) PROVE Len(h) >= 2 /\ IdOf(h) = IdOf(g)
  BY <1>2, LongerFacts DEF IdOf
<1>3. \A i \in Pairs : i[1] \in Nat /\ i[2] \in Nat
  BY DEF Pairs
<1> QED
  BY <1>1, <1>2, <1>3

\* The Finished that completes a handshake proves that the peer was in it too.
LEMMA FinishProves ==
  ASSUME NEW p \in Sides, NEW c, NEW d, NEW X, GoodChan(c), Guarded(p, c), Finish(p, c, d, X)
  PROVE  /\ c.pending # None /\ GoodPending(c.pending) /\ Len(c.pending.hash) >= 2 /\ c.pending.id = IdOf(c.pending.hash)
         /\ \E m \in Said(Peer(p)) : Proves(m) /\ IdOf(m.body.hash) = c.pending.id
<1>1. c.pending # None /\ "Finished" \in c.pending.expecting
  BY DEF Finish
<1>2. Len(c.pending.hash) >= 2 /\ c.pending.id = IdOf(c.pending.hash)
  BY <1>1 DEF Guarded, Staged, IdOf
<1>3. GoodPending(c.pending) /\ c.pending.hash \in Transcripts
  BY <1>1 DEF GoodChan, GoodPending
<1>4. PICK m \in Said(Peer(p)) : m.type = "Finished" /\ m.body.hash = c.pending.hash
  BY DEF Finish
<1> QED
  BY <1>1, <1>2, <1>3, <1>4, IdFacts DEF Proves

\* The hellos that a Finished, when it is sent, is about.
LEMMA AnswerProves ==
  ASSUME NEW c, NEW d, NEW X, GoodChan(c), GoodChan(d), Guarded("client", c), Answer("client", c, d, X)
  PROVE  /\ c.pending # None /\ d.pending # None /\ c.pending.hello.num > 0 /\ c.pending.id = NoId
         /\ d.pending.id # NoId /\ d.pending.hello = c.pending.hello
         /\ \E m \in Said("server") : m.type = "ServerHello" /\ d.pending.id = <<c.pending.hello.num, m.body.num>>
         /\ \A z \in X : z \in Items /\ z.type = "Finished" => Len(z.body.hash) >= 2 /\ IdOf(z.body.hash) = d.pending.id
<1> DEFINE x == c.pending
           y == d.pending
<1>1. x # None /\ "ServerHello" \in x.expecting /\ y # None /\ y.hello = x.hello
  BY DEF Answer
<1>2. PICK m \in Said("server") :
        /\ m.type = "ServerHello" /\ m \in Items /\ y.id = <<x.hello.num, m.body.num>>
        /\ \A z \in X : \/ z.type \in {"ClientKeyExchange", CCS}
                        \/ z.type = "Finished" /\ Longer(Append(x.hash, Hashed(m)), z.body.hash)
  BY DEF Answer
<1>3. x.hello.num > 0 /\ x.id = NoId /\ Len(x.hash) = 1 /\ x.hash[1][3] = x.hello.num
  BY <1>1 DEF Guarded, Staged
<1>4. x.hash \in Transcripts /\ x.hello.num \in Nat
  BY <1>1, BodyFacts DEF GoodChan, GoodPending
<1>5. y.id # NoId
  BY <1>2, <1>3, <1>4 DEF NoId
<1>6. ASSUME NEW z \in X, z \in Items, z.type = "Finished" PROVE Len(z.body.hash) >= 2 /\ IdOf(z.body.hash) = y.id
  <2>1. Longer(Append(x.hash, Hashed(m)), z.body.hash) /\ z.body.hash \in Transcripts
    BY <1>2, <1>6, ItemsAre, BodyFacts DEF CCS
  <2>2. Len(z.body.hash) >= 2 /\ z.body.hash[1] = x.hash[1] /\ z.body.hash[2][3] = m.body.num
    BY <1>2, <1>3, <1>4, <2>1, HellosFacts
  <2> QED
    BY <1>2, <1>3, <2>2 DEF IdOf
<1> QED
  BY <1>1, <1>2, <1>3, <1>5, <1>6

\* The numbers of the client's handshakes.
ClientNumbered(c, n) ==
  /\ c.active # None => c.active.id # NoId /\ c.active.id[2] <= n /\ c.active.id[1] <= c.active.id[2]
  /\ c.pending # None => c.pending.hello.num <= n /\ c.pending.id[2] <= n
  /\ c.active # None /\ c.pending # None =>
       c.pending.hello.num = 0 \/ c.active.id[2] < c.pending.hello.num

\* ... and of the server's.
ServerNumbered(c, n) ==
  /\ c.active # None => c.active.id # NoId /\ c.active.id[2] <= n
  /\ c.pending # None /\ c.pending.id # NoId =>
       0 < c.pending.id[1] /\ c.pending.id[1] <= c.pending.id[2] /\ c.pending.id[2] <= n

LEMMA ChanNumbers ==
  ASSUME NEW c, GoodChan(c)
  PROVE  /\ c.active # None => c.active.id[1] \in Nat /\ c.active.id[2] \in Nat
         /\ c.pending # None => c.pending.id[1] \in Nat /\ c.pending.id[2] \in Nat /\ c.pending.hello.num \in Nat
BY IdFacts, BodyFacts DEF GoodChan, GoodPending

LEMMA ClientNumbers ==
  ASSUME NEW c, NEW d, GoodChan(c), GoodChan(d), Guarded("client", c), NEW X, Move("client", c, d, X),
         fresh \in Nat, fresh' \in Nat, fresh' >= fresh, ClientNumbered(c, fresh),
         \A x \in Said("server") : x.type = "ServerHello" => x.body.num <= fresh /\ x.body.num \in Nat,
         \A x \in Said("server") : Proves(x) => IdOf(x.body.hash)[1] <= IdOf(x.body.hash)[2]
  PROVE  ClientNumbered(d, fresh')
<1> DEFINE p == "client"
           n == fresh'
<1>1. /\ c.active # None => c.active.id[1] \in Nat /\ c.active.id[2] \in Nat
      /\ c.pending # None => c.pending.id[1] \in Nat /\ c.pending.id[2] \in Nat /\ c.pending.hello.num \in Nat
  BY ChanNumbers
<1>2. ClientNumbered(c, n)
  BY <1>1 DEF ClientNumbered
<1>3. CASE Keep(c, d, X)
  BY <1>2, <1>3 DEF Keep, ClientNumbered, SameActive, SameHello
<1>4. CASE Die(d, X) \/ Drop(p, c, d, X)
  BY <1>2, <1>4 DEF Die, Drop, ClientNumbered, SameChan, SameActive
<1>5. CASE Begin(p, c, d, X)
  BY <1>2, <1>5, BodyFacts DEF Begin, ClientNumbered, SameChan, SameActive, NoId
<1>6. CASE Greet(p, c, d, X)
  <2>1. d.pending # None /\ d.pending.hello.num = n /\ n = fresh + 1
    BY <1>6 DEF Greet, HelloSent
  <2>2. CASE /\ SameChan(c, d) /\ c.active # None /\ c.pending = None
             /\ d.pending.id = NoId /\ d.pending.before = <<c.read, c.write>>
    BY <1>1, <2>1, <2>2 DEF ClientNumbered, SameChan, SameActive, NoId
  <2>3. CASE /\ SameChan(c, d) /\ c.active # None /\ c.pending # None /\ c.pending.hello = NoBody
             /\ d.pending.id = c.pending.id /\ d.pending.before = c.pending.before
    BY <1>1, <2>1, <2>3 DEF ClientNumbered, SameChan, SameActive
  <2>4. CASE d.active = None /\ ~d.closed /\ d.pending.id = NoId
    BY <1>1, <2>1, <2>4 DEF ClientNumbered, NoId
  <2> QED
    BY <1>6, <2>2, <2>3, <2>4 DEF Greet
<1>7. CASE Again(p, c, d, X)
  BY <1>2, <1>7 DEF Again, HelloSent, ClientNumbered, SameChan, SameActive
<1>8. CASE Stick(p, c, d, X)
  BY <1>2, <1>8 DEF Stick, ClientNumbered, SameChan, SameActive, SameHello
<1>9. CASE Answer(p, c, d, X)
  <2>1. c.pending # None /\ d.pending # None /\ d.pending.hello = c.pending.hello
    BY <1>9, AnswerProves
  <2>2. PICK m \in Said("server") : m.type = "ServerHello" /\ d.pending.id = <<c.pending.hello.num, m.body.num>>
    BY <1>9, AnswerProves
  <2>3. d.pending.id[2] <= n
    BY <2>2
  <2>4. SameActive(c, d)
    BY <1>9 DEF Answer
  <2> QED
    BY <1>2, <2>1, <2>3, <2>4 DEF ClientNumbered, SameActive
<1>10. CASE Verify(p, c, d, X) \/ Accept(p, c, d, X) \/ Exchange(p, c, d, X)
  BY <1>10 DEF Verify, Accept, Exchange
<1>11. CASE Change(c, d, X)
  BY <1>2, <1>11 DEF Change, ClientNumbered, SameActive, SameHello
<1>12. CASE Finish(p, c, d, X)
  <2>1. p \in Sides /\ Peer(p) = "server"
    BY DEF Sides, Peer
  <2>2. c.pending # None /\ \E m \in Said("server") : Proves(m) /\ IdOf(m.body.hash) = c.pending.id
    BY <1>12, <2>1, FinishProves
  <2>3. c.pending.id[1] <= c.pending.id[2]
    BY <2>2
  <2>4. d.active.id = c.pending.id /\ d.pending = None /\ "Finished" \in c.pending.expecting
    BY <1>12 DEF Finish
  <2>5. c.pending.id # NoId
    BY <2>2, <2>4 DEF Guarded, Staged
  <2> QED
    BY <1>2, <2>2, <2>3, <2>4, <2>5 DEF ClientNumbered
<1> QED
  BY <1>3, <1>4, <1>5, <1>6, <1>7, <1>8, <1>9, <1>10, <1>11, <1>12 DEF Move

LEMMA ServerNumbers ==
  ASSUME NEW c, NEW d, GoodChan(c), GoodChan(d), Guarded("server", c), NEW X, Move("server", c, d, X),
         fresh \in Nat, fresh' \in Nat, fresh' >= fresh, ServerNumbered(c, fresh),
         \A x \in Said("client") : x.type = "ClientHello" => x.body.num \in Nat /\ 0 < x.body.num /\ x.body.num <= fresh,
         \A x \in Said("client") : Proves(x) => IdOf(x.body.hash) # NoId
  PROVE  ServerNumbered(d, fresh')
<1> DEFINE p == "server"
           n == fresh'
<1>1. /\ c.active # None => c.active.id[1] \in Nat /\ c.active.id[2] \in Nat
      /\ c.pending # None => c.pending.id[1] \in Nat /\ c.pending.id[2] \in Nat
  BY ChanNumbers
<1>2. ServerNumbered(c, n)
  BY <1>1 DEF ServerNumbered
<1>3. CASE Keep(c, d, X)
  BY <1>2, <1>3 DEF Keep, ServerNumbered, SameActive, SameHello
<1>4. CASE Die(d, X) \/ Drop(p, c, d, X)
  BY <1>2, <1>4 DEF Die, Drop, ServerNumbered, SameChan, SameActive
<1>5. CASE Begin(p, c, d, X)
  BY <1>2, <1>5 DEF Begin, ServerNumbered, SameChan, SameActive
<1>6. CASE Greet(p, c, d, X) \/ Again(p, c, d, X) \/ Answer(p, c, d, X)
  BY <1>6 DEF Greet, Again, Answer
<1>7. CASE Stick(p, c, d, X)
  BY <1>2, <1>7 DEF Stick, ServerNumbered, SameChan, SameActive, SameHello, Restarted
<1>8. CASE Verify(p, c, d, X)
  BY <1>2, <1>8 DEF Verify, ServerNumbered, SameChan, SameActive, SameHello
<1>9. CASE Accept(p, c, d, X)
  <2>1. d.pending.id[2] = n /\ n = fresh + 1 /\ \E m \in Said("client") : m.type = "ClientHello" /\ d.pending.id[1] = m.body.num
    BY <1>9 DEF Accept
  <2>2. 0 < d.pending.id[1] /\ d.pending.id[1] <= d.pending.id[2] /\ d.pending.id[2] <= n
    BY <2>1
  <2>3. SameChan(c, d) \/ Restarted(c, d)
    BY <1>9 DEF Accept
  <2> QED
    BY <1>2, <2>2, <2>3 DEF ServerNumbered, SameChan, SameActive, Restarted
<1>10. CASE Exchange(p, c, d, X)
  BY <1>2, <1>10 DEF Exchange, ServerNumbered, SameChan, SameActive, SameHello
<1>11. CASE Change(c, d, X)
  BY <1>2, <1>11 DEF Change, ServerNumbered, SameActive, SameHello
<1>12. CASE Finish(p, c, d, X)
  <2>1. p \in Sides /\ Peer(p) = "client"
    BY DEF Sides, Peer
  <2>2. c.pending # None /\ \E m \in Said("client") : Proves(m) /\ IdOf(m.body.hash) = c.pending.id
    BY <1>12, <2>1, FinishProves
  <2>3. c.pending.id # NoId
    BY <2>2
  <2>4. d.active.id = c.pending.id /\ d.pending = None
    BY <1>12 DEF Finish
  <2> QED
    BY <1>2, <2>2, <2>3, <2>4 DEF ServerNumbered
<1> QED
  BY <1>3, <1>4, <1>5, <1>6, <1>7, <1>8, <1>9, <1>10, <1>11, <1>12 DEF Move

\* What has been said of hellos and of handshakes done.
LEMMA SaidNumbers ==
  ASSUME Typed, Numbered
  PROVE  /\ ClientNumbered(chan["client"], fresh) /\ ServerNumbered(chan["server"], fresh)
         /\ \A x \in Said("client") : x.type = "ClientHello" => x.body.num \in Nat /\ 0 < x.body.num /\ x.body.num <= fresh
         /\ \A x \in Said("server") : x.type = "ServerHello" => x.body.num <= fresh /\ x.body.num \in Nat
         /\ \A p \in Sides : \A x \in Said(p) : Proves(x) =>
              /\ x \in Items /\ Len(x.body.hash) >= 2 /\ IdOf(x.body.hash) \in Pairs
              /\ IdOf(x.body.hash)[2] <= fresh /\ IdOf(x.body.hash) # NoId
         /\ \A x \in Said("server") : Proves(x) => 0 < IdOf(x.body.hash)[1] /\ IdOf(x.body.hash)[1] <= IdOf(x.body.hash)[2]
<1>1. "client" \in Sides /\ "server" \in Sides
  BY DEF Sides
<1>2. ClientNumbered(chan["client"], fresh) /\ ServerNumbered(chan["server"], fresh)
  BY <1>1 DEF Numbered, ClientNumbered, ServerNumbered
<1>3. \A p \in Sides : \A x \in Said(p) : x.body \in Bodies /\ x.body.num \in Nat /\ x.body.hash \in Transcripts
  BY SaidTyped, ItemsAre, BodyFacts
<1>4. ASSUME NEW p \in Sides, NEW x \in Said(p), Proves(x)
      PROVE  /\ x \in Items /\ Len(x.body.hash) >= 2 /\ IdOf(x.body.hash) \in Pairs
             /\ IdOf(x.body.hash)[2] <= fresh /\ IdOf(x.body.hash) # NoId
  <2>1. Len(x.body.hash) >= 2 /\ IdOf(x.body.hash)[2] <= fresh /\ IdOf(x.body.hash) # NoId
    BY <1>4 DEF Numbered
  <2>2. x \in Items
    BY <1>4, SaidTyped, Disjoint DEF Proves, MsgTypes
  <2> QED
    BY <1>3, <2>1, <2>2, IdFacts
<1>5. \A x \in Said("client") : x.type = "ClientHello" => x.body.num \in Nat /\ 0 < x.body.num /\ x.body.num <= fresh
  BY <1>1, <1>3 DEF Numbered
<1>6. \A x \in Said("server") : x.type = "ServerHello" => x.body.num <= fresh /\ x.body.num \in Nat
  BY <1>1, <1>3 DEF Numbered
<1>7. \A x \in Said("server") : Proves(x) => 0 < IdOf(x.body.hash)[1] /\ IdOf(x.body.hash)[1] <= IdOf(x.body.hash)[2]
  BY DEF Numbered
<1> QED
  BY <1>2, <1>4, <1>5, <1>6, <1>7

LEMMA SaidTypedNext == Typed' => (\A p \in Sides : Said(p) \subseteq Items \cup Notes)'
<1>1. Typed => \A p \in Sides : Said(p) \subseteq Items \cup Notes
  BY SaidTyped
<1> QED
  BY <1>1, PTL

\* What a Finished that is sent now is about: the handshake that the sender is in.
LEMMA NewProof ==
  ASSUME Typed, Typed', Protected, NEW p \in Sides, NEW X, Step(p, X), Move(p, chan[p], chan'[p], X),
         NEW x \in Said(p)', x \in X, Proves(x)
  PROVE  /\ x \in Items /\ Len(x.body.hash) >= 2
         /\ \/ p = "client" /\ Answer(p, chan[p], chan'[p], X) /\ IdOf(x.body.hash) = chan'[p].pending.id
            \/ p = "server" /\ Finish(p, chan[p], chan'[p], X) /\ IdOf(x.body.hash) = chan[p].pending.id
<1> DEFINE c == chan[p]
           d == chan'[p]
<1>1. GoodChan(c) /\ GoodChan(d) /\ Guarded(p, c)
  BY ProtectedIsGuarded DEF Typed
<1>2. x \in Items /\ x.type = "Finished" /\ x.body.hash \in Transcripts
  <2>1. Said(p)' \subseteq Items \cup Notes
    BY SaidTypedNext
  <2>2. x \in Items
    BY <2>1, Disjoint DEF Proves, MsgTypes
  <2> QED
    BY <2>2, ItemsAre, BodyFacts DEF Proves
<1>3. CASE Answer(p, c, d, X)
  <2>1. p = "client"
    BY <1>3 DEF Answer
  <2>2. Len(x.body.hash) >= 2 /\ IdOf(x.body.hash) = d.pending.id
    BY <1>1, <1>2, <1>3, <2>1, AnswerProves
  <2> QED
    BY <1>2, <1>3, <2>1, <2>2
<1>4. CASE p = "server" /\ Finish(p, c, d, X)
  <2>1. Longer(c.pending.hash, x.body.hash)
    BY <1>2, <1>4 DEF Finish, CCS
  <2>2. GoodPending(c.pending) /\ Len(c.pending.hash) >= 2 /\ c.pending.id = IdOf(c.pending.hash)
    BY <1>1, <1>4, FinishProves
  <2>3. Len(x.body.hash) >= 2 /\ IdOf(x.body.hash) = c.pending.id
    BY <1>2, <2>1, <2>2, IdFacts DEF GoodPending
  <2> QED
    BY <1>2, <1>4, <2>3
<1> QED
  BY <1>2, <1>3, <1>4, MoveSays

LEMMA NumberedStep ==
  ASSUME Typed, Typed', Protected, Numbered, Moves
  PROVE  Numbered'
<1>0. PICK p \in Sides : \E X : Step(p, X) /\ Move(p, chan[p], chan'[p], X)
  BY DEF Moves
<1>1. PICK X : Step(p, X) /\ Move(p, chan[p], chan'[p], X)
  BY <1>0
<1> DEFINE c == chan[p]
           d == chan'[p]
           n == fresh'
<1>2. /\ "client" \in Sides /\ "server" \in Sides /\ Peer("server") = "client" /\ Peer("client") = "server"
      /\ p = "client" \/ p = "server"
  BY DEF Sides, Peer
<1>3. /\ fresh \in Nat /\ n \in Nat /\ n >= fresh /\ chan'[Peer(p)] = chan[Peer(p)]
      /\ \A s \in Sides : GoodChan(chan[s]) /\ GoodChan(chan'[s]) /\ Guarded(s, chan[s])
  BY <1>1, ProtectedIsGuarded DEF Step, Typed
<1>4. \A s \in Sides : \A x \in Said(s)' : x \in Said(s) \/ (s = p /\ x \in X)
  BY <1>1, PeerFacts DEF Step
<1>5. ClientNumbered(chan'["client"], n)
  <2>1. CASE p = "client"
    BY <1>1, <1>2, <1>3, <2>1, SaidNumbers, ClientNumbers
  <2>2. CASE p = "server"
    <3>1. ClientNumbered(chan["client"], fresh) /\ chan'["client"] = chan["client"]
      BY <1>2, <1>3, <2>2, SaidNumbers
    <3>2. GoodChan(chan["client"])
      BY <1>2, <1>3
    <3> QED
      BY <1>3, <3>1, <3>2, ChanNumbers DEF ClientNumbered
  <2> QED
    BY <1>2, <2>1, <2>2
<1>6. ServerNumbered(chan'["server"], n)
  <2>1. CASE p = "server"
    <3>1. \A x \in Said("client") : Proves(x) => IdOf(x.body.hash) # NoId
      BY <1>2, SaidNumbers
    <3> QED
      BY <1>1, <1>2, <1>3, <2>1, <3>1, SaidNumbers, ServerNumbers
  <2>2. CASE p = "client"
    <3>1. ServerNumbered(chan["server"], fresh) /\ chan'["server"] = chan["server"]
      BY <1>2, <1>3, <2>2, SaidNumbers
    <3>2. GoodChan(chan["server"])
      BY <1>2, <1>3
    <3> QED
      BY <1>3, <3>1, <3>2, ChanNumbers DEF ServerNumbered
  <2> QED
    BY <1>2, <2>1, <2>2
<1>7. ASSUME NEW x \in Said("client")', x.type = "ClientHello" PROVE 0 < x.body.num /\ x.body.num <= n
  <2>1. CASE x \in Said("client")
    BY <1>3, <1>7, <2>1, SaidNumbers
  <2>2. CASE p = "client" /\ x \in X
    <3>1. CASE Greet(p, c, d, X)
      BY <1>3, <1>7, <2>2, <3>1 DEF Greet, HelloSent
    <3>2. CASE Again(p, c, d, X)
      <4>1. x.body.num = c.pending.hello.num /\ c.pending # None /\ "HelloVerifyRequest" \in c.pending.expecting
        BY <2>2, <3>2 DEF Again, HelloSent
      <4>2. c.pending.hello.num > 0
        BY <1>3, <2>2, <4>1 DEF Guarded, Staged
      <4>3. c.pending.hello.num <= fresh
        BY <2>2, <4>1 DEF Numbered
      <4>4. c.pending.hello.num \in Nat
        BY <1>3, <4>1, ChanNumbers
      <4> QED
        BY <1>3, <4>1, <4>2, <4>3, <4>4
    <3> QED
      BY <1>1, <1>7, <2>2, <3>1, <3>2, MoveSays
  <2> QED
    BY <1>2, <1>4, <1>7, <2>1, <2>2
<1>8. ASSUME NEW x \in Said("server")', x.type = "ServerHello" PROVE x.body.num <= n
  <2>1. CASE x \in Said("server")
    BY <1>3, <1>8, <2>1, SaidNumbers
  <2>2. CASE p = "server" /\ x \in X
    <3>1. Accept(p, c, d, X)
      BY <1>1, <1>8, <2>2, MoveSays
    <3> QED
      BY <1>3, <2>2, <3>1 DEF Accept
  <2> QED
    BY <1>2, <1>4, <1>8, <2>1, <2>2
<1>9. ASSUME NEW s \in Sides, NEW x \in Said(s)', Proves(x)
      PROVE  /\ Len(x.body.hash) >= 2 /\ IdOf(x.body.hash)[2] <= n /\ IdOf(x.body.hash) # NoId
             /\ s = "server" => 0 < IdOf(x.body.hash)[1] /\ IdOf(x.body.hash)[1] <= IdOf(x.body.hash)[2]
  <2>1. CASE x \in Said(s)
    <3>1. /\ Len(x.body.hash) >= 2 /\ IdOf(x.body.hash) \in Pairs
          /\ IdOf(x.body.hash)[2] <= fresh /\ IdOf(x.body.hash) # NoId
      BY <1>9, <2>1, SaidNumbers
    <3>2. IdOf(x.body.hash)[2] \in Nat
      BY <3>1, IdFacts
    <3> QED
      BY <1>3, <1>9, <2>1, <3>1, <3>2, SaidNumbers
  <2>2. CASE s = p /\ x \in X
    <3>1. /\ Len(x.body.hash) >= 2
          /\ \/ p = "client" /\ Answer(p, c, d, X) /\ IdOf(x.body.hash) = d.pending.id
             \/ p = "server" /\ Finish(p, c, d, X) /\ IdOf(x.body.hash) = c.pending.id
      BY <1>1, <1>9, <2>2, NewProof
    <3>2. CASE p = "client" /\ Answer(p, c, d, X) /\ IdOf(x.body.hash) = d.pending.id
      <4>1. d.pending # None /\ d.pending.id # NoId
        BY <1>3, <3>2, AnswerProves
      <4>2. d.pending.id[2] <= n
        BY <1>5, <3>2, <4>1 DEF ClientNumbered
      <4> QED
        BY <2>2, <3>1, <3>2, <4>1, <4>2
    <3>3. CASE p = "server" /\ Finish(p, c, d, X) /\ IdOf(x.body.hash) = c.pending.id
      <4>1. c.pending # None /\ \E m \in Said("client") : Proves(m) /\ IdOf(m.body.hash) = c.pending.id
        BY <1>2, <1>3, <3>3, FinishProves
      <4>2. c.pending.id # NoId
        BY <1>2, <4>1, SaidNumbers
      <4>3. 0 < c.pending.id[1] /\ c.pending.id[1] <= c.pending.id[2] /\ c.pending.id[2] <= fresh
        BY <3>3, <4>1, <4>2, SaidNumbers DEF ServerNumbered
      <4>4. c.pending.id[2] \in Nat
        BY <1>3, <4>1, ChanNumbers
      <4> QED
        BY <1>3, <3>1, <3>3, <4>2, <4>3, <4>4
    <3> QED
      BY <3>1, <3>2, <3>3
  <2> QED
    BY <1>4, <1>9, <2>1, <2>2
<1>10. \A s \in Sides : chan'[s].active # None => chan'[s].active.id # NoId /\ chan'[s].active.id[2] <= n
  BY <1>5, <1>6 DEF Sides, ClientNumbered, ServerNumbered
<1>11. /\ LET e == chan'["client"]
          IN  /\ e.pending # None => e.pending.hello.num <= n /\ e.pending.id[2] <= n
              /\ e.active # None => e.active.id[1] <= e.active.id[2]
              /\ e.active # None /\ e.pending # None =>
                   e.pending.hello.num = 0 \/ e.active.id[2] < e.pending.hello.num
       /\ LET e == chan'["server"]
          IN  e.pending # None /\ e.pending.id # NoId =>
                0 < e.pending.id[1] /\ e.pending.id[1] <= e.pending.id[2] /\ e.pending.id[2] <= n
  BY <1>5, <1>6 DEF ClientNumbered, ServerNumbered
<1>12. /\ \A s \in Sides : \A x \in Said(s)' : Proves(x) =>
            Len(x.body.hash) >= 2 /\ IdOf(x.body.hash)[2] <= n /\ IdOf(x.body.hash) # NoId
       /\ \A x \in Said("server")' : Proves(x) => 0 < IdOf(x.body.hash)[1] /\ IdOf(x.body.hash)[1] <= IdOf(x.body.hash)[2]
  BY <1>2, <1>9
<1> QED
  BY <1>7, <1>8, <1>10, <1>11, <1>12 DEF Numbered

\* The client does not leave a handshake that it has committed itself to but for a later one.
LEMMA StaysCommitted ==
  ASSUME NEW c, NEW d, GoodChan(c), GoodChan(d), Guarded("client", c), NEW X, Move("client", c, d, X),
         fresh \in Nat, ClientNumbered(c, fresh),
         \A x \in Said("server") : x.type = "NoRenegotiation" => Unanswered(c),
         \A x \in Said("server") : Proves(x) => 0 < IdOf(x.body.hash)[1],
         NEW id \in Pairs, id # NoId, id[2] <= fresh, Committed(c, id)
  PROVE  Committed(d, id)
<1> DEFINE p == "client"
<1>1. /\ c.active # None => c.active.id[1] \in Nat /\ c.active.id[2] \in Nat
      /\ c.pending # None => c.pending.id[1] \in Nat /\ c.pending.id[2] \in Nat /\ c.pending.hello.num \in Nat
      /\ id[1] \in Nat /\ id[2] \in Nat
  BY ChanNumbers, IdFacts
<1>2. CASE Keep(c, d, X)
  BY <1>2 DEF Keep, Committed, SameActive, SameHello
<1>3. CASE Die(d, X)
  BY <1>3 DEF Die, Committed
<1>4. CASE Begin(p, c, d, X)
  BY <1>4, BodyFacts DEF Begin, Committed, SameChan, SameActive
<1>5. CASE Drop(p, c, d, X)
  <2>1. SameChan(c, d) /\ c.active # None /\ d.pending = None
    BY <1>5 DEF Drop
  <2>2. c.pending # None => c.pending.id = NoId
    <3> SUFFICES ASSUME c.pending # None PROVE c.pending.id = NoId
      OBVIOUS
    <3>1. CASE \E x \in Said(Peer(p)) : x.type = "NoRenegotiation"
      BY <2>1, <3>1 DEF Unanswered, Peer
    <3>2. CASE c.pending.before = <<c.read, c.write>>
      <4>1. c.write \in Nat /\ (c.pending.id # NoId => c.pending.before[2] < c.write)
        BY <2>1 DEF Guarded, Staged, GoodChan
      <4> QED
        BY <3>2, <4>1
    <3>3. CASE c.pending.hello = NoBody
      BY <3>3 DEF Guarded, Staged
    <3> QED
      BY <1>5, <3>1, <3>2, <3>3 DEF Drop
  <2> QED
    BY <2>1, <2>2 DEF Committed, SameChan, SameActive
<1>6. CASE Greet(p, c, d, X)
  <2>1. d.pending # None /\ d.pending.hello.num = fresh + 1 /\ id[2] < fresh + 1
    BY <1>1, <1>6 DEF Greet, HelloSent
  <2>2. CASE SameChan(c, d) /\ c.active # None /\ c.pending = None
    BY <2>1, <2>2 DEF Committed, SameChan, SameActive
  <2>3. CASE SameChan(c, d) /\ c.active # None /\ c.pending # None /\ c.pending.hello = NoBody
    <3>1. c.pending.id = NoId
      BY <2>3 DEF Guarded, Staged
    <3> QED
      BY <2>1, <2>3, <3>1 DEF Committed, SameChan, SameActive
  <2>4. CASE d.active = None
    BY <2>1, <2>4 DEF Committed
  <2> QED
    BY <1>6, <2>2, <2>3, <2>4 DEF Greet
<1>7. CASE Again(p, c, d, X)
  BY <1>7 DEF Again, HelloSent, Committed, SameChan, SameActive
<1>8. CASE Stick(p, c, d, X)
  BY <1>8 DEF Stick, Committed, SameChan, SameActive, SameHello
<1>9. CASE Answer(p, c, d, X)
  <2>1. c.pending # None /\ c.pending.id = NoId /\ d.pending.hello = c.pending.hello
    BY <1>9, AnswerProves
  <2>2. SameActive(c, d) /\ d.closed = c.closed
    BY <1>9 DEF Answer
  <2> QED
    BY <2>1, <2>2 DEF Committed, SameActive
<1>10. CASE Verify(p, c, d, X) \/ Accept(p, c, d, X) \/ Exchange(p, c, d, X)
  BY <1>10 DEF Verify, Accept, Exchange
<1>11. CASE Change(c, d, X)
  BY <1>11 DEF Change, Committed, SameActive, SameHello
<1>12. CASE Finish(p, c, d, X)
  <2>1. p \in Sides /\ Peer(p) = "server"
    BY DEF Sides, Peer
  <2>2. c.pending # None /\ \E m \in Said("server") : Proves(m) /\ IdOf(m.body.hash) = c.pending.id
    BY <1>12, <2>1, FinishProves
  <2>3. d.active # None /\ d.active.id = c.pending.id /\ d.pending = None /\ d.closed = c.closed
        /\ "Finished" \in c.pending.expecting
    BY <1>12 DEF Finish
  <2>4. c.pending.id[1] = c.pending.hello.num /\ 0 < c.pending.hello.num
    BY <2>2, <2>3 DEF Guarded, Staged
  <2>5. c.active # None => c.active.id[2] < c.pending.hello.num
    BY <1>1, <2>2, <2>4 DEF ClientNumbered
  <2> QED
    BY <1>1, <2>2, <2>3, <2>4, <2>5 DEF Committed
<1> QED
  BY <1>2, <1>3, <1>4, <1>5, <1>6, <1>7, <1>8, <1>9, <1>10, <1>11, <1>12 DEF Move

\* The server does not fall back behind a handshake that it has completed.
LEMMA StaysCompleted ==
  ASSUME NEW c, NEW d, GoodChan(c), GoodChan(d), Guarded("server", c), NEW X, Move("server", c, d, X),
         fresh \in Nat, \A x \in Said("client") : Proves(x) => IdOf(x.body.hash) # NoId,
         NEW id \in Pairs, id[2] <= fresh, Completed(c, id)
  PROVE  Completed(d, id)
<1> DEFINE p == "server"
<1>1. id[2] \in Nat
  BY IdFacts
<1>2. CASE Keep(c, d, X)
  BY <1>2 DEF Keep, Completed, SameActive, SameHello
<1>3. CASE Die(d, X)
  BY <1>3 DEF Die, Completed
<1>4. CASE Begin(p, c, d, X)
  BY <1>4 DEF Begin, Completed, SameChan, SameActive
<1>5. CASE Drop(p, c, d, X)
  BY <1>5 DEF Drop, Completed, SameChan, SameActive
<1>6. CASE Greet(p, c, d, X) \/ Again(p, c, d, X) \/ Answer(p, c, d, X)
  BY <1>6 DEF Greet, Again, Answer
<1>7. CASE Stick(p, c, d, X)
  BY <1>7 DEF Stick, Completed, SameChan, SameActive, SameHello, Restarted
<1>8. CASE Verify(p, c, d, X)
  BY <1>8 DEF Verify, Completed, SameChan, SameActive, SameHello
<1>9. CASE Accept(p, c, d, X)
  <2>1. d.pending.id[2] = fresh + 1 /\ (SameChan(c, d) \/ Restarted(c, d))
    BY <1>9 DEF Accept
  <2>2. id[2] < d.pending.id[2]
    BY <1>1, <2>1
  <2> QED
    BY <2>1, <2>2 DEF Completed, SameChan, SameActive, Restarted
<1>10. CASE Exchange(p, c, d, X)
  BY <1>10 DEF Exchange, Completed, SameChan, SameActive, SameHello
<1>11. CASE Change(c, d, X)
  BY <1>11 DEF Change, Completed, SameActive, SameHello
<1>12. CASE Finish(p, c, d, X)
  <2>1. p \in Sides /\ Peer(p) = "client"
    BY DEF Sides, Peer
  <2>2. c.pending # None /\ \E m \in Said("client") : Proves(m) /\ IdOf(m.body.hash) = c.pending.id
    BY <1>12, <2>1, FinishProves
  <2>3. c.pending.id # NoId
    BY <2>2
  <2>4. d.active.id = c.pending.id /\ d.pending = None /\ d.closed = c.closed
    BY <1>12 DEF Finish
  <2> QED
    BY <2>2, <2>3, <2>4 DEF Completed
<1> QED
  BY <1>2, <1>3, <1>4, <1>5, <1>6, <1>7, <1>8, <1>9, <1>10, <1>11, <1>12 DEF Move

\* An association is kept, given up, or replaced by a handshake that is finished.
LEMMA MoveActive ==
  ASSUME NEW p, NEW c, NEW d, NEW X, Move(p, c, d, X), d.active # None
  PROVE  \/ c.active # None /\ d.active.id = c.active.id
         \/ Finish(p, c, d, X)
<1>1. CASE Keep(c, d, X) \/ Die(d, X) \/ Begin(p, c, d, X) \/ Drop(p, c, d, X)
  BY <1>1 DEF Keep, Die, Begin, Drop, SameChan, SameActive
<1>2. CASE Greet(p, c, d, X) \/ Again(p, c, d, X)
  BY <1>2 DEF Greet, Again, SameChan, SameActive
<1>3. CASE Stick(p, c, d, X) \/ Answer(p, c, d, X) \/ Change(c, d, X)
  BY <1>3 DEF Stick, Answer, Change, SameChan, SameActive, Restarted
<1>4. CASE Verify(p, c, d, X) \/ Accept(p, c, d, X) \/ Exchange(p, c, d, X)
  BY <1>4 DEF Verify, Accept, Exchange, SameChan, SameActive, Restarted
<1> QED
  BY <1>1, <1>2, <1>3, <1>4 DEF Move

LEMMA AgreeingStep ==
  ASSUME Typed, Typed', Protected, Policed, Numbered, Agreeing, Moves
  PROVE  Agreeing'
<1>0. PICK p \in Sides : \E X : Step(p, X) /\ Move(p, chan[p], chan'[p], X)
  BY DEF Moves
<1>1. PICK X : Step(p, X) /\ Move(p, chan[p], chan'[p], X)
  BY <1>0
<1> DEFINE c == chan[p]
           d == chan'[p]
           cl == chan["client"]
           sv == chan["server"]
           cl1 == chan'["client"]
           sv1 == chan'["server"]
<1>2. /\ "client" \in Sides /\ "server" \in Sides /\ Peer("server") = "client" /\ Peer("client") = "server"
      /\ p = "client" \/ p = "server"
  BY DEF Sides, Peer
<1>3. /\ fresh \in Nat /\ chan'[Peer(p)] = chan[Peer(p)]
      /\ \A s \in Sides : GoodChan(chan[s]) /\ GoodChan(chan'[s]) /\ Guarded(s, chan[s])
  BY <1>1, ProtectedIsGuarded DEF Step, Typed
<1>4. \A s \in Sides : \A x \in Said(s)' : x \in Said(s) \/ (s = p /\ x \in X)
  BY <1>1, PeerFacts DEF Step
<1>5. \A s \in Sides : chan[s].active # None =>
        chan[s].active.id \in Pairs /\ chan[s].active.id # NoId /\ chan[s].active.id[2] <= fresh
  BY <1>3 DEF Numbered, GoodChan
<1>6. ASSUME NEW id \in Pairs, id # NoId, id[2] <= fresh, Committed(cl, id) PROVE Committed(cl1, id)
  <2>1. CASE p = "server"
    BY <1>2, <1>3, <1>6, <2>1
  <2>2. CASE p = "client"
    <3>1. \A x \in Said("server") : x.type = "NoRenegotiation" => Unanswered(cl)
      BY DEF Policed, Unanswered
    <3>2. \A x \in Said("server") : Proves(x) => 0 < IdOf(x.body.hash)[1]
      BY DEF Numbered
    <3>3. ClientNumbered(cl, fresh)
      BY SaidNumbers
    <3>4. GoodChan(cl) /\ GoodChan(cl1) /\ Guarded("client", cl) /\ Move("client", cl, cl1, X)
      BY <1>1, <1>2, <1>3, <2>2
    <3> QED
      BY <1>3, <1>6, <3>1, <3>2, <3>3, <3>4, StaysCommitted
  <2> QED
    BY <1>2, <2>1, <2>2
<1>7. ASSUME NEW id \in Pairs, id[2] <= fresh, Completed(sv, id) PROVE Completed(sv1, id)
  <2>1. CASE p = "client"
    BY <1>2, <1>3, <1>7, <2>1
  <2>2. CASE p = "server"
    <3>1. \A x \in Said("client") : Proves(x) => IdOf(x.body.hash) # NoId
      BY <1>2, SaidNumbers
    <3>2. GoodChan(sv) /\ GoodChan(sv1) /\ Guarded("server", sv) /\ Move("server", sv, sv1, X)
      BY <1>1, <1>2, <1>3, <2>2
    <3> QED
      BY <1>3, <1>7, <3>1, <3>2, StaysCompleted
  <2> QED
    BY <1>2, <2>1, <2>2
<1>8. ASSUME NEW x \in Said("client")', Proves(x) PROVE Committed(cl1, IdOf(x.body.hash))
  <2>1. CASE x \in Said("client")
    <3>1. Committed(cl, IdOf(x.body.hash))
      BY <1>8, <2>1 DEF Agreeing
    <3>2. IdOf(x.body.hash) \in Pairs /\ IdOf(x.body.hash) # NoId /\ IdOf(x.body.hash)[2] <= fresh
      BY <1>2, <1>8, <2>1, SaidNumbers
    <3> QED
      BY <1>6, <3>1, <3>2
  <2>2. CASE p = "client" /\ x \in X
    <3>1. Answer(p, c, d, X) /\ IdOf(x.body.hash) = d.pending.id
      BY <1>1, <1>8, <2>2, NewProof
    <3>2. d.pending # None
      BY <3>1 DEF Answer
    <3> QED
      BY <2>2, <3>1, <3>2 DEF Committed
  <2> QED
    BY <1>2, <1>4, <1>8, <2>1, <2>2
<1>9. ASSUME NEW x \in Said("server")', Proves(x) PROVE Completed(sv1, IdOf(x.body.hash))
  <2>1. CASE x \in Said("server")
    <3>1. Completed(sv, IdOf(x.body.hash))
      BY <1>9, <2>1 DEF Agreeing
    <3>2. IdOf(x.body.hash) \in Pairs /\ IdOf(x.body.hash)[2] <= fresh
      BY <1>2, <1>9, <2>1, SaidNumbers
    <3> QED
      BY <1>7, <3>1, <3>2
  <2>2. CASE p = "server" /\ x \in X
    <3>1. Finish(p, c, d, X) /\ IdOf(x.body.hash) = c.pending.id
      BY <1>1, <1>9, <2>2, NewProof
    <3> QED
      BY <2>2, <3>1 DEF Finish, Completed
  <2> QED
    BY <1>2, <1>4, <1>9, <2>1, <2>2
<1>10. sv1.active # None => Committed(cl1, sv1.active.id)
  <2> SUFFICES ASSUME sv1.active # None PROVE Committed(cl1, sv1.active.id)
    OBVIOUS
  <2>1. CASE sv.active # None /\ sv1.active.id = sv.active.id
    <3>1. Committed(cl, sv.active.id)
      BY <2>1 DEF Agreeing
    <3> QED
      BY <1>2, <1>5, <1>6, <2>1, <3>1
  <2>2. CASE p = "server" /\ Finish(p, c, d, X)
    <3>1. PICK m \in Said("client") : Proves(m) /\ IdOf(m.body.hash) = c.pending.id
      BY <1>2, <1>3, <2>2, FinishProves
    <3>2. sv1.active.id = IdOf(m.body.hash)
      BY <2>2, <3>1 DEF Finish
    <3>3. Committed(cl, IdOf(m.body.hash))
      BY <3>1 DEF Agreeing
    <3>4. IdOf(m.body.hash) \in Pairs /\ IdOf(m.body.hash) # NoId /\ IdOf(m.body.hash)[2] <= fresh
      BY <1>2, <3>1, SaidNumbers
    <3> QED
      BY <1>6, <3>2, <3>3, <3>4
  <2>3. CASE p = "client"
    BY <1>2, <1>3, <2>1, <2>3
  <2> QED
    BY <1>1, <1>2, <2>1, <2>2, <2>3, MoveActive
<1>11. cl1.active # None => Completed(sv1, cl1.active.id)
  <2> SUFFICES ASSUME cl1.active # None PROVE Completed(sv1, cl1.active.id)
    OBVIOUS
  <2>1. CASE cl.active # None /\ cl1.active.id = cl.active.id
    <3>1. Completed(sv, cl.active.id)
      BY <2>1 DEF Agreeing
    <3> QED
      BY <1>2, <1>5, <1>7, <2>1, <3>1
  <2>2. CASE p = "client" /\ Finish(p, c, d, X)
    <3>1. PICK m \in Said("server") : Proves(m) /\ IdOf(m.body.hash) = c.pending.id
      BY <1>2, <1>3, <2>2, FinishProves
    <3>2. cl1.active.id = IdOf(m.body.hash)
      BY <2>2, <3>1 DEF Finish
    <3>3. Completed(sv, IdOf(m.body.hash))
      BY <3>1 DEF Agreeing
    <3>4. IdOf(m.body.hash) \in Pairs /\ IdOf(m.body.hash)[2] <= fresh
      BY <1>2, <3>1, SaidNumbers
    <3> QED
      BY <1>7, <3>2, <3>3, <3>4
  <2>3. CASE p = "server"
    BY <1>2, <1>3, <2>1, <2>3
  <2> QED
    BY <1>1, <1>2, <2>1, <2>2, <2>3, MoveActive
<1> QED
  BY <1>8, <1>9, <1>10, <1>11 DEF Agreeing

\* The inductive invariant of agreement.
Agreed == Stable /\ Policed /\ Numbered /\ Agreeing

LEMMA InitAgreed ==
  ASSUME Init
  PROVE  Agreed
<1>1. Stable
  BY InitTyped DEF Stable
<1>2. "client" \in Sides /\ "server" \in Sides /\ <<1, 1>> # NoId
  BY DEF Sides, NoId
<1>3. \A p \in Sides : \A x \in Said(p) : ~Proves(x)
  <2>1. NoBody.hash = <<>>
    BY BodyFacts
  <2> QED
    BY <2>1, InitSaid DEF Proves, Sides, CCS
<1>4. Policed
  <2>1. \A x \in Said("server") : x.type # "NoRenegotiation" /\ x.type # "ServerHello"
    BY InitSaid DEF CCS
  <2> QED
    BY <1>2, <2>1, InitFacts DEF Policed
<1>5. \A p \in Sides : chan[p].pending = None /\ chan[p].active.id = <<1, 1>> /\ chan[p].active # None
  BY InitFacts
<1>6. Numbered
  <2>1. \A x \in Said("client") : x.type = "ClientHello" => x.body.num = 1
    BY InitSaid DEF CCS
  <2>2. \A x \in Said("server") : x.type # "ServerHello"
    BY InitSaid DEF CCS
  <2>3. fresh = 1
    BY InitFacts
  <2>4. PICK id : id = <<1, 1>>
    OBVIOUS
  <2>5. id[1] = 1 /\ id[2] = 1 /\ id # NoId
    BY <2>4, <1>2
  <2>6. \A p \in Sides : chan[p].pending = None /\ chan[p].active.id = id
    BY <1>5, <2>4
  <2>7. \A p \in Sides : chan[p].active.id # NoId /\ chan[p].active.id[2] <= fresh
    BY <2>3, <2>5, <2>6
  <2>8. chan["client"].active.id[1] <= chan["client"].active.id[2]
    BY <1>2, <2>5, <2>6
  <2>9. \A x \in Said("client") : x.type = "ClientHello" => 0 < x.body.num /\ x.body.num <= fresh
    BY <2>1, <2>3
  <2> QED
    BY <1>2, <1>3, <2>6, <2>7, <2>8, <2>9, <2>2 DEF Numbered
<1>7. Agreeing
  BY <1>2, <1>3, <1>5 DEF Agreeing, Committed, Completed
<1> QED
  BY <1>1, <1>4, <1>6, <1>7 DEF Agreed

\* Agreed is an inductive invariant: whoever has proved a handshake with a
\* Finished is in it, past it, or closed, on either side.
THEOREM AlwaysAgreed == Spec => []Agreed
<1>1. Init => Agreed
  BY InitAgreed
<1>2. Agreed /\ [Next]_vars => Agreed'
  <2> SUFFICES ASSUME Agreed, [Next]_vars PROVE Agreed'
    OBVIOUS
  <2>1. Stable' /\ Moves
    BY StableStep DEF Agreed
  <2>2. Typed /\ Typed' /\ Protected
    BY <2>1 DEF Agreed, Stable
  <2> QED
    BY <2>1, <2>2, PolicedStep, NumberedStep, AgreeingStep DEF Agreed
<1> QED
  BY <1>1, <1>2, PTL DEF Spec

\* Two sides that both have an association and nothing pending have the same
\* one, for every policy and every order of renegotiation, refusal and restart.
THEOREM SidesAgreed == Spec => []SidesAgree
<1>1. Agreed => SidesAgree
  <2> SUFFICES ASSUME Agreed, \A p \in Sides : Quiet(chan[p])
               PROVE  chan["client"].active.id = chan["server"].active.id
    BY DEF SidesAgree
  <2> DEFINE cl == chan["client"]
             sv == chan["server"]
  <2>1. /\ ~cl.closed /\ cl.active # None /\ cl.pending = None
        /\ ~sv.closed /\ sv.active # None /\ sv.pending = None
    BY DEF Sides, Quiet
  <2>2. cl.active.id = sv.active.id \/ sv.active.id[2] < cl.active.id[1]
    BY <2>1 DEF Agreed, Agreeing, Committed
  <2>3. sv.active.id = cl.active.id \/ cl.active.id[2] < sv.active.id[2]
    BY <2>1 DEF Agreed, Agreeing, Completed
  <2>4. cl.active.id[1] <= cl.active.id[2]
    BY <2>1 DEF Agreed, Numbered
  <2>5. cl.active.id[1] \in Nat /\ cl.active.id[2] \in Nat /\ sv.active.id[2] \in Nat
    <3>1. GoodChan(cl) /\ GoodChan(sv)
      BY DEF Agreed, Stable, Typed, Sides
    <3> QED
      BY <2>1, <3>1, ChanNumbers
  <2> QED
    BY <2>2, <2>3, <2>4, <2>5
<1> QED
  BY <1>1, AlwaysAgreed, PTL

-----------------------------------------------------------------------------
(* AllKeyed: which keys are in use.                                        *)

\* Pruning never takes the keys of the newest epoch.
LEMMA NextKeysFacts ==
  ASSUME NEW keys, NEW n \in Nat, NEW id, Keyring(keys, n)
  PROVE  Keyring(NextKeys(keys, n, id), n + 1) /\ NextKeys(keys, n, id)[n + 1] = id
<1>1. PICK all : all = With(keys, n + 1, id)
  OBVIOUS
<1>2. DOMAIN all = DOMAIN keys \cup {n + 1} /\ all[n + 1] = id
  BY <1>1 DEF With
<1>3. DOMAIN all \subseteq 0..(n + 1) /\ n + 1 \in DOMAIN all
  BY <1>2 DEF Keyring
<1>4. Max(DOMAIN all) = n + 1
  <2>1. \A e \in DOMAIN all : n + 1 >= e
    BY <1>3
  <2>2. \A e \in DOMAIN all : (\A f \in DOMAIN all : e >= f) => e = n + 1
    BY <1>3
  <2> QED
    BY <1>3, <2>1, <2>2 DEF Max
<1>5. PICK left : left = {0} \cup {f \in DOMAIN all : f + 1 >= n + 1}
  OBVIOUS
<1>6. NextKeys(keys, n, id) = [e \in left |-> all[e]]
  BY <1>1, <1>4, <1>5 DEF NextKeys, Prune
<1>7. n + 1 \in left /\ left \subseteq 0..(n + 1)
  BY <1>3, <1>5
<1> QED
  BY <1>2, <1>6, <1>7 DEF Keyring

LEMMA NoKeysFacts == Keyring(NoKeys, 0)
BY DEF Keyring, NoKeys

\* What a move needs to know of the other side when it drops a handshake.
Refusable(p, c) ==
  /\ p = "client" /\ ~policy.server_reneg /\ ~policy.abort => Unanswered(c)
  /\ p = "client" /\ (\E x \in Said("server") : x.type = "NoRenegotiation") => Unanswered(c)
  /\ p = "server" /\ (\E x \in Said("client") : x.type = "NoRenegotiation") => Unaccepted(c)

LEMMA DropKeeps ==
  ASSUME NEW p \in Sides, NEW c, NEW d, NEW X, GoodChan(c), Refusable(p, c), Keyed(p, c), Drop(p, c, d, X)
  PROVE  Keyed(p, d)
<1>1. SameChan(c, d) /\ c.active # None /\ d.pending = None
  BY DEF Drop
<1>2. c.pending # None => c.pending.before = <<c.read, c.write>>
  <2>1. CASE \E x \in Said(Peer(p)) : x.type = "NoRenegotiation"
    BY <1>1, <2>1 DEF Refusable, Unanswered, Unaccepted, Sides, Peer
  <2>2. CASE c.pending # None /\ c.pending.before = <<c.read, c.write>>
    BY <2>2
  <2>3. CASE p = "server" /\ c.pending # None /\ "ClientHello" \in c.pending.expecting
    BY <1>1, <2>3 DEF Keyed, Uses
  <2>4. CASE p = "client" /\ ~policy.server_reneg /\ ~policy.abort
    BY <1>1, <2>4 DEF Refusable, Unanswered
  <2> QED
    BY <2>1, <2>2, <2>3, <2>4 DEF Drop
<1>3. PICK r, w : r = c.read /\ w = c.write
  OBVIOUS
<1>4. c.pending # None => c.pending.before[1] = r /\ c.pending.before[2] = w
  BY <1>2, <1>3
<1>5. c.read_keys[c.read] = c.active.id /\ c.write_keys[c.write] = c.active.id
  BY <1>1, <1>3, <1>4 DEF Keyed, Uses
<1> QED
  BY <1>1, <1>5 DEF Keyed, Uses, SameChan, SameActive, SameKeys

LEMMA MoveKeeps ==
  ASSUME NEW p \in Sides, NEW c, NEW d, GoodChan(c), GoodChan(d), NEW X, Move(p, c, d, X), Refusable(p, c),
         c.closed \/ Keyed(p, c), ~d.closed
  PROVE  Keyed(p, d)
<1>1. c.read \in Nat /\ c.write \in Nat /\ d.read \in Nat /\ d.write \in Nat
  BY DEF GoodChan
<1>2. c.pending # None => c.pending.before[1] \in Nat /\ c.pending.before[2] \in Nat
  BY DEF GoodChan, GoodPending, Pairs
<1>3. PICK b : b = <<c.read, c.write>>
  OBVIOUS
<1>4. b[1] = c.read /\ b[2] = c.write
  BY <1>3
<1>5. CASE c.closed
  <2>1. d.active = None /\ HelloSent(d.pending, X, fresh + 1) /\ d.read = 0 /\ d.write = 0
        /\ d.read_keys = NoKeys /\ d.write_keys = NoKeys
    <3>1. ~Keep(c, d, X) /\ ~Die(d, X)
      BY <1>5 DEF Keep, Die
    <3>2. ~SameChan(c, d)
      BY <1>5 DEF SameChan
    <3>3. ~Restarted(c, d) /\ d.closed # c.closed
      BY <1>5 DEF Restarted
    <3>4. Greet(p, c, d, X)
      BY <3>1, <3>2, <3>3 DEF Move, Begin, Drop, Again, Stick, Answer, Verify, Accept, Exchange, Change, Finish
    <3> QED
      BY <3>2, <3>4 DEF Greet
  <2> QED
    BY <2>1, NoKeysFacts DEF Keyed, Uses, HelloSent, CCS
<1> SUFFICES ASSUME Keyed(p, c) PROVE Keyed(p, d)
  BY <1>5
<1>6. CASE Keep(c, d, X)
  BY <1>6 DEF Keep, Keyed, Uses, SameActive, SameKeys, SameHello
<1>7. CASE Die(d, X)
  BY <1>7 DEF Die
<1>8. CASE Drop(p, c, d, X)
  BY <1>8, DropKeeps
<1>9. CASE Begin(p, c, d, X)
  <2>1. d.pending.before = b
    BY <1>3, <1>9 DEF Begin
  <2> QED
    BY <1>1, <1>3, <1>4, <1>9, <2>1 DEF Begin, Keyed, Uses, SameChan, SameActive, SameKeys, CCS
<1>10. CASE Greet(p, c, d, X)
  <2>1. d.pending # None /\ d.pending.expecting = {"HelloVerifyRequest", "ServerHello"}
    BY <1>10 DEF Greet, HelloSent
  <2>2. CASE SameChan(c, d) /\ c.active # None /\ c.pending = None /\ d.pending.before = <<c.read, c.write>>
    BY <1>1, <1>3, <1>4, <2>1, <2>2 DEF Keyed, Uses, SameChan, SameActive, SameKeys, CCS
  <2>3. CASE SameChan(c, d) /\ c.active # None /\ c.pending # None /\ d.pending.before = c.pending.before
    BY <2>1, <2>3 DEF Keyed, Uses, SameChan, SameActive, SameKeys, CCS
  <2>4. CASE d.active = None /\ d.read = 0 /\ d.write = 0 /\ d.read_keys = NoKeys /\ d.write_keys = NoKeys
    BY <2>1, <2>4, NoKeysFacts DEF Keyed, Uses, CCS
  <2> QED
    BY <1>10, <2>2, <2>3, <2>4 DEF Greet
<1>11. CASE Again(p, c, d, X)
  BY <1>11 DEF Again, HelloSent, Keyed, Uses, SameChan, SameActive, SameKeys, CCS
<1>12. CASE Stick(p, c, d, X)
  <2>1. CASE SameChan(c, d)
    BY <1>12, <2>1 DEF Stick, Keyed, Uses, SameChan, SameActive, SameKeys, SameHello
  <2>2. CASE ~SameChan(c, d)
    BY <1>12, <2>2, NoKeysFacts DEF Stick, Restarted, Keyed, Uses
  <2> QED
    BY <2>1, <2>2
<1>13. CASE Answer(p, c, d, X)
  <2>1. d.write = c.write + 1 /\ d.write_keys = NextKeys(c.write_keys, c.write, d.pending.id)
    BY <1>13 DEF Answer
  <2>2. Keyring(d.write_keys, d.write) /\ d.write_keys[d.write] = d.pending.id
    BY <1>1, <2>1, NextKeysFacts DEF Keyed
  <2>3. /\ d.pending # None /\ d.pending.expecting = {CCS} /\ d.pending.before = c.pending.before
        /\ SameActive(c, d) /\ c.pending # None /\ d.read = c.read /\ d.read_keys = c.read_keys
    BY <1>13 DEF Answer
  <2> QED
    BY <1>1, <1>2, <2>1, <2>2, <2>3 DEF Keyed, Uses, SameActive, CCS
<1>14. CASE Verify(p, c, d, X) \/ Exchange(p, c, d, X)
  BY <1>14 DEF Verify, Exchange, Keyed, Uses, SameChan, SameActive, SameKeys, SameHello, CCS, Sides
<1>15. CASE Accept(p, c, d, X)
  <2>1. d.pending # None /\ d.pending.expecting = {"ClientKeyExchange"} /\ d.pending.before = c.pending.before
        /\ c.pending # None
    BY <1>15 DEF Accept
  <2>2. CASE SameChan(c, d)
    BY <2>1, <2>2 DEF Keyed, Uses, SameChan, SameActive, SameKeys, CCS
  <2>3. CASE Restarted(c, d)
    BY <2>1, <2>3, NoKeysFacts DEF Restarted, Keyed, Uses, CCS
  <2> QED
    BY <1>15, <2>2, <2>3 DEF Accept
<1>16. CASE Change(c, d, X)
  <2>1. d.read = c.read + 1 /\ d.read_keys = NextKeys(c.read_keys, c.read, c.pending.id)
    BY <1>16 DEF Change
  <2>2. Keyring(d.read_keys, d.read) /\ d.read_keys[d.read] = c.pending.id
    BY <1>1, <2>1, NextKeysFacts DEF Keyed
  <2>3. /\ d.pending # None /\ d.pending.expecting = {"Finished"} /\ SameHello(c.pending, d.pending)
        /\ SameActive(c, d) /\ c.pending # None /\ d.write = c.write /\ d.write_keys = c.write_keys
        /\ CCS \in c.pending.expecting
    BY <1>16 DEF Change
  <2> QED
    BY <1>1, <1>2, <2>1, <2>2, <2>3 DEF Keyed, Uses, SameActive, SameHello
<1>17. CASE Finish(p, c, d, X)
  <2>1. /\ d.active # None /\ d.active.id = c.pending.id /\ d.pending = None /\ c.pending # None
        /\ d.read = c.read /\ d.read_keys = c.read_keys /\ "Finished" \in c.pending.expecting
    BY <1>17 DEF Finish
  <2>2. d.read_keys[d.read] = d.active.id /\ Keyring(d.read_keys, d.read)
    BY <2>1 DEF Keyed, Uses
  <2>3. d.write_keys[d.write] = d.active.id /\ Keyring(d.write_keys, d.write)
    <3>1. CASE p = "client"
      BY <1>17, <2>1, <3>1 DEF Finish, Keyed, Uses
    <3>2. CASE p = "server"
      <4>1. d.write = c.write + 1 /\ d.write_keys = NextKeys(c.write_keys, c.write, c.pending.id)
        BY <1>17, <3>2 DEF Finish
      <4> QED
        BY <1>1, <2>1, <4>1, NextKeysFacts DEF Keyed
    <3> QED
      BY <3>1, <3>2 DEF Sides
  <2> QED
    BY <2>1, <2>2, <2>3 DEF Keyed, Uses
<1> QED
  BY <1>6, <1>7, <1>8, <1>9, <1>10, <1>11, <1>12, <1>13, <1>14, <1>15, <1>16, <1>17 DEF Move

LEMMA MoveUnaccepted ==
  ASSUME NEW c, NEW d, GoodChan(c), GoodChan(d), NEW X, Move("server", c, d, X), ~policy.client_reneg, Unaccepted(c)
  PROVE  Unaccepted(d)
<1> DEFINE p == "server"
<1>1. CASE Keep(c, d, X)
  BY <1>1 DEF Keep, Unaccepted, SameActive, SameKeys, SameHello
<1>2. CASE Die(d, X) \/ Drop(p, c, d, X) \/ Finish(p, c, d, X)
  BY <1>2 DEF Die, Drop, Finish, Unaccepted
<1>3. CASE Begin(p, c, d, X)
  BY <1>3 DEF Begin, Unaccepted, SameChan, SameActive, SameKeys, CCS
<1>4. CASE Greet(p, c, d, X) \/ Again(p, c, d, X) \/ Answer(p, c, d, X)
  BY <1>4 DEF Greet, Again, Answer
<1>5. CASE Stick(p, c, d, X)
  BY <1>5 DEF Stick, Restarted, Unaccepted, SameChan, SameActive, SameKeys, SameHello
<1>6. CASE Verify(p, c, d, X)
  BY <1>6 DEF Verify, Unaccepted, SameChan, SameActive, SameKeys, SameHello, CCS
<1>7. CASE Accept(p, c, d, X)
  BY <1>7 DEF Accept, Unaccepted
<1>8. CASE Exchange(p, c, d, X)
  BY <1>8 DEF Exchange, Unaccepted, SameChan, SameActive
<1>9. CASE Change(c, d, X)
  BY <1>9 DEF Change, Unaccepted, SameActive
<1> QED
  BY <1>1, <1>2, <1>3, <1>4, <1>5, <1>6, <1>7, <1>8, <1>9 DEF Move

\* A client that refuses the server's HelloRequest closes, or its server does not
\* accept the client's renegotiations either.
Firm == \A pol \in Policies : pol.server_reneg \/ pol.abort \/ ~pol.client_reneg

LEMMA KeyedStep ==
  ASSUME Firm, Typed, Typed', Policed, AllKeyed, Moves
  PROVE  AllKeyed'
<1>0. PICK p \in Sides : \E X : Step(p, X) /\ Move(p, chan[p], chan'[p], X)
  BY DEF Moves
<1>1. PICK X : Step(p, X) /\ Move(p, chan[p], chan'[p], X)
  BY <1>0
<1>2. "client" \in Sides /\ "server" \in Sides /\ Peer("server") = "client" /\ Peer("client") = "server"
  BY DEF Sides, Peer
<1>3. policy' = policy /\ chan'[Peer(p)] = chan[Peer(p)]
  BY <1>1 DEF Step
<1>4. policy.server_reneg \/ policy.abort \/ ~policy.client_reneg
  BY DEF Firm, Typed
<1>5. policy.client_reneg => \A x \in Said("client")' : x.type # "NoRenegotiation"
  <2> SUFFICES ASSUME policy.client_reneg, NEW x \in Said("client")' PROVE x.type # "NoRenegotiation"
    OBVIOUS
  <2>1. x \in Said("client") \/ (p = "client" /\ x \in X)
    BY <1>1, <1>2, PeerFacts DEF Step
  <2>2. p = "client" /\ x \in X => x.type # "NoRenegotiation"
    BY <1>1, <1>4, MoveSays
  <2> QED
    BY <2>1, <2>2 DEF AllKeyed
<1>6. Refusable(p, chan[p])
  <2>1. ~policy.client_reneg => Unanswered(chan["client"])
    BY DEF Policed, Unanswered
  <2>2. (\E x \in Said("server") : x.type = "NoRenegotiation") => ~policy.client_reneg
    BY DEF Policed
  <2>3. (\E x \in Said("client") : x.type = "NoRenegotiation") => Unaccepted(chan["server"])
    BY DEF AllKeyed
  <2> QED
    BY <1>4, <2>1, <2>2, <2>3 DEF Refusable
<1>7. ~chan'[p].closed => Keyed(p, chan'[p])
  <2>1. GoodChan(chan[p]) /\ GoodChan(chan'[p])
    BY DEF Typed
  <2>2. chan[p].closed \/ Keyed(p, chan[p])
    BY DEF AllKeyed
  <2> QED
    BY <1>1, <1>6, <2>1, <2>2, MoveKeeps
<1>8. \A s \in Sides : ~chan'[s].closed => Keyed(s, chan'[s])
  BY <1>3, <1>7, PeerFacts DEF AllKeyed
<1>9. ~policy.client_reneg => Unaccepted(chan'["server"])
  <2>1. CASE p = "server"
    <3>1. GoodChan(chan["server"]) /\ GoodChan(chan'["server"])
      BY <1>2 DEF Typed
    <3> QED
      BY <1>1, <2>1, <3>1, MoveUnaccepted DEF AllKeyed
  <2>2. CASE p = "client"
    BY <1>2, <1>3, <2>2 DEF AllKeyed
  <2> QED
    BY <2>1, <2>2 DEF Sides
<1> QED
  BY <1>3, <1>5, <1>8, <1>9 DEF AllKeyed, Unaccepted

LEMMA InitKeyed ==
  ASSUME Init
  PROVE  AllKeyed
<1>1. ASSUME NEW p \in Sides PROVE Keyed(p, chan[p])
  <2>1. PICK c, id, k : c = chan[p] /\ id = <<1, 1>> /\ k = With(NoKeys, 1, id)
    OBVIOUS
  <2>2. /\ c.active # None /\ c.pending = None /\ c.read = 1 /\ c.write = 1 /\ c.active.id = id
        /\ c.read_keys = k /\ c.write_keys = k
    BY <2>1, InitFacts
  <2>3. DOMAIN k = {0} \cup {1} /\ k[1] = id
    BY <2>1 DEF With, NoKeys
  <2>4. Keyring(k, 1)
    BY <2>3 DEF Keyring
  <2> QED
    BY <2>1, <2>2, <2>3, <2>4 DEF Keyed, Uses
<1>2. \A x \in Said("client") : x.type # "NoRenegotiation"
  BY InitSaid DEF CCS
<1>3. Unaccepted(chan["server"])
  BY InitFacts DEF Unaccepted, Sides
<1> QED
  BY <1>1, <1>2, <1>3 DEF AllKeyed

\* An association with nothing pending has its epochs and its keys from the handshake
\* that is active, under the library's default policy and every other one but this: a
\* client that refuses its server's HelloRequest with a mere warning, at a server that
\* welcomes the client's own renegotiation.  There the statement is false: the warning
\* may come late, and then takes away a handshake for which keys have been changed.
THEOREM KeysAreOfOneHandshake ==
  ASSUME Firm
  PROVE  Spec => []OneHandshake
<1>1. Init => AllKeyed
  BY InitKeyed
<1>2. Agreed /\ AllKeyed /\ [Next]_vars => AllKeyed'
  <2> SUFFICES ASSUME Agreed, AllKeyed, [Next]_vars PROVE AllKeyed'
    OBVIOUS
  <2>1. Stable' /\ Moves
    BY StableStep DEF Agreed
  <2>2. Typed /\ Typed' /\ Policed
    BY <2>1 DEF Agreed, Stable
  <2> QED
    BY <2>1, <2>2, KeyedStep
<1>3. AllKeyed => OneHandshake
  BY DEF AllKeyed, Keyed, Uses, OneHandshake, Quiet
<1> QED
  BY <1>1, <1>2, <1>3, AlwaysAgreed, PTL DEF Spec
=============================================================================
