----------------------------- MODULE Channel12 -----------------------------
(***************************************************************************)
(* Channel_Impl_12 after a DTLS 1.2 association has been established:      *)
(* renegotiation from either end, its refusal, association restart by a    *)
(* client that has lost its state, application data, alerts, closure and   *)
(* abandoned handshakes, over a network that loses, delays and reorders    *)
(* records.  What is in question is the state the channel keeps of up to   *)
(* two handshakes at once: the active one, the pending one, the epochs and *)
(* the keys of each epoch.                                                 *)
(*                                                                         *)
(* The handshakes use DatagramHandshakeIO and are full ones; the messages  *)
(* from ServerHello to ServerHelloDone, which make one flight and change   *)
(* nothing in the channel, are one message, since DtlsHandshake has them   *)
(* all.  Keys are named by the pair of hellos they come from, so that they *)
(* are equal at both ends exactly if the randoms were.  Records of epoch 0 *)
(* may be delivered any number of times, others once for each time they    *)
(* were sent (DtlsRecordLayer).  The session store is left out.            *)
(***************************************************************************)
EXTENDS DatagramHandshakeIO

CONSTANTS Policies,      \* what the two sides are set up for, see Policy
          Calls,         \* what the applications do: some of "renegotiate", "send", "close", "reconnect"
          MaxCalls,      \* bound: the number of such calls
          MaxHandshakes, \* bound: hellos, of clients and servers
          MaxOld         \* bound: older records that survive the sending of others

\* allow_dtls_epoch0_restart(), allow_client_initiated_renegotiation() of the
\* server, allow_server_initiated_renegotiation() of the client,
\* abort_connection_on_undesired_renegotiation(), dtls_maximum_retransmissions().
\* The server requires the cookie exchange.
Policy == [restart : BOOLEAN, client_reneg : BOOLEAN, server_reneg : BOOLEAN,
           abort : BOOLEAN, limit : Nat]

ASSUME Channel12Assumption ==
  /\ Policies \subseteq Policy
  /\ MaxCalls \in Nat /\ MaxHandshakes \in Nat \ {0} /\ MaxOld \in Nat
  /\ \A type \in {"ClientHello", "HelloVerifyRequest", "ServerHello", "ClientKeyExchange",
                   "Finished", "HelloRequest"} : MsgLength[type] \in Nat

\* No active or pending state.
None == <<>>

Sides == {"client", "server"}
Peer(p) == IF p = "client" THEN "server" ELSE "client"

VARIABLES policy,  \* a member of Policies, chosen once
          net,     \* the records in the network
          chan,    \* chan[p]: the channel of p
          working, \* the side that is processing a record, if any, and the record's epoch
          fresh,   \* number of the last hello
          calls    \* calls made so far

vars == <<policy, net, chan, working, fresh, calls>>

\* What a message says, as far as it matters: its number if it is a hello, the
\* cookie and the renegotiation_info of a hello, the transcript of a Finished.
NoId == <<0, 0>>
NoBody == [num |-> 0, cookie |-> FALSE, info |-> NoId, hash |-> <<>>]

\* Item of a flight that is sent first or only.
Item(type, seq, epoch, body) == [type |-> type, seq |-> seq, epoch |-> epoch, body |-> body]

\* Alerts and application data are records, and nothing of a handshake.
Alerts == {"NoRenegotiation", "CloseNotify", "Fatal"}
Plain(type, epoch) == [type |-> type, seq |-> 0, epoch |-> epoch, body |-> NoBody, len |-> 0, bytes |-> {}]

\* The records that channel c of p sends under the keys it has for their epochs.
Wire(p, c, recs) == {[from |-> p, rec |-> r, key |-> c.write_keys[r.epoch]] : r \in recs}

\* The keys of an association that begins: epoch 0 has none.
NoKeys == [e \in {0} |-> NoId]

-----------------------------------------------------------------------------
(* The association of handshake 1, as DtlsHandshake leaves it, with some   *)
(* record that a side sent in its cookie exchange still in the network.    *)

ActiveIO(p) ==
  LET seq == IF p = "server" THEN 2 ELSE 3
  IN  [NewIO EXCEPT !.flights = << <<Item(CCS, 0, 0, NoBody), Item("Finished", seq, 1, NoBody)>>, <<>> >>,
                    !.in = IF p = "server" THEN 4 ELSE 3,
                    !.out = seq + 1, !.ccs_epochs = {0},
                    !.finished = TRUE, !.terminal = p = "server"]

Hello(num, cookie, info) == [NoBody EXCEPT !.num = num, !.cookie = cookie, !.info = info]

OldRecords ==
  LET records(p, items) == UNION {Wire(p, [write_keys |-> NoKeys], Fragments(i)) : i \in items}
  IN  records("client", {Item("ClientHello", 0, 0, Hello(1, FALSE, NoId)),
                         Item("ClientHello", 1, 0, Hello(1, TRUE, NoId))}) \cup
      records("server", {Item("HelloVerifyRequest", 0, 0, NoBody)})

Init ==
  /\ policy \in Policies
  /\ net \in {S \in SUBSET OldRecords : Cardinality(S) = MaxOld}
  /\ chan = [p \in Sides |->
       [active |-> [id |-> <<1, 1>>, io |-> ActiveIO(p)], pending |-> None,
        read |-> 1, write |-> 1, closed |-> FALSE,
        read_keys |-> With(NoKeys, 1, <<1, 1>>), write_keys |-> With(NoKeys, 1, <<1, 1>>)]]
  /\ working = {}
  /\ fresh = 1
  /\ calls = 0

-----------------------------------------------------------------------------
(* Steps that end in a new channel state, or in an exception.              *)

\* Records ws enter the network n; of the older ones MaxOld survive.
PutInto(n, ws) ==
  IF ws = {} THEN net' = n
  ELSE \E old \in SUBSET (n \ ws) :
         /\ Cardinality(old) = Min({MaxOld, Cardinality(n \ ws)})
         /\ net' = old \cup ws

\* reset_state()
Reset(c) == [c EXCEPT !.active = None, !.pending = None, !.read_keys = <<>>, !.write_keys = <<>>]

\* Mutants of Abandon: the writing side is forgotten, or the pending handshake
\* is dropped wherever it stands.
AbandonIfUnread(c) ==
  IF c.active # None /\ c.pending.before[1] = c.read
  THEN [c EXCEPT !.pending = None]
  ELSE [Reset(c) EXCEPT !.closed = TRUE]

AbandonAlways(c) ==
  IF c.active # None THEN [c EXCEPT !.pending = None] ELSE [Reset(c) EXCEPT !.closed = TRUE]

\* abandon_timed_out_handshake() and pending_handshake_epochs_unmoved()
Abandon(c) ==
  IF c.active # None /\ c.pending.before = <<c.read, c.write>>
  THEN [c EXCEPT !.pending = None]
  ELSE [Reset(c) EXCEPT !.closed = TRUE]

\* send_alert(): the record, and what becomes of the channel.
AlertRecord(p, c, type) ==
  IF c.closed THEN {} ELSE Wire(p, c, {Plain(type, c.write)})
AfterAlert(c, type) ==
  CASE type = "NoRenegotiation" -> IF c.active # None THEN [c EXCEPT !.pending = None] ELSE c
    [] type = "CloseNotify" -> [c EXCEPT !.closed = TRUE]
    [] type = "Fatal" -> [Reset(c) EXCEPT !.closed = TRUE]

\* Channel c replaces that of p, whose handler sends ws, with n left in the network.
Become(p, c, n, ws) ==
  /\ chan' = [chan EXCEPT ![p] = c]
  /\ PutInto(n, ws)

\* An exception leaves from_peer().
Throw(p, n) ==
  /\ Become(p, AfterAlert(chan[p], "Fatal"), n, AlertRecord(p, chan[p], "Fatal"))
  /\ working' = {}
  /\ UNCHANGED <<policy, fresh, calls>>

-----------------------------------------------------------------------------
(* The handshake: m is the message, q the handshake IO it was taken from.  *)

\* create_handshake_state()
NewPending(p, c) ==
  [io |-> NewIO, expecting |-> IF p = "server" THEN {"ClientHello"} ELSE {},
   hash |-> <<>>, hello |-> NoBody, id |-> NoId, before |-> <<c.read, c.write>>]

Hashed(i) == <<i.type, i.seq, i.body.num>>
ActiveId(c) == IF c.active = None THEN NoId ELSE c.active.id

\* secure_renegotiation_check(): the renegotiation_info of a hello is that of the
\* active association, or empty without one.
SecureRenegotiation(c, m) == m.body.info = ActiveId(c)

\* send_client_hello(), with the cookie if one was asked for.
SendHello(c, pend, q, num, cookie) ==
  LET item == Item("ClientHello", q.out, c.write, Hello(num, cookie, ActiveId(c)))
  IN  [pending |-> [pend EXCEPT !.io = Send(q, <<item>>), !.hash = <<Hashed(item)>>, !.hello = item.body,
                                !.expecting = {"HelloVerifyRequest", "ServerHello"}],
       recs |-> Fragments(item)]

\* prune_old_cipher_states(): epoch 0 and the two newest ones.
Prune(keys) == [e \in {0} \cup {f \in DOMAIN keys : f + 1 >= Max(DOMAIN keys)} |-> keys[e]]

\* change_cipher_spec_reader() and change_cipher_spec_writer()
NextRead(c, id) == [c EXCEPT !.read = @ + 1, !.read_keys = Prune(With(@, c.read + 1, id))]
NextWrite(c, id) == [c EXCEPT !.write = @ + 1, !.write_keys = Prune(With(@, c.write + 1, id))]

\* activate_session(): the server sent the last flight.
Activate(p, c, q) ==
  [c EXCEPT !.active = [id |-> c.pending.id, io |-> Finalize(q, p = "server")], !.pending = None]

\* Mutant of ResetAssociation: the active state is kept.
ResetAssociationKeepsActive(c) ==
  [c EXCEPT !.read = 0, !.write = 0, !.read_keys = NoKeys, !.write_keys = NoKeys]

\* reset_active_association_state()
ResetAssociation(c) ==
  [c EXCEPT !.active = None, !.read = 0, !.write = 0, !.read_keys = NoKeys, !.write_keys = NoKeys]

\* The outcome of a handler: c is the new state of the channel, recs are sent, an
\* alert is sent last, with what that does to the channel, or it throws.
Outcome(c, recs) == [throws |-> FALSE, c |-> c, recs |-> recs, alert |-> {}]
Exception(c) == [Outcome(c, {}) EXCEPT !.throws = TRUE]
Refused(c) == IF policy.abort THEN Exception(c) ELSE [Outcome(c, {}) EXCEPT !.alert = {"NoRenegotiation"}]

\* HelloRequest at a client that has an association.
HelloRequest(c, q) ==
  LET s == SendHello(c, c.pending, q, fresh + 1, FALSE)
  IN  IF c.pending.hello # NoBody THEN Outcome(c, {})
      ELSE IF ~policy.server_reneg THEN Refused(c)
      ELSE Outcome([c EXCEPT !.pending = s.pending], s.recs)

HelloVerifyRequest(c, q) ==
  LET s == SendHello(c, c.pending, q, c.pending.hello.num, TRUE)
  IN  Outcome([c EXCEPT !.pending = s.pending], s.recs)

\* ServerHello to ServerHelloDone: the client's keys are known, its flight is sent.
ServerHello(c, m, q) ==
  LET id    == <<c.pending.hello.num, m.body.num>>
      hash  == Append(c.pending.hash, Hashed(m))
      key   == Item("ClientKeyExchange", q.out, c.write, NoBody)
      ccs   == Item(CCS, 0, c.write, NoBody)
      fin   == Item("Finished", q.out + 1, c.write + 1, [NoBody EXCEPT !.hash = Append(hash, Hashed(key))])
      items == <<key, ccs, fin>>
  IN  IF HaveMoreData(q) \/ ~SecureRenegotiation(c, m) THEN Exception(c)
      ELSE Outcome([NextWrite(c, id) EXCEPT
                      !.pending = [@ EXCEPT !.io = Send(q, items), !.id = id, !.expecting = {CCS},
                                            !.hash = Append(Append(hash, Hashed(key)), Hashed(fin))]],
                   Records(items))

\* process_client_hello_msg()
ClientHello(c0, m, q, restart) ==
  LET initial == restart \/ c0.active = None
      verify  == Item("HelloVerifyRequest", HelloVerifySeq(q), IF restart THEN 0 ELSE c0.write, NoBody)
      c       == IF restart THEN ResetAssociation(c0) ELSE c0
      item    == Item("ServerHello", q.out, c.write, Hello(fresh + 1, FALSE, ActiveId(c)))
  IN  IF ~initial /\ ~policy.client_reneg THEN Refused(c0)
      ELSE IF HaveMoreData(q) THEN Exception(c0)
      ELSE IF initial /\ ~m.body.cookie
      THEN Outcome([c0 EXCEPT !.pending = [@ EXCEPT !.io = SendHelloVerify(q), !.hash = <<>>,
                                                         !.expecting = {"ClientHello"}]], Fragments(verify))
      ELSE IF ~SecureRenegotiation(c, m) THEN Exception(c)
      ELSE Outcome([c EXCEPT !.pending = [@ EXCEPT !.io = Send(q, <<item>>), !.hello = m.body,
                                                   !.id = <<m.body.num, fresh + 1>>,
                                                   !.hash = <<Hashed(m), Hashed(item)>>,
                                                   !.expecting = {"ClientKeyExchange"}]],
                   Fragments(item))

ClientKeyExchange(c, m) ==
  Outcome([c EXCEPT !.pending = [@ EXCEPT !.hash = Append(c.pending.hash, Hashed(m)), !.expecting = {CCS}]], {})

ChangeCipherSpec(c) ==
  Outcome([NextRead(c, c.pending.id) EXCEPT !.pending.expecting = {"Finished"}], {})

\* Finished: the server answers with the last flight.
Finished(p, c, m, q) ==
  LET ccs   == Item(CCS, 0, c.write, NoBody)
      fin   == Item("Finished", q.out, c.write + 1, [NoBody EXCEPT !.hash = Append(c.pending.hash, Hashed(m))])
      items == <<ccs, fin>>
  IN  IF HaveMoreData(q) \/ m.body.hash # c.pending.hash THEN Exception(c)
      ELSE IF p = "client" THEN Outcome(Activate(p, c, q), {})
      ELSE Outcome(Activate(p, NextWrite(c, c.pending.id), Send(q, items)), Records(items))

\* process_handshake_msg() of the client and of the server.  With a transition
\* confirmed, nothing is expected until the handler says so.
Handle(p, m, q, restart) ==
  LET taken == [chan[p] EXCEPT !.pending.io = q]
      c     == [taken EXCEPT !.pending.expecting = {}]
  IN  IF p = "client" /\ m.type = "HelloRequest" /\ taken.active # None THEN HelloRequest(taken, q)
      ELSE IF m.type \notin taken.pending.expecting THEN Exception(taken)
      ELSE CASE m.type = "HelloVerifyRequest" -> HelloVerifyRequest(c, q)
             [] m.type = "ServerHello" -> ServerHello(c, m, q)
             [] m.type = "ClientHello" -> ClientHello(c, m, q, restart)
             [] m.type = "ClientKeyExchange" -> ClientKeyExchange(c, m)
             [] m.type = CCS -> ChangeCipherSpec(c)
             [] m.type = "Finished" -> Finished(p, c, m, q)

\* Mutant of Absorbs: an exception is an exception.
AbsorbsNothing(c, epoch) == FALSE

\* unauthenticated_against_active_association
Absorbs(c, epoch) == epoch = 0 /\ c.active # None

NextFor(p) == NextRecord(chan[p].pending.io, CCS \in chan[p].pending.expecting)

\* Once around the loop of process_handshake_ccs().
Process(k) ==
  /\ k \in working
  /\ \E m \in NextFor(k.side) :
       LET p   == k.side
           q   == AfterNext(ConcludeFlight(chan[p].pending.io), m)
           out == Handle(p, m, q, k.restart)
       IN  IF out.throws
           THEN IF k.absorb
                THEN /\ chan' = [chan EXCEPT ![p] = out.c]
                     /\ working' = {}
                     /\ UNCHANGED <<policy, net, fresh, calls>>
                ELSE Throw(p, net)
           ELSE LET after == IF out.alert = {} THEN out.c ELSE AfterAlert(out.c, "NoRenegotiation")
                    ws    == Wire(p, out.c, out.recs) \cup UNION {AlertRecord(p, out.c, a) : a \in out.alert}
                IN  /\ Become(p, after, net, ws)
                    /\ working' = IF after.pending = None THEN {} ELSE working
                    /\ fresh' = IF \E w \in ws : w.rec.body.num > fresh THEN fresh + 1 ELSE fresh
                    /\ UNCHANGED <<policy, calls>>

\* Mutant of Return: the flight that was sent stays open.
ReturnOpen(k) ==
  /\ k \in working
  /\ NextFor(k.side) = {}
  /\ working' = {}
  /\ UNCHANGED <<policy, net, chan, fresh, calls>>

\* No full message: the call returns, with the flight concluded.
Return(k) ==
  /\ k \in working
  /\ NextFor(k.side) = {}
  /\ chan' = [chan EXCEPT ![k.side].pending.io = ConcludeFlight(@)]
  /\ working' = {}
  /\ UNCHANGED <<policy, net, fresh, calls>>

-----------------------------------------------------------------------------
(* from_peer().                                                            *)

\* read_dtls_record(): the keys of the epoch are those the record was sent under.
Readable(c, w) == w.rec.epoch = 0 \/ (w.rec.epoch \in DOMAIN c.read_keys /\ c.read_keys[w.rec.epoch] = w.key)

\* old_unprotected_record
OldUnprotected(c, r) == r.epoch = 0 /\ c.active # None /\ c.read > 0

IsHandshake(r) == r.type \notin Alerts \cup {"ApplicationData"}

\* The network when record w has been read.
Rest(w) == {net \ {w}} \cup (IF w.rec.epoch = 0 THEN {net} ELSE {})

Ignore(n) == net' = n /\ UNCHANGED <<policy, chan, working, fresh, calls>>

\* process_alert()
ProcessAlert(p, c, r, n) ==
  LET seen == IF r.type = "NoRenegotiation" /\ c.active # None THEN [c EXCEPT !.pending = None] ELSE c
      ws   == IF r.type = "CloseNotify" THEN AlertRecord(p, c, "CloseNotify") ELSE {}
  IN  /\ Become(p, [seen EXCEPT !.closed = @ \/ r.type # "NoRenegotiation"], n, ws)
      /\ UNCHANGED <<policy, working, fresh, calls>>

\* The application gets the data, unless there is a reason to throw.
ProcessData(p, c, r, n) ==
  IF c.closed \/ c.pending # None \/ c.active = None \/ r.epoch = 0 THEN Throw(p, n) ELSE Ignore(n)

\* is_new_dtls_association_client_hello() when restarting, and the messages that
\* begin a renegotiation.
Starts(r, restart) ==
  IF restart THEN r.type = "ClientHello" /\ r.seq = 0 ELSE r.type \in {"ClientHello", "HelloRequest"}

\* process_retransmitted_record()
Retransmitted(p, c, r, n) ==
  LET io   == c.active.io
      next == AddRecord(io, r, TRUE)
  IN  IF AddRecordThrows(io, r, TRUE)
      THEN IF r.epoch = 0 THEN Ignore(n) ELSE Throw(p, n)
      ELSE /\ Become(p, [c EXCEPT !.active.io = next.io], n,
                     IF next.replay /\ Replays(io) THEN Wire(p, c, Records(LastFlight(io))) ELSE {})
           /\ UNCHANGED <<policy, working, fresh, calls>>

\* process_handshake_ccs() up to the loop.
ProcessHandshake(p, c, r, n, restart) ==
  LET starts == IF restart THEN Starts(r, TRUE)
                ELSE r.epoch = c.read /\ (c.active = None \/ Starts(r, FALSE))
      again  == c.active # None /\ (restart \/ r.epoch \in {c.read, c.read - 1})
      pend   == IF c.pending = None THEN NewPending(p, c) ELSE c.pending
  IN  IF c.pending = None /\ ~starts
      THEN IF again THEN Retransmitted(p, c, r, n) ELSE Ignore(n)
      ELSE IF AddRecordThrows(pend.io, r, FALSE)
      THEN IF Absorbs(c, r.epoch)
           THEN Become(p, [c EXCEPT !.pending = pend], n, {}) /\ UNCHANGED <<policy, working, fresh, calls>>
           ELSE Throw(p, n)
      ELSE LET next == AddRecord(pend.io, r, FALSE)
           IN  /\ Become(p, [c EXCEPT !.pending = [pend EXCEPT !.io = next.io]], n,
                         IF next.replay THEN Wire(p, c, Records(LastFlight(pend.io))) ELSE {})
               /\ working' = {[side |-> p, epoch |-> r.epoch, restart |-> restart, absorb |-> Absorbs(c, r.epoch)]}
               /\ UNCHANGED <<policy, fresh, calls>>

\* from_peer() of one record.
FromPeer(w) ==
  LET p       == Peer(w.from)
      c       == chan[p]
      r       == w.rec
      restart == policy.restart /\ p = "server" /\ r.epoch = 0 /\ c.active # None
  IN  /\ working = {}
      /\ r.type \in {"ClientHello", "HelloRequest"} => fresh < MaxHandshakes
      /\ \E n \in Rest(w) :
           IF ~Readable(c, w) \/ (OldUnprotected(c, r) /\ ~IsHandshake(r)) THEN Ignore(n)
           ELSE IF r.type \in Alerts THEN ProcessAlert(p, c, r, n)
           ELSE IF r.type = "ApplicationData" THEN ProcessData(p, c, r, n)
           ELSE IF c.closed THEN Throw(p, n)
           ELSE ProcessHandshake(p, c, r, n, restart)

-----------------------------------------------------------------------------
(* What the applications do.                                               *)

Call(name) ==
  /\ name \in Calls
  /\ working = {}
  /\ calls < MaxCalls
  /\ calls' = calls + 1
  /\ UNCHANGED <<policy, working>>

\* renegotiate(): a client sends a ClientHello, a server a HelloRequest.
Renegotiate(p) ==
  LET c       == chan[p]
      pend    == NewPending(p, c)
      s       == SendHello(c, pend, pend.io, fresh + 1, FALSE)
      request == Item("HelloRequest", 0, c.write, NoBody)
  IN  /\ Call("renegotiate")
      /\ c.pending = None /\ c.active # None
      /\ IF p = "client"
         THEN /\ fresh < MaxHandshakes
              /\ fresh' = fresh + 1
              /\ Become(p, [c EXCEPT !.pending = s.pending], net, Wire(p, c, s.recs))
         ELSE /\ Become(p, [c EXCEPT !.pending = [pend EXCEPT !.io = Send(pend.io, <<request>>)]], net,
                        Wire(p, c, Fragments(request)))
              /\ UNCHANGED fresh

\* to_peer()
ToPeer(p) ==
  LET c == chan[p]
  IN  /\ Call("send")
      /\ c.active # None /\ ~c.closed
      /\ Become(p, c, net, Wire(p, c, {Plain("ApplicationData", c.write)}))
      /\ UNCHANGED fresh

\* close()
Close(p) ==
  /\ Call("close")
  /\ ~chan[p].closed
  /\ Become(p, AfterAlert(chan[p], "CloseNotify"), net, AlertRecord(p, chan[p], "CloseNotify"))
  /\ UNCHANGED fresh

\* A client that has lost its state connects anew from the same address.
Reconnect ==
  LET c    == [ResetAssociation(chan["client"]) EXCEPT !.closed = FALSE]
      pend == NewPending("client", c)
      s    == SendHello(c, pend, pend.io, fresh + 1, FALSE)
  IN  /\ Call("reconnect")
      /\ fresh < MaxHandshakes
      /\ fresh' = fresh + 1
      /\ Become("client", [c EXCEPT !.pending = s.pending], net, Wire("client", c, s.recs))

\* timeout_check() when the timer has expired.
TimeoutCheck(p) ==
  LET c == chan[p]
  IN  /\ working = {}
      /\ ~c.closed /\ c.pending # None
      /\ TimerRuns(c.pending.io)
      /\ IF c.pending.io.count + 1 > policy.limit
         THEN chan' = [chan EXCEPT ![p] = Abandon(c)] /\ UNCHANGED net
         ELSE Become(p, [c EXCEPT !.pending.io.count = @ + 1], net, Wire(p, c, Records(LastFlight(c.pending.io))))
      /\ UNCHANGED <<policy, working, fresh, calls>>

Next ==
  \/ \E w \in net : FromPeer(w)
  \/ \E k \in working : Process(k) \/ Return(k)
  \/ \E p \in Sides : Renegotiate(p) \/ ToPeer(p) \/ Close(p) \/ TimeoutCheck(p)
  \/ Reconnect

Spec == Init /\ [][Next]_vars

-----------------------------------------------------------------------------
(* Properties.                                                             *)

Quiet(c) == ~c.closed /\ c.active # None /\ c.pending = None

\* When no handshake is pending, the active state, the epochs and the keys in use
\* in both directions are of the same handshake, whatever has been begun and
\* given up on the way.
OneHandshake ==
  \A p \in Sides : LET c == chan[p] IN Quiet(c) =>
    c.read_keys[c.read] = c.active.id /\ c.write_keys[c.write] = c.active.id

\* Two sides that both consider their handshakes done have done the same one.
SidesAgree ==
  (\A p \in Sides : Quiet(chan[p])) => chan["client"].active.id = chan["server"].active.id

\* Application data never leaves unprotected, restarts included.
NoPlaintextData == \A w \in net : w.rec.type = "ApplicationData" => w.rec.epoch > 0

Association(c) == <<ActiveId(c), c.closed>>

\* Handling a record of epoch 0, which nothing authenticates, never takes an
\* association down, however late the record is and whatever is pending, but for
\* the restart that the policy allows and a cookie has vouched for.  The records
\* are those the two sides have sent; made-up ones are not modelled.
Epoch0Harmless ==
  [][\A p \in Sides :
       ( /\ chan[p].active # None /\ ~chan[p].closed
         /\ \/ \E k \in working : k.side = p /\ k.epoch = 0
            \/ \E w \in net : w.from = Peer(p) /\ w.rec.epoch = 0 /\ FromPeer(w) )
       => \/ Association(chan[p])' = Association(chan[p])
          \/ /\ policy.restart /\ p = "server"
             /\ ~chan'[p].closed /\ chan'[p].pending.hello.cookie]_vars

\* A side that has sent anything in a pending handshake has a timer running, which
\* will complete it or give it up: nothing but a server that has answered nothing
\* yet, or with a HelloVerifyRequest, can stay pending for ever.
PendingIsTimed ==
  working = {} => \A p \in Sides :
    chan[p].pending # None /\ chan[p].pending.io.last_write => TimerRuns(chan[p].pending.io)

\* No record that is lost, late or left over from the first handshake makes a
\* renegotiation end in a fatal alert, and the association with it.
AssociationSurvives == \A w \in net : w.rec.type # "Fatal"
=============================================================================
