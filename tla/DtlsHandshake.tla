--------------------------- MODULE DtlsHandshake ---------------------------
(***************************************************************************)
(* A DTLS 1.2 client and server that open an association over a network    *)
(* which loses, repeats, delays and reorders records: the handshake state  *)
(* machines of Client_Impl_12 and Server_Impl_12, the part of              *)
(* Channel_Impl_12 that feeds them, a Datagram_Handshake_IO at each end,   *)
(* and the retransmission timers.                                          *)
(*                                                                         *)
(* Modelled are the full handshake with a PSK suite and the abbreviated    *)
(* one, each with or without cookie exchange and session ticket.  The      *)
(* certificate messages, more messages in the middle of the same flights,  *)
(* are left out, and so is all cryptography but the transcript, which a    *)
(* Finished carries as its body.  A record is one datagram.  Records of    *)
(* epoch 0 may be delivered any number of times, those of epoch 1 once for *)
(* each time they were sent, as the replay window has it                   *)
(* (DtlsRecordLayer).  A side that is processing a record finishes before  *)
(* anything else happens: the sides share nothing but the network.         *)
(***************************************************************************)
EXTENDS DatagramHandshakeIO

CONSTANTS Policies,  \* what the two sides are set up for, see Policy
          NoLimit,   \* no dtls_maximum_retransmissions()
          MaxCopies, \* bound: copies of one protected record in the network
          MaxOld     \* bound: older records that survive the sending of a flight

\* limit is dtls_maximum_retransmissions(), resume: the server knows the
\* session, cookie: dtls_server_require_cookie_exchange(), ticket: the client
\* is offered a new session ticket.
Policy == [resume : BOOLEAN, cookie : BOOLEAN, ticket : BOOLEAN, limit : Nat \cup {NoLimit}]

ASSUME DtlsHandshakeAssumption ==
  Policies \subseteq Policy /\ MaxCopies \in Nat \ {0} /\ MaxOld \in Nat

Sides == {"client", "server"}
Peer(p) == IF p = "client" THEN "server" ELSE "client"

VARIABLES policy,  \* a member of Policies, chosen once
          net,     \* the records in the network -> number of copies
          io,      \* io[p]: the handshake IO, pending or retained
          chan,    \* chan[p]: state, read and write epoch, expected types, transcript
          working, \* the side that is processing a record, if any
          failed,  \* the exceptions that were thrown
          sent,    \* sent[p]: for the properties, messages sent
          got      \* got[p]: for the properties, messages handed to the handshake

history == <<sent, got>>
vars == <<policy, net, io, chan, working, failed, history>>

NewChannel == [state |-> "none", read |-> 0, write |-> 0, expecting |-> {}, hash |-> <<>>]

Init ==
  /\ policy \in Policies
  /\ net = <<>>
  /\ io = [p \in Sides |-> NewIO]
  /\ chan = [p \in Sides |-> NewChannel]
  /\ working = {}
  /\ failed = {}
  /\ sent = [p \in Sides |-> <<>>]
  /\ got = [p \in Sides |-> <<>>]

-----------------------------------------------------------------------------
(* The network.                                                            *)

Wire(p, recs) == {[from |-> p, rec |-> r] : r \in recs}

\* The records of a flight enter a network n, and all but MaxOld of the older
\* ones are lost.  One copy of an unprotected record stands for any number.
PutInto(n, ws) ==
  \E old \in {S \in SUBSET (DOMAIN n \ ws) : Cardinality(S) <= MaxOld} :
    net' = [w \in old \cup ws |->
              IF w \notin ws THEN n[w]
              ELSE IF w.rec.epoch = 0 \/ w \notin DOMAIN n THEN 1
              ELSE Min({n[w] + 1, MaxCopies})]

Put(ws) == PutInto(net, ws)

Without(w) ==
  [v \in DOMAIN net \ (IF net[w] = 1 THEN {w} ELSE {}) |-> IF v = w THEN net[w] - 1 ELSE net[v]]

Lose(w) ==
  /\ working = {}
  /\ net' = Without(w)
  /\ UNCHANGED <<policy, io, chan, working, failed, history>>

-----------------------------------------------------------------------------
(* Sending a flight.                                                       *)

\* What a flight of p, messages of these types and then a Finished or not, adds
\* to the transcript: each message takes the next message_seq.
Hashed(p, types, fin) ==
  LET all == IF fin THEN Append(types, "Finished") ELSE types
  IN  [k \in DOMAIN all |-> <<all[k], io[p].out + k - 1>>]

\* The flight itself.  A Finished is over the transcript, hash and the flight's
\* earlier messages, and goes out under the next epoch after a ChangeCipherSpec,
\* which has no message_seq.
Flight(p, types, fin, hash) ==
  LET msgs  == [k \in DOMAIN types |-> [type |-> types[k], seq |-> io[p].out + k - 1,
                                        epoch |-> chan[p].write, body |-> <<>>]]
      ccs   == [type |-> CCS, seq |-> 0, epoch |-> chan[p].write, body |-> <<>>]
      final == [type |-> "Finished", seq |-> io[p].out + Len(types),
                epoch |-> chan[p].write + 1, body |-> hash \o Hashed(p, types, FALSE)]
  IN  IF fin THEN msgs \o <<ccs, final>> ELSE msgs

-----------------------------------------------------------------------------
(* Processing one message: the state of the handshake IO when it has been  *)
(* taken from there is q, its transcript hash.                             *)

\* An exception: send_fatal_alert() and reset_state().
Fail(p, why) ==
  /\ failed' = failed \cup {<<p, why>>}
  /\ chan' = [chan EXCEPT ![p].state = "closed"]
  /\ working' = {}
  /\ UNCHANGED <<policy, net, io, history>>

\* The handler goes on to state c of the channel and sends items.
Proceed(p, c, q, items) ==
  /\ io' = [io EXCEPT ![p] = IF items = <<>> THEN q ELSE Send(q, items)]
  /\ chan' = [chan EXCEPT ![p] = c]
  /\ IF items = <<>> THEN UNCHANGED net ELSE Put(Wire(p, Records(items)))
  /\ sent' = [sent EXCEPT ![p] = @ \o items]
  /\ UNCHANGED <<policy, working, failed>>

\* Mutant of SentTerminal: the server is taken to send the last flight always.
SentTerminalServer(p) == p = "server"

\* activate_session(): in a full handshake the server sends the last flight, in
\* an abbreviated one the client.
SentTerminal(p) == (p = "server") = ~policy.resume

Activate(p, c, q, items) ==
  /\ io' = [io EXCEPT ![p] = Finalize(IF items = <<>> THEN q ELSE Send(q, items), SentTerminal(p))]
  /\ chan' = [chan EXCEPT ![p] = [c EXCEPT !.state = "active", !.expecting = {}]]
  /\ IF items = <<>> THEN UNCHANGED net ELSE Put(Wire(p, Records(items)))
  /\ sent' = [sent EXCEPT ![p] = @ \o items]
  /\ working' = {}
  /\ UNCHANGED <<policy, failed>>

\* The channel state after a message that is hashed, with what comes next.
Expect(c, types) == [c EXCEPT !.expecting = types]
WithHash(c, m) == [c EXCEPT !.hash = Append(@, <<m.type, m.seq>>)]
SendHash(c, p, types, fin) == [c EXCEPT !.hash = @ \o Hashed(p, types, fin)]
NextWrite(c) == [c EXCEPT !.write = @ + 1]

TicketOrCCS == IF policy.ticket THEN {"NewSessionTicket"} ELSE {CCS}

HelloVerifyRequest(p, m, q) ==
  LET items == Flight(p, <<"ClientHello">>, FALSE, <<>>)
      c     == [chan[p] EXCEPT !.hash = Hashed(p, <<"ClientHello">>, FALSE),
                               !.expecting = {"ServerHello", "HelloVerifyRequest"}]
  IN  Proceed(p, c, q, items)

ServerHello(p, m, q) ==
  Proceed(p, Expect(WithHash(chan[p], m),
                    IF policy.resume THEN TicketOrCCS ELSE {"ServerKeyExchange", "ServerHelloDone"}),
          q, <<>>)

ServerKeyExchange(p, m, q) == Proceed(p, Expect(WithHash(chan[p], m), {"ServerHelloDone"}), q, <<>>)

ServerHelloDone(p, m, q) ==
  LET c     == WithHash(chan[p], m)
      items == Flight(p, <<"ClientKeyExchange">>, TRUE, c.hash)
  IN  IF HaveMoreData(q) THEN Fail(p, "data after ServerHelloDone")
      ELSE Proceed(p, NextWrite(SendHash(Expect(c, TicketOrCCS), p, <<"ClientKeyExchange">>, TRUE)), q, items)

NewSessionTicket(p, m, q) == Proceed(p, Expect(WithHash(chan[p], m), {CCS}), q, <<>>)

ClientKeyExchange(p, m, q) == Proceed(p, Expect(WithHash(chan[p], m), {CCS}), q, <<>>)

ChangeCipherSpec(p, m, q) ==
  Proceed(p, [Expect(chan[p], {"Finished"}) EXCEPT !.read = @ + 1], q, <<>>)

Ticket == IF policy.ticket THEN <<"NewSessionTicket">> ELSE <<>>

\* The messages of session_resume(), a Finished follows, and session_create().
session_resume == <<"ServerHello">> \o Ticket
session_create == <<"ServerHello", "ServerKeyExchange", "ServerHelloDone">>

\* process_client_hello_msg(): the second ClientHello is the one with the cookie.
ClientHello(p, m, q) ==
  LET c      == WithHash(chan[p], m)
      types  == IF policy.resume THEN session_resume ELSE session_create
      items  == Flight(p, types, policy.resume, c.hash)
      verify == [type |-> "HelloVerifyRequest", seq |-> HelloVerifySeq(q), epoch |-> chan[p].write,
                 body |-> <<>>]
  IN  IF HaveMoreData(q) THEN Fail(p, "data after ClientHello")
      ELSE IF policy.cookie /\ m.seq = 0
      THEN /\ io' = [io EXCEPT ![p] = SendHelloVerify(q)]
           /\ chan' = [chan EXCEPT ![p] = Expect([c EXCEPT !.hash = <<>>], {"ClientHello"})]
           /\ Put(Wire(p, Fragments(verify)))
           /\ sent' = [sent EXCEPT ![p] = IF q.recreating THEN @ ELSE Append(@, verify)]
           /\ UNCHANGED <<policy, working, failed>>
      ELSE Proceed(p, IF policy.resume THEN NextWrite(SendHash(Expect(c, {CCS}), p, types, TRUE))
                      ELSE SendHash(Expect(c, {"ClientKeyExchange"}), p, types, FALSE), q, items)

\* A Finished: the side that has not sent its own yet answers with it.
Finished(p, m, q, answers, types) ==
  LET c     == WithHash(chan[p], m)
      items == Flight(p, types, TRUE, c.hash)
  IN  IF HaveMoreData(q) THEN Fail(p, "data after Finished")
      ELSE IF m.body # chan[p].hash THEN Fail(p, "Finished did not verify")
      ELSE IF answers THEN Activate(p, NextWrite(SendHash(c, p, types, TRUE)), q, items)
      ELSE Activate(p, c, q, <<>>)

ServerFinished(m, q) == Finished("client", m, q, policy.resume, <<>>)
ClientFinished(m, q) == Finished("server", m, q, ~policy.resume, Ticket)

Handler(p, m, q) ==
  \/ p = "client" /\ m.type = "HelloVerifyRequest" /\ HelloVerifyRequest(p, m, q)
  \/ p = "client" /\ m.type = "ServerHello" /\ ServerHello(p, m, q)
  \/ p = "client" /\ m.type = "ServerKeyExchange" /\ ServerKeyExchange(p, m, q)
  \/ p = "client" /\ m.type = "ServerHelloDone" /\ ServerHelloDone(p, m, q)
  \/ p = "client" /\ m.type = "NewSessionTicket" /\ NewSessionTicket(p, m, q)
  \/ p = "server" /\ m.type = "ClientHello" /\ ClientHello(p, m, q)
  \/ p = "server" /\ m.type = "ClientKeyExchange" /\ ClientKeyExchange(p, m, q)
  \/ m.type = CCS /\ ChangeCipherSpec(p, m, q)
  \/ p = "client" /\ m.type = "Finished" /\ ServerFinished(m, q)
  \/ p = "server" /\ m.type = "Finished" /\ ClientFinished(m, q)

NextFor(p) == NextRecord(io[p], CCS \in chan[p].expecting)

\* get_next_handshake_msg() and process_handshake_msg(), once around the loop of
\* process_handshake_ccs(); confirm_transition_to() throws at an unexpected type.
Process(p) ==
  /\ working = {p}
  /\ \E m \in NextFor(p) :
       LET q == AfterNext(ConcludeFlight(io[p]), m)
       IN  IF m.type \notin chan[p].expecting
           THEN Fail(p, "unexpected transition")
           ELSE /\ Handler(p, m, q)
                /\ got' = IF failed' # failed \/ q.recreating THEN got
                          ELSE [got EXCEPT ![p] = Append(@, m)]

\* No full message: the call returns.
Return(p) ==
  /\ working = {p}
  /\ NextFor(p) = {}
  /\ io' = [io EXCEPT ![p] = ConcludeFlight(@)]
  /\ working' = {}
  /\ UNCHANGED <<policy, net, chan, failed, history>>

-----------------------------------------------------------------------------
(* Calls into the channel.                                                 *)

\* The client is constructed: send_client_hello().
Connect ==
  LET items == Flight("client", <<"ClientHello">>, FALSE, <<>>)
  IN  /\ chan["client"].state = "none"
      /\ chan' = [chan EXCEPT !["client"] =
                    [SendHash(@, "client", <<"ClientHello">>, FALSE) EXCEPT !.state = "pending",
                                               !.expecting = {"ServerHello", "HelloVerifyRequest"}]]
      /\ io' = [io EXCEPT !["client"] = Send(@, items)]
      /\ Put(Wire("client", Records(items)))
      /\ sent' = [sent EXCEPT !["client"] = items]
      /\ UNCHANGED <<policy, working, failed, got>>

\* read_dtls_record() has the keys of the record's epoch.
Readable(p, r) == r.epoch <= chan[p].read

\* The network after the record: a protected one is used up, another one may be
\* delivered again, and the flight that is replayed, if any, is on its way.
PutAfter(w, ws) ==
  \E n \in {Without(w)} \cup (IF w.rec.epoch = 0 THEN {net} ELSE {}) :
    IF ws = {} THEN net' = n ELSE PutInto(n, ws)

\* from_peer() and process_handshake_ccs() of a record: the server creates its
\* handshake state, a pending handshake takes the record and goes on, an
\* established association looks for a retransmission of what it has answered.
\* An unprotected record that does not fit an established association is ignored.
FromPeer(w) ==
  LET p     == Peer(w.from)
      r     == w.rec
      again == chan[p].state = "active"
      next  == AddRecord(io[p], r, again)
      ws    == IF next.replay /\ Replays(io[p]) THEN Wire(p, Records(LastFlight(io[p]))) ELSE {}
  IN  /\ working = {}
      /\ w \in DOMAIN net
      /\ IF chan[p].state = "closed" \/ ~Readable(p, r)
         THEN /\ net' = Without(w)
              /\ UNCHANGED <<policy, io, chan, working, failed, history>>
         ELSE IF AddRecordThrows(io[p], r, again)
         THEN IF again /\ r.epoch = 0 THEN net' = Without(w) /\ UNCHANGED <<policy, io, chan, working, failed, history>>
              ELSE Fail(p, "record refused")
         ELSE IF next.replay /\ Replays(io[p]) /\ LastFlight(io[p]) = <<>>
         THEN Fail(p, "no flight to retransmit")
         ELSE /\ io' = [io EXCEPT ![p] = next.io]
              /\ PutAfter(w, ws)
              /\ chan' = IF chan[p].state # "none" THEN chan
                         ELSE [chan EXCEPT ![p].state = "pending", ![p].expecting = {"ClientHello"}]
              /\ working' = IF again THEN {} ELSE {p}
              /\ UNCHANGED <<policy, failed, history>>

\* timeout_check() when the timer has expired: send the last flight again, or
\* give up.
TimeoutCheck(p) ==
  /\ working = {}
  /\ chan[p].state = "pending"
  /\ TimerRuns(io[p])
  /\ IF policy.limit # NoLimit /\ io[p].count + 1 > policy.limit
     THEN /\ chan' = [chan EXCEPT ![p].state = "closed"]
          /\ UNCHANGED <<net, io, failed>>
     ELSE IF LastFlight(io[p]) = <<>>
     THEN /\ failed' = failed \cup {<<p, "no flight to retransmit">>}
          /\ chan' = [chan EXCEPT ![p].state = "closed"]
          /\ UNCHANGED <<net, io>>
     ELSE /\ io' = [io EXCEPT ![p].count = IF policy.limit = NoLimit THEN @ ELSE @ + 1]
          /\ Put(Wire(p, Records(LastFlight(io[p]))))
          /\ UNCHANGED <<chan, failed>>
  /\ UNCHANGED <<policy, working, history>>

\* A server that has sent no flight has no timer either: it holds a part of a
\* ClientHello, or has answered one with a HelloVerifyRequest, which is none.
Untimed(p) == p = "server" /\ chan[p].state = "pending" /\ ~io[p].last_write

\* Nothing is left to do: an untimed server whose client has given up waits on.
Done ==
  /\ chan["client"].state \in {"active", "closed"}
  /\ \/ chan["server"].state # "pending"
     \/ Untimed("server") /\ chan["client"].state = "closed"
  /\ working = {}
  /\ net = <<>>
  /\ UNCHANGED vars

Next ==
  \/ Connect
  \/ \E w \in DOMAIN net : Lose(w) \/ FromPeer(w)
  \/ \E p \in Sides : Process(p) \/ Return(p) \/ TimeoutCheck(p)
  \/ Done

-----------------------------------------------------------------------------
(* Fairness: the application connects and calls timeout_check(), and the  *)
(* code finishes what it is called for.  Of the network it is only asked   *)
(* that, while records that a side still lacks are sent again and again,   *)
(* one of them arrives again and again.                                    *)

\* A fragment or a ChangeCipherSpec that a pending handshake has not seen, or,
\* for an established association, the end of a flight sent again.
Lacks(p, r) ==
  \/ /\ chan[p].state # "active"
     /\ IF r.type = CCS THEN r.epoch \notin io[p].ccs_epochs
        ELSE IsNew(io[p], r) /\ \A s \in SlotAt(io[p], r.seq) : ~(r.bytes \subseteq s.bytes)
  \/ /\ chan[p].state = "active"
     /\ r.type \in {CCS, "Finished"}
     /\ LET next == AddRecord(io[p], r, TRUE) IN next.replay \/ next.io # io[p]

Arrives(p) ==
  /\ working = {}
  /\ \E w \in DOMAIN net : Peer(w.from) = p /\ Readable(p, w.rec) /\ Lacks(p, w.rec) /\ FromPeer(w)

\* A fragment of the first ClientHello once more that a server lacks which waits
\* for the cookie.
HelloArrives ==
  /\ working = {} /\ io["server"].awaiting_cookie
  /\ \E w \in DOMAIN net :
       /\ w.rec.type = "ClientHello"
       /\ \A s \in io["server"].client_hello : s.seq = w.rec.seq => ~(w.rec.bytes \subseteq s.bytes)
       /\ FromPeer(w)

Fairness ==
  /\ WF_vars(Connect \/ \E p \in Sides : Process(p) \/ Return(p))
  /\ \A p \in Sides : SF_vars(TimeoutCheck(p)) /\ SF_vars(Arrives(p))
  /\ SF_vars(HelloArrives)

Spec == Init /\ [][Next]_vars /\ Fairness

-----------------------------------------------------------------------------
(* Properties.                                                             *)

\* Between two honest sides no loss, repetition or reordering of records makes a
\* handshake fail: no message comes at the wrong time, every Finished verifies,
\* no reassembly contradicts itself, and there always is a flight to send again.
NoSpuriousFailure == failed = {}

Stream == INSTANCE HandshakeStream

\* Each handshake is handed the messages its peer sent, once, unchanged and in
\* order, with the ChangeCipherSpec, which has no number, in its place.
ImplementsStream == Stream!Spec

Established == \A p \in Sides : chan[p].state = "active"

\* Once both sides are finished only the sender of the last flight ever sends
\* handshake records again, so that no two sides answer each other for ever.
OnlyTerminalSenderReplays ==
  [][Established =>
       \A w \in DOMAIN net' : w.from = (IF policy.resume THEN "server" ELSE "client") =>
         /\ w \in DOMAIN net
         /\ net'[w] <= net[w]]_vars

\* Every handshake ends.  Without a limit on the retransmissions both sides
\* become active, the loss of the last flight included; with a limit no side
\* waits for ever, it becomes active or gives up, except that a server which has
\* sent no flight yet, because half of the ClientHello never arrived or its client
\* never came back with the cookie, has nothing that would make it give up.
Ended ==
  IF policy.limit = NoLimit THEN Established
  ELSE \A p \in Sides : chan[p].state # "pending" \/ Untimed(p)

HandshakeEnds == chan["client"].state # "none" ~> Ended
=============================================================================
