------------------------ MODULE DatagramHandshakeIO ------------------------
(***************************************************************************)
(* Datagram_Handshake_IO: the flights that one side of a DTLS 1.2          *)
(* handshake keeps for retransmission, and the fragments of the peer's     *)
(* messages that it reassembles.                                           *)
(*                                                                         *)
(* A message is abstracted to a type, its message_seq, the epoch it was    *)
(* sent under and a body; its bytes are 1..len.  A fragment carries some   *)
(* of them.  A slot of the reassembly is the fragment that the fragments   *)
(* received so far add up to.  An optional value is a set of at most one   *)
(* element.  m_flights and m_flight_ccs, which hold the messages of a      *)
(* flight and the places of the ChangeCipherSpecs between them, are one    *)
(* sequence here.                                                          *)
(***************************************************************************)
EXTENDS Naturals, Sequences, SequencesExt, FiniteSetsExt

CONSTANTS MsgLength \* type -> number of bytes, as many as fragments when sent

CCS == "HandshakeCCS"
IsMsg(item) == item.type # CCS

\* Map f with value v at key x, new or not.
With(f, x, v) == [y \in DOMAIN f \cup {x} |-> IF y = x THEN v ELSE f[y]]

NewIO ==
  [flights |-> <<<<>>>>, out |-> 0, in |-> 0, messages |-> <<>>, ccs_epochs |-> {},
   last_write |-> FALSE, count |-> 0, finished |-> FALSE, terminal |-> FALSE,
   awaiting_cookie |-> FALSE, recreating |-> FALSE, client_hello |-> {},
   retransmitted |-> {}, ccs_epoch |-> {}, finished_epoch |-> {},
   server_hello |-> FALSE, server_hello_done |-> FALSE]

-----------------------------------------------------------------------------
(* Sending.                                                                *)

\* send_message() and the writer of a ChangeCipherSpec: the records of an item.
Fragments(item) ==
  LET len == IF IsMsg(item) THEN MsgLength[item.type] ELSE 0
      frag(bytes) == [type |-> item.type, seq |-> item.seq, epoch |-> item.epoch,
                      body |-> item.body, len |-> len, bytes |-> bytes]
  IN  IF len = 0 THEN {frag({})} ELSE {frag({b}) : b \in 1..len}

Records(items) == UNION {Fragments(items[i]) : i \in DOMAIN items}

\* send_under_epoch() for the items of a flight.
Send(io, items) ==
  [io EXCEPT !.flights[Len(io.flights)] = @ \o items,
             !.out = @ + Cardinality({i \in DOMAIN items : IsMsg(items[i])}),
             !.last_write = TRUE,
             !.count = 0]

\* Mutant of HelloVerifySeq: a recreated request is a new message.
HelloVerifySeqFresh(io) == io.out

HelloVerifySeq(io) == IF io.recreating THEN io.out - 1 ELSE io.out

\* send_under_epoch() of a HelloVerifyRequest: no flight, no timer.
SendHelloVerify(io) ==
  [io EXCEPT !.out = HelloVerifySeq(io) + 1, !.awaiting_cookie = TRUE, !.recreating = FALSE]

\* "Expecting a message means the last flight is concluded".
ConcludeFlight(io) ==
  IF Last(io.flights) = <<>> THEN io ELSE [io EXCEPT !.flights = Append(@, <<>>)]

\* retransmit_last_flight(): the flight before the empty slot.
LastFlight(io) == io.flights[IF Len(io.flights) = 1 THEN 1 ELSE Len(io.flights) - 1]

\* next_retransmission_timeout() has a value: it reaches zero at some time.
TimerRuns(io) ==
  /\ ~io.finished
  /\ io.last_write
  /\ Len(io.flights) = 1 \/ Last(io.flights) = <<>>

\* Mutant of Finalize: every finished side answers a retransmission.
FinalizeBoth(io, sent_terminal) ==
  [ConcludeFlight(io) EXCEPT !.finished = TRUE, !.terminal = TRUE]

\* finalize_handshake()
Finalize(io, sent_terminal) ==
  [ConcludeFlight(io) EXCEPT !.finished = TRUE, !.terminal = sent_terminal]

-----------------------------------------------------------------------------
(* Receiving.                                                              *)

Complete(slot) == slot.bytes = 1..slot.len

\* Handshake_Reassembly::add_fragment() throws.
Inconsistent(slot, r) == slot.type # r.type \/ slot.len # r.len \/ slot.epoch # r.epoch

\* add_fragment() to an optional slot.
AddFragment(opt, r) ==
  IF opt = {} THEN r ELSE LET s == CHOOSE s \in opt : TRUE IN [s EXCEPT !.bytes = @ \cup r.bytes]

\* The slot of m_retransmitted_messages that a fragment belongs to; a slot of
\* another message_seq is thrown away.
SlotOf(io, r) == {s \in io.retransmitted : s.type = r.type /\ s.seq = r.seq}

\* reassemble_retransmitted_fragment(): is the message complete with r, and what
\* is left in m_retransmitted_messages?
CompletesOld(io, r) == Complete(AddFragment(SlotOf(io, r), r))
AfterOld(io, r) ==
  [io EXCEPT !.retransmitted = {s \in @ : s.type # r.type} \cup
                               (IF CompletesOld(io, r) THEN {} ELSE {AddFragment(SlotOf(io, r), r)})]

\* process_previous_handshake_fragment() for a ClientHello.
PreviousClientHello(io, r, again) ==
  IF ~again /\ io.awaiting_cookie
  THEN [replay |-> FALSE,
        io |-> [io EXCEPT !.client_hello =
                  {AddFragment({s \in io.client_hello : s.seq = r.seq}, r)}]]
  ELSE [replay |-> CompletesOld(io, r), io |-> AfterOld(io, r)]

\* ... and for the ServerHello, the ServerHelloDone and the Finished of a flight
\* that the finished side has already answered.
PreviousServerHello(io, r) ==
  LET both == CompletesOld(io, r) /\ io.server_hello_done
  IN  [replay |-> both,
       io |-> [AfterOld(io, r) EXCEPT !.server_hello = CompletesOld(io, r) /\ ~both,
                                      !.server_hello_done = @ /\ ~both]]

PreviousServerHelloDone(io, r) ==
  LET both == io.server_hello
  IN  [replay |-> both,
       io |-> [AfterOld(io, r) EXCEPT !.server_hello = FALSE,
                                      !.server_hello_done = ~both]]

PreviousFinished(io, r) ==
  IF ~CompletesOld(io, r) THEN [replay |-> FALSE, io |-> AfterOld(io, r)]
  ELSE IF io.ccs_epoch = {r.epoch}
       THEN [replay |-> TRUE, io |-> [AfterOld(io, r) EXCEPT !.ccs_epoch = {}]]
       ELSE [replay |-> FALSE, io |-> [AfterOld(io, r) EXCEPT !.finished_epoch = {r.epoch}]]

\* process_previous_handshake_fragment()
Previous(io, r, again) ==
  CASE r.type = "ClientHello" -> PreviousClientHello(io, r, again)
    [] again /\ r.type = "ServerHello" -> PreviousServerHello(io, r)
    [] again /\ r.type = "ServerHelloDone" -> PreviousServerHelloDone(io, r)
    [] again /\ r.type = "Finished" -> PreviousFinished(io, r)
    [] OTHER -> [replay |-> FALSE, io |-> io]

\* add_record() of a ChangeCipherSpec.
AddCCS(io, r, again) ==
  LET noted == [io EXCEPT !.ccs_epochs = @ \cup {r.epoch}]
      fin   == r.epoch + 1
  IN  IF ~again THEN [replay |-> FALSE, io |-> noted]
      ELSE IF io.finished_epoch = {fin}
           THEN [replay |-> TRUE, io |-> [noted EXCEPT !.finished_epoch = {}]]
           ELSE [replay |-> FALSE, io |-> [noted EXCEPT !.ccs_epoch = {fin}]]

SlotAt(io, seq) == IF seq \in DOMAIN io.messages THEN {io.messages[seq]} ELSE {}

\* A message of the flight that is awaited.  The window of 16 messages is never
\* left by a peer that waits for answers.
IsNew(io, r) == r.seq >= io.in

\* The slot that add_fragment() is called on for an earlier message, if any.
PreviousSlot(io, r, again) ==
  IF r.type = "ClientHello" /\ ~again /\ io.awaiting_cookie
  THEN {s \in io.client_hello : s.seq = r.seq}
  ELSE {s \in SlotOf(io, r) : again \/ r.type = "ClientHello"}

\* add_record() throws: a new message for a finished side, or fragments of one
\* message that contradict each other.
AddRecordThrows(io, r, again) ==
  /\ r.type # CCS
  /\ IF IsNew(io, r)
     THEN IF again THEN r.bytes # {} ELSE \E s \in SlotAt(io, r.seq) : Inconsistent(s, r)
     ELSE \E s \in PreviousSlot(io, r, again) : Inconsistent(s, r)

\* add_record(), and add_retransmitted_record() when again is set: the state of
\* the handshake IO, and whether the last flight is to be sent once more.
AddRecord(io, r, again) ==
  CASE r.type = CCS -> AddCCS(io, r, again)
    [] r.type # CCS /\ IsNew(io, r) /\ again -> [replay |-> FALSE, io |-> io]
    [] r.type # CCS /\ IsNew(io, r) /\ ~again ->
         [replay |-> FALSE,
          io |-> [io EXCEPT !.messages =
                    With(@, r.seq, AddFragment(SlotAt(io, r.seq), r))]]
    [] OTHER -> Previous(io, r, again)

\* retransmit_response && (!m_finished || m_retransmit_terminal_flight)
Replays(io) == ~io.finished \/ io.terminal

NextInSequence(io) == {s \in SlotAt(io, io.in) : Complete(s)}

\* have_more_data()
HaveMoreData(io) ==
  \/ \E s \in io.client_hello : Complete(s)
  \/ NextInSequence(io) # {}

AsItem(s) == [type |-> s.type, seq |-> s.seq, epoch |-> s.epoch, body |-> s.body]

\* The message that get_next_record() returns, if any.
NextRecord(io, expecting_ccs) ==
  LET hello == {s \in io.client_hello : Complete(s)}
      epoch == io.messages[Min(DOMAIN io.messages)].epoch
  IN  IF expecting_ccs
      THEN IF io.messages # <<>> /\ epoch \in io.ccs_epochs
           THEN {[type |-> CCS, seq |-> 0, epoch |-> epoch, body |-> <<>>]}
           ELSE {}
      ELSE IF hello # {} THEN {AsItem(s) : s \in hello}
      ELSE {AsItem(s) : s \in NextInSequence(io)}

\* Mutant of AfterNext: the cookie stays awaited.
AfterNextAwaits(io, m) ==
  CASE m.type = CCS -> io
    [] m.type # CCS /\ m.seq < io.in -> [io EXCEPT !.client_hello = {}, !.recreating = TRUE]
    [] OTHER -> [io EXCEPT !.in = @ + 1]

\* The state of the handshake IO after get_next_record() has returned m.
AfterNext(io, m) ==
  CASE m.type = CCS -> io
    [] m.type # CCS /\ m.seq < io.in -> [io EXCEPT !.client_hello = {}, !.recreating = TRUE]
    [] OTHER -> [io EXCEPT !.in = @ + 1,
                           !.awaiting_cookie = @ /\ m.type # "ClientHello"]
=============================================================================
