-------------------------- MODULE DtlsRecordLayer --------------------------
(***************************************************************************)
(* One direction of a DTLS 1.2 association: the writing half of one        *)
(* Channel_Impl_12 and the reading half of its peer, with the network in   *)
(* between.  Modelled are Datagram_Sequence_Numbers (epochs, write         *)
(* counters, replay windows), the cipher states that the channel keeps per *)
(* epoch, and read_dtls_record, which uses both.                           *)
(*                                                                         *)
(* A record stays in the network for ever: it may be lost, delayed,        *)
(* reordered and delivered many times.  A handshake is reduced to what it  *)
(* does to this direction: the writer switches its epoch when it has sent  *)
(* its ChangeCipherSpec, the reader when it has processed it.  Keys are    *)
(* agreed per handshake, so the key of an epoch is the pair (association,  *)
(* epoch), and a record under another key does not decrypt.                *)
(***************************************************************************)
EXTENDS Integers, FiniteSets

CONSTANTS MaxAssoc,   \* bound: associations are 0..MaxAssoc
          MaxEpoch,   \* 0xFFFF in the code
          MaxSeq,     \* 2^48 - 1 in the code
          WindowSize, \* 64 in the code: the bits of a Replay_Window
          MaxSent     \* bound: records written in a behaviour

ASSUME DtlsAssumption ==
  /\ MaxAssoc \in Nat /\ MaxEpoch \in Nat /\ MaxSeq \in Nat
  /\ WindowSize \in Nat \ {0} /\ MaxSent \in Nat

Assocs == 0..MaxAssoc
Epochs == 0..MaxEpoch
Seqs == 0..MaxSeq

\* What a record's header says, and the association whose key protects it.
Records == [assoc : Assocs, epoch : Epochs, seq : Seqs]

Offsets == 0..(WindowSize - 1)

VARIABLES wAssoc,   \* the association the writer is in
          wEpoch,   \* m_write_epoch
          wSeqs,    \* m_write_seqs: epoch -> next sequence number
          wStates,  \* the epochs in m_write_cipher_states
          rAssoc,   \* the association the reader is in
          rEpoch,   \* m_read_epoch
          rWindows, \* m_read_windows: epoch -> Replay_Window
          rStates,  \* m_read_cipher_states: epoch -> is it in use, retired, too old?
          sent,     \* the records in the network
          accepted, \* for the properties: records that were decrypted and handed on
          reused,   \* for the properties: was a sequence number used twice under a key?
          replayed  \* for the properties: was a protected record accepted twice?

writer == <<wAssoc, wEpoch, wSeqs, wStates>>
reader == <<rAssoc, rEpoch, rWindows, rStates>>
vars == <<writer, reader, sent, accepted, reused, replayed>>

-----------------------------------------------------------------------------

NewWindow == [highest |-> 0, bits |-> {}]

\* reset() of the sequence numbers and the cipher states of a new channel: only
\* epoch 0, which is plaintext.
FreshWriter ==
  /\ wEpoch' = 0
  /\ wSeqs' = [e \in {0} |-> 0]
  /\ wStates' = {0}

FreshReader ==
  /\ rEpoch' = 0
  /\ rWindows' = [e \in {0} |-> NewWindow]
  /\ rStates' = [e \in {0} |-> "current"]

Init ==
  /\ wAssoc = 0 /\ wEpoch = 0 /\ wSeqs = [e \in {0} |-> 0] /\ wStates = {0}
  /\ rAssoc = 0 /\ rEpoch = 0 /\ rWindows = [e \in {0} |-> NewWindow]
  /\ rStates = [e \in {0} |-> "current"]
  /\ sent = {} /\ accepted = {} /\ reused = FALSE /\ replayed = FALSE

\* Mutant of PruneEpochs: the epoch just left is dropped as well.
PruneEpochsHarder(D, current) == {e \in D : e = 0 \/ e >= current}

\* prune_epochs(): the epochs of D that stay.
PruneEpochs(D, current) == {e \in D : e = 0 \/ e + 1 >= current}

\* Mutant of PruneStates: TLS_RETAINED_CIPHERSTATES is 3.
PruneStatesLess(D) == {e \in D : e = 0 \/ Cardinality({x \in D : x > e}) < 3}

\* prune_old_cipher_states(): the two highest non-zero epochs stay.
PruneStates(D) == {e \in D : e = 0 \/ Cardinality({x \in D : x > e}) < 2}

-----------------------------------------------------------------------------

Overflow(n) == n > MaxSeq

\* Mutant of NextSequence: the counter wraps.
NextSequenceWraps(n) == (n + 1) % (MaxSeq + 1)

NextSequence(n) == n + 1

\* write_record() under an epoch: the current one or, for a flight that is
\* retransmitted, an earlier one.  next_write_sequence() and
\* write_cipher_state_epoch() throw where the guards fail.
WriteRecord(e) ==
  LET r == [assoc |-> wAssoc, epoch |-> e, seq |-> wSeqs[e]]
  IN  /\ e \in wStates
      /\ e \in DOMAIN wSeqs
      /\ ~Overflow(wSeqs[e])
      /\ Cardinality(sent) < MaxSent
      /\ wSeqs' = [wSeqs EXCEPT ![e] = NextSequence(@)]
      /\ sent' = sent \cup {r}
      /\ reused' = (reused \/ r \in sent)
      /\ UNCHANGED <<wAssoc, wEpoch, wStates, reader, accepted, replayed>>

\* change_cipher_spec_writer(), new_write_cipher_state(); next_epoch() throws at
\* the last epoch.
ChangeWriter ==
  LET new == wEpoch + 1
      D   == PruneEpochs(DOMAIN wSeqs \cup {new}, new)
  IN  /\ wStates # {}
      /\ wEpoch < MaxEpoch
      /\ wEpoch' = new
      /\ wSeqs' = [e \in D |-> IF e = new THEN 0 ELSE wSeqs[e]]
      /\ wStates' = PruneStates(wStates \cup {new})
      /\ UNCHANGED <<wAssoc, reader, sent, accepted, reused, replayed>>

\* change_cipher_spec_reader(), new_read_cipher_state(): the peer's
\* ChangeCipherSpec has arrived.
ChangeReader ==
  LET new == rEpoch + 1
      D   == PruneEpochs(DOMAIN rWindows \cup {new}, new)
      S   == PruneStates(DOMAIN rStates \cup {new})
  IN  /\ DOMAIN rStates # {}
      /\ rAssoc = wAssoc /\ rEpoch < wEpoch
      /\ rEpoch' = new
      /\ rWindows' = [e \in D |-> IF e \in DOMAIN rWindows THEN rWindows[e] ELSE NewWindow]
      /\ rStates' = [e \in S |-> IF e = new THEN "current"
                                 ELSE IF e = rEpoch /\ e > 0 THEN "retired"
                                 ELSE rStates[e]]
      /\ UNCHANGED <<rAssoc, writer, sent, accepted, reused, replayed>>

\* More than TCP_MSL_MS pass after an epoch was retired.
EpochExpires(e) ==
  /\ e \in DOMAIN rStates
  /\ rStates[e] = "retired"
  /\ rStates' = [rStates EXCEPT ![e] = "expired"]
  /\ UNCHANGED <<rAssoc, rEpoch, rWindows, writer, sent, accepted, reused, replayed>>

-----------------------------------------------------------------------------

\* Mutant of AlreadySeen: the window is one record too small.
AlreadySeenLow(e, s) ==
  /\ e \in DOMAIN rWindows
  /\ s <= rWindows[e].highest
  /\ LET offset == rWindows[e].highest - s
     IN  offset + 1 >= WindowSize \/ offset \in rWindows[e].bits

\* already_seen()
AlreadySeen(e, s) ==
  /\ e \in DOMAIN rWindows
  /\ s <= rWindows[e].highest
  /\ LET offset == rWindows[e].highest - s
     IN  offset >= WindowSize \/ offset \in rWindows[e].bits

\* read_accept()
Accept(w, s) ==
  IF s > w.highest
  THEN [highest |-> s,
        bits    |-> {0} \cup {b \in Offsets : b - (s - w.highest) \in w.bits}]
  ELSE IF w.highest - s < WindowSize
       THEN [highest |-> w.highest, bits |-> w.bits \cup {w.highest - s}]
       ELSE [highest |-> s, bits |-> {0}]

\* get_cipherstate() and decrypt_record() succeed.
Decrypts(r) ==
  /\ r.epoch \in DOMAIN rStates
  /\ rStates[r.epoch] # "expired"
  /\ r.assoc = rAssoc

\* read_dtls_record(): a protected record is accepted.
ReadRecord(r) ==
  /\ r.epoch > 0
  /\ ~AlreadySeen(r.epoch, r.seq)
  /\ Decrypts(r)
  /\ LET w == IF r.epoch \in DOMAIN rWindows THEN rWindows[r.epoch] ELSE NewWindow
     IN  rWindows' = [e \in DOMAIN rWindows \cup {r.epoch} |->
                        IF e = r.epoch THEN Accept(w, r.seq) ELSE rWindows[e]]
  /\ accepted' = accepted \cup {r}
  /\ replayed' = (replayed \/ r \in accepted)
  /\ UNCHANGED <<rAssoc, rEpoch, rStates, writer, sent, reused>>

\* read_dtls_record(): the record is dropped, or is plaintext of epoch 0, which
\* is handed on without touching the replay window.
PassOver(r) ==
  /\ r.epoch = 0 \/ AlreadySeen(r.epoch, r.seq) \/ ~Decrypts(r)
  /\ UNCHANGED vars

-----------------------------------------------------------------------------

\* A new association: reset_active_association_state() on a server, or a new
\* client channel.  The ends change over one after the other.
RestartWriter ==
  /\ wAssoc <= rAssoc /\ wAssoc < MaxAssoc
  /\ wAssoc' = wAssoc + 1
  /\ FreshWriter
  /\ UNCHANGED <<reader, sent, accepted, reused, replayed>>

RestartReader ==
  /\ rAssoc <= wAssoc /\ rAssoc < MaxAssoc
  /\ rAssoc' = rAssoc + 1
  /\ FreshReader
  /\ UNCHANGED <<writer, sent, accepted, reused, replayed>>

\* reset_state(), after a fatal alert or when a handshake is given up: the
\* cipher states go, the sequence numbers stay.
CloseWriter ==
  /\ wStates # {}
  /\ wStates' = {}
  /\ UNCHANGED <<wAssoc, wEpoch, wSeqs, reader, sent, accepted, reused, replayed>>

CloseReader ==
  /\ DOMAIN rStates # {}
  /\ rStates' = [e \in {} |-> "current"]
  /\ UNCHANGED <<rAssoc, rEpoch, rWindows, writer, sent, accepted, reused, replayed>>

Next ==
  \/ \E e \in Epochs : WriteRecord(e) \/ EpochExpires(e)
  \/ ChangeWriter \/ ChangeReader
  \/ \E r \in sent : ReadRecord(r) \/ PassOver(r)
  \/ RestartWriter \/ RestartReader \/ CloseWriter \/ CloseReader

Spec == Init /\ [][Next]_vars

-----------------------------------------------------------------------------

Windows == [highest : Seqs, bits : SUBSET Offsets]

\* Every variable stays in its range.
TypeOK ==
  /\ wAssoc \in Assocs /\ rAssoc \in Assocs
  /\ wEpoch \in Epochs /\ rEpoch \in Epochs
  /\ DOMAIN wSeqs \subseteq Epochs
  /\ \A e \in DOMAIN wSeqs : wSeqs[e] \in 0..(MaxSeq + 1)
  /\ wStates \subseteq Epochs
  /\ DOMAIN rWindows \subseteq Epochs
  /\ \A e \in DOMAIN rWindows : rWindows[e] \in Windows
  /\ DOMAIN rStates \subseteq Epochs
  /\ \A e \in DOMAIN rStates : rStates[e] \in {"current", "retired", "expired"}
  /\ sent \subseteq Records /\ accepted \subseteq sent
  /\ reused \in BOOLEAN /\ replayed \in BOOLEAN

\* No two records are written with the same sequence number under one key,
\* however often the epoch changes, flights are retransmitted under old epochs
\* and associations are restarted: the AEAD nonce is derived from it.
NonceUnique == reused = FALSE

\* A protected record is accepted at most once, however often it is delivered.
NoReplay == replayed = FALSE

\* "The behavior of this function must match the value of
\* TLS_RETAINED_CIPHERSTATES": an epoch has a cipher state exactly when it has
\* a replay window (a write counter), until the channel is closed.
KeysHaveWindows ==
  /\ wStates # {} => wStates = DOMAIN wSeqs
  /\ DOMAIN rStates # {} => DOMAIN rStates = DOMAIN rWindows

\* The window does not refuse what it need not: a record that has not been
\* accepted and lies within the window is not reported as seen.
NoFalseAlarm ==
  \A r \in sent \ accepted :
    (r.epoch > 0 /\ r.assoc = rAssoc /\ r.epoch \in DOMAIN rWindows
       /\ rWindows[r.epoch].highest - r.seq < WindowSize)
    => ~AlreadySeen(r.epoch, r.seq)

=============================================================================
