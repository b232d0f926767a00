----------------------------- MODULE DtlsProofs -----------------------------
(***************************************************************************)
(* For every number of associations, epochs and sequence numbers and every *)
(* window size: no nonce is used twice, no protected record is accepted    *)
(* twice, and the window refuses nothing that it could tell is new.        *)
(*                                                                         *)
(* The argument: both pruning rules keep exactly the epochs Live(current), *)
(* so a key never outlives its window (KeyInv); a write counter is above   *)
(* everything written in its epoch (WriteInv); a window remembers every    *)
(* accepted record that is not too old, and nothing else (ReadInv).        *)
(***************************************************************************)
EXTENDS DtlsRecordLayer, FiniteSetTheorems, TLAPS

\* The epochs whose state is kept when the current one is c.
Live(c) == {e \in 0..c : e = 0 \/ e + 1 >= c}

KeyInv ==
  /\ DOMAIN wSeqs = Live(wEpoch) /\ wStates \in {{}, Live(wEpoch)}
  /\ DOMAIN rWindows = Live(rEpoch) /\ DOMAIN rStates \in {{}, Live(rEpoch)}

WriteInv ==
  /\ \A r \in sent :
       /\ r.assoc <= wAssoc
       /\ r.assoc = wAssoc => /\ r.epoch <= wEpoch
                              /\ r.epoch \in DOMAIN wSeqs => r.seq < wSeqs[r.epoch]
  /\ reused = FALSE

ReadInv ==
  /\ \A r \in accepted :
       /\ r.assoc <= rAssoc
       /\ r.assoc = rAssoc =>
            /\ 0 < r.epoch /\ r.epoch <= rEpoch
            /\ r.epoch \in DOMAIN rWindows =>
                 /\ r.seq <= rWindows[r.epoch].highest
                 /\ rWindows[r.epoch].highest - r.seq < WindowSize
                      => rWindows[r.epoch].highest - r.seq \in rWindows[r.epoch].bits
  /\ \A e \in DOMAIN rWindows : \A b \in rWindows[e].bits :
       /\ b <= rWindows[e].highest
       /\ [assoc |-> rAssoc, epoch |-> e, seq |-> rWindows[e].highest - b] \in accepted
  /\ replayed = FALSE

Inv == TypeOK /\ KeyInv /\ WriteInv /\ ReadInv

-----------------------------------------------------------------------------

\* prune_epochs() after a step to the next epoch.
LEMMA PruneEpochsLive ==
  ASSUME NEW c \in Nat
  PROVE  PruneEpochs(Live(c) \cup {c + 1}, c + 1) = Live(c + 1)
BY DEF PruneEpochs, Live

LEMMA CardTwo ==
  ASSUME NEW a, NEW b, a # b
  PROVE  Cardinality({a, b}) = 2
<1>1. IsFiniteSet({a}) /\ Cardinality({a}) = 1
  BY FS_Singleton
<1>2. b \notin {a} /\ {a} \cup {b} = {a, b}
  OBVIOUS
<1>3. Cardinality({a} \cup {b}) = Cardinality({a}) + 1
  BY <1>1, <1>2, FS_AddElement
<1> QED
  BY <1>1, <1>2, <1>3

\* prune_old_cipher_states() keeps the same epochs, by counting.
LEMMA PruneStatesLive ==
  ASSUME NEW c \in Nat
  PROVE  PruneStates(Live(c) \cup {c + 1}) = Live(c + 1)
<1> DEFINE D == Live(c) \cup {c + 1}
           Above(e) == {x \in D : x > e}
<1>1. ASSUME NEW e \in D, e = c + 1 PROVE Cardinality(Above(e)) = 0
  <2>1. Above(e) = {}
    BY <1>1 DEF Live
  <2> QED
    BY <2>1, FS_EmptySet
<1>2. ASSUME NEW e \in D, e = c PROVE Cardinality(Above(e)) = 1
  <2>1. Above(e) = {c + 1}
    BY <1>2 DEF Live
  <2> QED
    BY <2>1, FS_Singleton
<1>3. ASSUME NEW e \in D, e + 1 = c PROVE Cardinality(Above(e)) = 2
  <2>1. Above(e) = {c, c + 1} /\ c # c + 1
    BY <1>3 DEF Live
  <2>2. Cardinality({c, c + 1}) = 2
    BY <2>1, CardTwo
  <2> QED
    BY <2>1, <2>2
<1>4. ASSUME NEW e \in D, e # 0
      PROVE  Cardinality(Above(e)) < 2 <=> e >= c
  <2>1. e = c + 1 \/ e = c \/ e + 1 = c
    BY <1>4 DEF Live
  <2>2. CASE e = c + 1
    BY <2>2, <1>1
  <2>3. CASE e = c
    BY <2>3, <1>2
  <2>4. CASE e + 1 = c
    <3>1. e \in Nat /\ ~(e >= c)
      BY <2>4 DEF Live
    <3> QED
      BY <2>4, <1>3, <3>1
  <2> QED
    BY <2>1, <2>2, <2>3, <2>4
<1>5. PruneStates(D) = {e \in D : e = 0 \/ e >= c}
  BY <1>4 DEF PruneStates
<1>6. {e \in D : e = 0 \/ e >= c} = Live(c + 1)
  BY DEF Live
<1> QED
  BY <1>5, <1>6

-----------------------------------------------------------------------------

LEMMA InitInv == Init => Inv
<1> SUFFICES ASSUME Init PROVE Inv
  OBVIOUS
<1> USE DtlsAssumption DEF Init
<1>1. TypeOK
  <2>1. 0 \in Assocs /\ 0 \in Epochs /\ 0 \in Seqs /\ 0 \in 0..(MaxSeq + 1)
    BY DEF Assocs, Epochs, Seqs
  <2>2. NewWindow \in Windows
    BY <2>1 DEF Windows, NewWindow
  <2> QED
    BY <2>1, <2>2 DEF TypeOK
<1>2. KeyInv
  BY DEF KeyInv, Live
<1>3. WriteInv /\ ReadInv
  BY DEF WriteInv, ReadInv, NewWindow
<1> QED
  BY <1>1, <1>2, <1>3 DEF Inv

LEMMA WriteRecordInv ==
  ASSUME Inv, NEW e \in Epochs, WriteRecord(e)
  PROVE  Inv'
<1> DEFINE r == [assoc |-> wAssoc, epoch |-> e, seq |-> wSeqs[e]]
<1> USE DEF Inv
<1>1. /\ e \in wStates /\ e \in DOMAIN wSeqs /\ wSeqs[e] <= MaxSeq
      /\ wSeqs' = [wSeqs EXCEPT ![e] = wSeqs[e] + 1]
      /\ sent' = sent \cup {r}
      /\ reused' = (reused \/ r \in sent)
      /\ UNCHANGED <<wAssoc, wEpoch, wStates, reader, accepted, replayed>>
  <2>1. wSeqs[e] \in 0..(MaxSeq + 1) \/ e \notin DOMAIN wSeqs
    BY DEF TypeOK
  <2> QED
    BY <2>1, DtlsAssumption DEF WriteRecord, Overflow, NextSequence
<1>2. wSeqs[e] \in Seqs /\ wSeqs[e] + 1 \in 0..(MaxSeq + 1) /\ wSeqs[e] \in Nat
  BY <1>1, DtlsAssumption DEF TypeOK, Seqs
<1>3. r \in Records /\ r \notin sent
  <2>1. r \in Records
    BY <1>2 DEF TypeOK, Records
  <2>2. ~(wSeqs[e] < wSeqs[e])
    BY <1>2
  <2> QED
    BY <1>1, <2>1, <2>2 DEF WriteInv
<1>4. DOMAIN wSeqs' = DOMAIN wSeqs /\ wSeqs'[e] = wSeqs[e] + 1
      /\ \A x \in DOMAIN wSeqs : x # e => wSeqs'[x] = wSeqs[x]
  BY <1>1
<1>5. TypeOK'
  BY <1>1, <1>2, <1>3, <1>4 DEF TypeOK, reader
<1>6. KeyInv'
  BY <1>1, <1>4 DEF KeyInv, reader
<1>7. ReadInv'
  BY <1>1 DEF ReadInv, reader
<1>8. WriteInv'
  <2>1. reused' = FALSE
    BY <1>1, <1>3 DEF WriteInv
  <2>2. e <= wEpoch /\ wAssoc <= wAssoc
    BY <1>1, DtlsAssumption DEF KeyInv, Live, TypeOK, Epochs, Assocs
  <2>3. ASSUME NEW q \in sent, q.assoc = wAssoc, q.epoch \in DOMAIN wSeqs
        PROVE  q.seq < wSeqs'[q.epoch]
    <3>1. q.seq < wSeqs[q.epoch] /\ q.seq \in Nat
      BY <2>3, DtlsAssumption DEF WriteInv, TypeOK, Records, Seqs
    <3>2. CASE q.epoch = e
      BY <1>2, <1>4, <3>1, <3>2
    <3>3. CASE q.epoch # e
      BY <1>4, <2>3, <3>1, <3>3
    <3> QED
      BY <3>2, <3>3
  <2>4. r.assoc = wAssoc /\ r.epoch = e /\ r.seq < wSeqs'[e]
    BY <1>2, <1>4
  <2> QED
    BY <1>1, <1>4, <2>1, <2>2, <2>3, <2>4 DEF WriteInv
<1> QED
  BY <1>5, <1>6, <1>7, <1>8

LEMMA ChangeWriterInv ==
  ASSUME Inv, ChangeWriter
  PROVE  Inv'
<1> DEFINE new == wEpoch + 1
<1> USE DEF Inv
<1>1. wEpoch \in Nat /\ new \in Epochs /\ wStates = Live(wEpoch)
  <2>1. wStates # {} /\ wEpoch < MaxEpoch
    BY DEF ChangeWriter
  <2>2. wEpoch \in Nat /\ new \in Epochs
    BY <2>1, DtlsAssumption DEF TypeOK, Epochs
  <2> QED
    BY <2>1, <2>2 DEF KeyInv
<1>2. /\ wEpoch' = new
      /\ wSeqs' = [e \in Live(new) |-> IF e = new THEN 0 ELSE wSeqs[e]]
      /\ wStates' = Live(new)
      /\ UNCHANGED <<wAssoc, reader, sent, accepted, reused, replayed>>
  BY <1>1, PruneEpochsLive, PruneStatesLive DEF ChangeWriter, KeyInv
<1>3. \A e \in Live(new) : e # new => e \in Live(wEpoch)
  BY <1>1 DEF Live
<1>4. Live(new) \subseteq Epochs
  BY <1>1, DtlsAssumption DEF Live, Epochs
<1>5. TypeOK'
  <2>1. \A e \in DOMAIN wSeqs' : wSeqs'[e] \in 0..(MaxSeq + 1)
    BY <1>2, <1>3, DtlsAssumption DEF TypeOK, KeyInv
  <2> QED
    BY <1>1, <1>2, <1>4, <2>1 DEF TypeOK, reader
<1>6. KeyInv'
  BY <1>2 DEF KeyInv, reader
<1>7. ReadInv'
  BY <1>2 DEF ReadInv, reader
<1>8. WriteInv'
  <2>1. ASSUME NEW q \in sent, q.assoc = wAssoc
        PROVE  q.epoch <= new /\ (q.epoch \in Live(new) => q.seq < wSeqs'[q.epoch])
    <3>1. q.epoch <= wEpoch /\ q.epoch \in Nat /\ q.epoch # new /\ q.epoch <= new
      BY <1>1, <2>1, DtlsAssumption DEF WriteInv, TypeOK, Records, Epochs
    <3> QED
      BY <1>2, <1>3, <2>1, <3>1 DEF WriteInv, KeyInv
  <2> QED
    BY <1>2, <2>1 DEF WriteInv
<1> QED
  BY <1>5, <1>6, <1>7, <1>8

LEMMA ChangeReaderInv ==
  ASSUME Inv, ChangeReader
  PROVE  Inv'
<1> DEFINE new == rEpoch + 1
<1> USE DEF Inv
<1>1. rEpoch \in Nat /\ new \in Epochs /\ DOMAIN rStates = Live(rEpoch)
  <2>1. DOMAIN rStates # {} /\ rEpoch < wEpoch
    BY DEF ChangeReader
  <2>2. rEpoch \in Nat /\ new \in Epochs
    BY <2>1, DtlsAssumption DEF TypeOK, Epochs
  <2> QED
    BY <2>1, <2>2 DEF KeyInv
<1>2. /\ rEpoch' = new
      /\ rWindows' = [e \in Live(new) |-> IF e \in Live(rEpoch) THEN rWindows[e] ELSE NewWindow]
      /\ rStates' = [e \in Live(new) |-> IF e = new THEN "current"
                                         ELSE IF e = rEpoch /\ e > 0 THEN "retired"
                                         ELSE rStates[e]]
      /\ UNCHANGED <<rAssoc, writer, sent, accepted, reused, replayed>>
  BY <1>1, PruneEpochsLive, PruneStatesLive DEF ChangeReader, KeyInv
<1>3. /\ \A e \in Live(new) : e # new => e \in Live(rEpoch)
      /\ new \notin Live(rEpoch)
  BY <1>1 DEF Live
<1>4. Live(new) \subseteq Epochs
  BY <1>1, DtlsAssumption DEF Live, Epochs
<1>5. DOMAIN rWindows' = Live(new) /\ DOMAIN rStates' = Live(new)
      /\ rWindows'[new] = NewWindow
      /\ \A e \in Live(new) : e # new => rWindows'[e] = rWindows[e]
  BY <1>1, <1>2, <1>3 DEF Live
<1>6. TypeOK'
  <2>1. NewWindow \in Windows
    BY DtlsAssumption DEF Windows, NewWindow, Seqs
  <2>2. \A e \in Live(new) : rWindows'[e] \in Windows
    BY <1>3, <1>5, <2>1 DEF TypeOK, KeyInv
  <2>3. \A e \in Live(new) : rStates'[e] \in {"current", "retired", "expired"}
    BY <1>1, <1>2, <1>3 DEF TypeOK
  <2> QED
    BY <1>1, <1>2, <1>4, <1>5, <2>2, <2>3 DEF TypeOK, writer
<1>7. KeyInv'
  BY <1>2, <1>5 DEF KeyInv, writer
<1>8. WriteInv'
  BY <1>2 DEF WriteInv, writer
<1>9. ReadInv'
  <2>1. ASSUME NEW q \in accepted, q.assoc = rAssoc
        PROVE  0 < q.epoch /\ q.epoch <= new /\ q.epoch # new
    <3>1. q.epoch \in Nat
      BY DtlsAssumption DEF TypeOK, Records, Epochs
    <3>2. 0 < q.epoch /\ q.epoch <= rEpoch
      BY <2>1 DEF ReadInv
    <3> QED
      BY <1>1, <3>1, <3>2
  <2>2. NewWindow.bits = {}
    BY DEF NewWindow
  <2>3. \A q \in accepted : q.assoc = rAssoc /\ q.epoch \in Live(new)
           => q.epoch \in DOMAIN rWindows /\ rWindows'[q.epoch] = rWindows[q.epoch]
    BY <1>3, <1>5, <2>1 DEF KeyInv
  <2>4. \A e \in Live(new) : rWindows'[e].bits # {}
           => e \in DOMAIN rWindows /\ rWindows'[e] = rWindows[e]
    BY <1>3, <1>5, <2>2 DEF KeyInv
  <2>5. \A e \in Live(new) : \A b \in rWindows'[e].bits :
          /\ b <= rWindows'[e].highest
          /\ [assoc |-> rAssoc, epoch |-> e, seq |-> rWindows'[e].highest - b] \in accepted
    BY <2>4 DEF ReadInv
  <2>6. \A q \in accepted :
          /\ q.assoc <= rAssoc
          /\ q.assoc = rAssoc =>
               /\ 0 < q.epoch /\ q.epoch <= new
               /\ q.epoch \in Live(new) =>
                    /\ q.seq <= rWindows'[q.epoch].highest
                    /\ rWindows'[q.epoch].highest - q.seq < WindowSize
                         => rWindows'[q.epoch].highest - q.seq \in rWindows'[q.epoch].bits
    BY <2>1, <2>3 DEF ReadInv
  <2> QED
    BY <1>2, <1>5, <2>5, <2>6 DEF ReadInv
<1> QED
  BY <1>6, <1>7, <1>8, <1>9

-----------------------------------------------------------------------------

\* What read_accept() makes of a window w for a record s that w does not rule
\* out: the new window v remembers s and all that w remembered, and no more.
LEMMA AcceptFacts ==
  ASSUME NEW w \in Windows, NEW s \in Seqs,
         s > w.highest \/ w.highest - s < WindowSize,
         NEW v, v = Accept(w, s)
  PROVE  /\ v \in Windows
         /\ s <= v.highest /\ v.highest >= w.highest /\ v.highest - s \in v.bits
         /\ \A q \in Nat :
              (q <= w.highest /\ (w.highest - q < WindowSize => w.highest - q \in w.bits))
              => (q <= v.highest /\ (v.highest - q < WindowSize => v.highest - q \in v.bits))
         /\ \A b \in v.bits :
              \/ b <= v.highest /\ v.highest - b = s
              \/ \E c \in w.bits : (c <= w.highest => b <= v.highest)
                                   /\ v.highest - b = w.highest - c
<1>1. w.highest \in Nat /\ w.highest <= MaxSeq /\ w.bits \subseteq Offsets /\ s \in Nat /\ s <= MaxSeq
  BY DtlsAssumption DEF Windows, Seqs
<1>2. CASE s > w.highest
  <2>1. v = [highest |-> s, bits |-> {0} \cup {b \in Offsets : b - (s - w.highest) \in w.bits}]
    BY <1>2 DEF Accept
  <2>2. v.highest = s /\ v.bits = {0} \cup {b \in Offsets : b - (s - w.highest) \in w.bits}
    BY <2>1
  <2>3. 0 \in Offsets /\ s \in Seqs
    BY DtlsAssumption DEF Offsets
  <2>4. v \in Windows
    BY <2>1, <2>3 DEF Windows
  <2>5. ASSUME NEW q \in Nat, q <= w.highest,
               w.highest - q < WindowSize => w.highest - q \in w.bits, s - q < WindowSize
        PROVE  s - q \in v.bits
    <3>1. s - q \in Offsets /\ (s - q) - (s - w.highest) = w.highest - q /\ w.highest - q < WindowSize
      BY <1>1, <1>2, <2>5, DtlsAssumption DEF Offsets
    <3> QED
      BY <2>2, <2>5, <3>1
  <2>6. ASSUME NEW b \in v.bits, b # 0
        PROVE  \E c \in w.bits : (c <= w.highest => b <= s) /\ s - b = w.highest - c
    <3>1. b - (s - w.highest) \in w.bits /\ b \in Offsets
      BY <2>2, <2>6
    <3>2. b \in Nat
      BY <3>1, DtlsAssumption DEF Offsets
    <3>3. /\ b - (s - w.highest) <= w.highest => b <= s
          /\ s - b = w.highest - (b - (s - w.highest))
      BY <1>1, <3>2
    <3> QED
      BY <3>1, <3>3
  <2> QED
    BY <1>1, <1>2, <2>2, <2>4, <2>5, <2>6
<1>3. CASE ~(s > w.highest)
  <2>1. w.highest - s < WindowSize
    BY <1>3
  <2>2. v = [highest |-> w.highest, bits |-> w.bits \cup {w.highest - s}]
    BY <1>3, <2>1 DEF Accept
  <2>3. v.highest = w.highest /\ v.bits = w.bits \cup {w.highest - s}
    BY <2>2
  <2>4. w.highest - s \in Offsets
    BY <1>1, <1>3, <2>1, DtlsAssumption DEF Offsets
  <2>5. v \in Windows
    BY <1>1, <2>2, <2>4 DEF Windows
  <2>6. w.highest - s <= w.highest /\ w.highest - (w.highest - s) = s
    BY <1>1
  <2> QED
    BY <1>1, <1>3, <2>3, <2>5, <2>6
<1> QED
  BY <1>2, <1>3

LEMMA ReadRecordInv ==
  ASSUME Inv, NEW r \in sent, ReadRecord(r)
  PROVE  Inv'
<1> USE DEF Inv
<1> DEFINE e == r.epoch
           w == rWindows[e]
           v == Accept(w, r.seq)
<1>1. /\ r.assoc = rAssoc /\ e > 0 /\ e \in DOMAIN rStates
      /\ accepted' = accepted \cup {r}
      /\ replayed' = (replayed \/ r \in accepted)
      /\ UNCHANGED <<rAssoc, rEpoch, rStates, writer, sent, reused>>
  BY DEF ReadRecord, Decrypts
<1>2. r \in Records /\ r.seq \in Seqs /\ e \in Epochs
      /\ r = [assoc |-> rAssoc, epoch |-> e, seq |-> r.seq]
  BY <1>1 DEF TypeOK, Records
<1>3. e \in DOMAIN rWindows /\ w \in Windows /\ e <= rEpoch
  BY <1>1, <1>2, DtlsAssumption DEF TypeOK, KeyInv, Live, Epochs
<1>4. rWindows' = [x \in DOMAIN rWindows |-> IF x = e THEN v ELSE rWindows[x]]
  <2>1. DOMAIN rWindows \cup {e} = DOMAIN rWindows
    BY <1>3
  <2> QED
    BY <1>3, <2>1 DEF ReadRecord
<1>5. /\ DOMAIN rWindows' = DOMAIN rWindows /\ rWindows'[e] = v
      /\ \A x \in DOMAIN rWindows : x # e => rWindows'[x] = rWindows[x]
  BY <1>3, <1>4
<1>6. w.highest \in Nat /\ r.seq \in Nat
  BY <1>2, <1>3, DtlsAssumption DEF Windows, Seqs
<1>7. ~AlreadySeen(e, r.seq)
  BY DEF ReadRecord
<1>8. r.seq > w.highest \/ (w.highest - r.seq < WindowSize /\ w.highest - r.seq \notin w.bits)
  BY <1>3, <1>6, <1>7, DtlsAssumption DEF AlreadySeen
<1>9. r \notin accepted
  <2>1. ASSUME r \in accepted PROVE FALSE
    <3>1. r.seq <= w.highest /\ (w.highest - r.seq < WindowSize => w.highest - r.seq \in w.bits)
      BY <1>1, <1>3, <2>1 DEF ReadInv
    <3> QED
      BY <1>6, <1>8, <3>1
  <2> QED
    BY <2>1
<1>10. /\ v \in Windows
       /\ r.seq <= v.highest /\ v.highest >= w.highest /\ v.highest - r.seq \in v.bits
       /\ \A q \in Nat :
            (q <= w.highest /\ (w.highest - q < WindowSize => w.highest - q \in w.bits))
            => (q <= v.highest /\ (v.highest - q < WindowSize => v.highest - q \in v.bits))
       /\ \A b \in v.bits :
            \/ b <= v.highest /\ v.highest - b = r.seq
            \/ \E c \in w.bits : (c <= w.highest => b <= v.highest)
                                 /\ v.highest - b = w.highest - c
  BY <1>2, <1>3, <1>8, AcceptFacts
<1>11. TypeOK'
  BY <1>1, <1>5, <1>10 DEF TypeOK, writer
<1>12. KeyInv'
  BY <1>1, <1>5 DEF KeyInv, writer
<1>13. WriteInv'
  BY <1>1 DEF WriteInv, writer
<1>14. ReadInv'
  <2>1. replayed' = FALSE
    BY <1>1, <1>9 DEF ReadInv
  <2>2. ASSUME NEW q \in accepted', q.assoc = rAssoc
        PROVE  /\ 0 < q.epoch /\ q.epoch <= rEpoch
               /\ q.epoch \in DOMAIN rWindows =>
                    /\ q.seq <= rWindows'[q.epoch].highest
                    /\ rWindows'[q.epoch].highest - q.seq < WindowSize
                         => rWindows'[q.epoch].highest - q.seq \in rWindows'[q.epoch].bits
    <3>1. CASE q = r
      BY <1>1, <1>2, <1>3, <1>5, <1>10, <3>1, DtlsAssumption DEF Epochs
    <3>2. CASE q # r
      <4>1. /\ q \in accepted /\ q.seq \in Nat /\ 0 < q.epoch /\ q.epoch <= rEpoch
        BY <1>1, <2>2, <3>2, DtlsAssumption DEF ReadInv, TypeOK, Records, Seqs
      <4>2. q.epoch \in DOMAIN rWindows =>
              /\ q.seq <= rWindows[q.epoch].highest
              /\ rWindows[q.epoch].highest - q.seq < WindowSize
                   => rWindows[q.epoch].highest - q.seq \in rWindows[q.epoch].bits
        BY <2>2, <4>1 DEF ReadInv
      <4>3. CASE q.epoch = e
        BY <1>5, <1>10, <4>1, <4>2, <4>3
      <4>4. CASE q.epoch # e
        BY <1>5, <4>1, <4>2, <4>4
      <4> QED
        BY <4>3, <4>4
    <3> QED
      BY <3>1, <3>2
  <2>3. ASSUME NEW x \in DOMAIN rWindows, NEW b \in rWindows'[x].bits
        PROVE  /\ b <= rWindows'[x].highest
               /\ [assoc |-> rAssoc, epoch |-> x, seq |-> rWindows'[x].highest - b] \in accepted'
    <3>1. CASE x # e
      BY <1>1, <1>5, <3>1 DEF ReadInv
    <3>2. CASE x = e
      <4>1. CASE b <= v.highest /\ v.highest - b = r.seq
        BY <1>1, <1>2, <1>5, <3>2, <4>1
      <4>2. CASE \E c \in w.bits : (c <= w.highest => b <= v.highest)
                                   /\ v.highest - b = w.highest - c
        <5>1. PICK c \in w.bits : (c <= w.highest => b <= v.highest)
                                  /\ v.highest - b = w.highest - c
          BY <4>2
        <5>2. c <= w.highest
              /\ [assoc |-> rAssoc, epoch |-> e, seq |-> w.highest - c] \in accepted
          BY <1>3 DEF ReadInv
        <5> QED
          BY <1>1, <1>5, <3>2, <5>1, <5>2
      <4> QED
        BY <1>5, <1>10, <3>2, <4>1, <4>2
    <3> QED
      BY <3>1, <3>2
  <2>4. \A q \in accepted' : q.assoc <= rAssoc
    BY <1>1, <1>2, DtlsAssumption DEF ReadInv, TypeOK, Assocs
  <2> QED
    BY <1>1, <1>5, <2>1, <2>2, <2>3, <2>4 DEF ReadInv
<1> QED
  BY <1>11, <1>12, <1>13, <1>14

LEMMA EpochExpiresInv ==
  ASSUME Inv, NEW e \in Epochs, EpochExpires(e)
  PROVE  Inv'
<1>1. DOMAIN rStates' = DOMAIN rStates
      /\ \A x \in DOMAIN rStates : rStates'[x] \in {rStates[x], "expired"}
  BY DEF EpochExpires
<1> QED
  BY <1>1 DEF EpochExpires, Inv, TypeOK, KeyInv, WriteInv, ReadInv, writer

LEMMA RestartWriterInv ==
  ASSUME Inv, RestartWriter
  PROVE  Inv'
<1> USE DEF Inv
<1>1. /\ wAssoc' = wAssoc + 1 /\ wEpoch' = 0 /\ wSeqs' = [e \in {0} |-> 0] /\ wStates' = {0}
      /\ UNCHANGED <<reader, sent, accepted, reused, replayed>>
  BY DEF RestartWriter, FreshWriter
<1>2. wAssoc \in Nat /\ wAssoc + 1 \in Assocs /\ 0 \in Epochs /\ 0 \in 0..(MaxSeq + 1)
  BY DtlsAssumption DEF RestartWriter, TypeOK, Assocs, Epochs
<1>3. TypeOK'
  BY <1>1, <1>2 DEF TypeOK, reader
<1>4. KeyInv'
  BY <1>1 DEF KeyInv, Live, reader
<1>5. ReadInv'
  BY <1>1 DEF ReadInv, reader
<1>6. \A q \in sent : q.assoc <= wAssoc + 1 /\ q.assoc # wAssoc + 1
  <2>1. \A q \in sent : q.assoc \in Nat /\ q.assoc <= wAssoc
    BY DtlsAssumption DEF WriteInv, TypeOK, Records, Assocs
  <2> QED
    BY <1>2, <2>1
<1>7. WriteInv'
  BY <1>1, <1>6 DEF WriteInv
<1> QED
  BY <1>3, <1>4, <1>5, <1>7

LEMMA RestartReaderInv ==
  ASSUME Inv, RestartReader
  PROVE  Inv'
<1> USE DEF Inv
<1>1. /\ rAssoc' = rAssoc + 1 /\ rEpoch' = 0
      /\ rWindows' = [e \in {0} |-> NewWindow]
      /\ rStates' = [e \in {0} |-> "current"]
      /\ UNCHANGED <<writer, sent, accepted, reused, replayed>>
  BY DEF RestartReader, FreshReader
<1>2. rAssoc \in Nat /\ rAssoc + 1 \in Assocs /\ 0 \in Epochs
  BY DtlsAssumption DEF RestartReader, TypeOK, Assocs, Epochs
<1>3. NewWindow \in Windows /\ NewWindow.bits = {}
  BY DtlsAssumption DEF Windows, NewWindow, Seqs
<1>4. TypeOK'
  BY <1>1, <1>2, <1>3 DEF TypeOK, writer
<1>5. KeyInv'
  BY <1>1 DEF KeyInv, Live, writer
<1>6. WriteInv'
  BY <1>1 DEF WriteInv, writer
<1>7. \A q \in accepted : q.assoc <= rAssoc + 1 /\ q.assoc # rAssoc + 1
  <2>1. \A q \in accepted : q.assoc \in Nat /\ q.assoc <= rAssoc
    BY DtlsAssumption DEF ReadInv, TypeOK, Records, Assocs
  <2> QED
    BY <1>2, <2>1
<1>8. ReadInv'
  BY <1>1, <1>3, <1>7 DEF ReadInv
<1> QED
  BY <1>4, <1>5, <1>6, <1>8

LEMMA CloseInv ==
  ASSUME Inv, CloseWriter \/ CloseReader
  PROVE  Inv'
<1>1. CASE CloseWriter
  BY <1>1 DEF CloseWriter, Inv, TypeOK, KeyInv, WriteInv, ReadInv, reader
<1>2. CASE CloseReader
  BY <1>2 DEF CloseReader, Inv, TypeOK, KeyInv, WriteInv, ReadInv, writer
<1> QED
  BY <1>1, <1>2

LEMMA StutterInv ==
  ASSUME Inv, UNCHANGED vars
  PROVE  Inv'
BY DEF vars, writer, reader, Inv, TypeOK, KeyInv, WriteInv, ReadInv

LEMMA NextInv ==
  ASSUME Inv, [Next]_vars
  PROVE  Inv'
BY StutterInv, WriteRecordInv, ChangeWriterInv, ChangeReaderInv, EpochExpiresInv,
   ReadRecordInv, RestartWriterInv, RestartReaderInv, CloseInv DEF Next, PassOver

\* KeyInv, WriteInv and ReadInv hold throughout: what the writer counts, what the
\* windows remember and which epochs are retained.
LEMMA InvHolds == Spec => []Inv
<1>1. Inv /\ [Next]_vars => Inv'
  BY NextInv
<1> QED
  BY <1>1, InitInv, PTL DEF Spec

-----------------------------------------------------------------------------

\* The variables stay in their ranges; in particular no epoch and no sequence
\* number goes beyond the last one.
THEOREM TypeCorrect == Spec => []TypeOK
<1>1. Inv => TypeOK
  BY DEF Inv
<1> QED
  BY <1>1, InvHolds, PTL

\* No sequence number is used twice under a key, for any number of epochs,
\* retransmissions and restarts.
THEOREM NoncesAreUnique == Spec => []NonceUnique
<1>1. Inv => NonceUnique
  BY DEF Inv, WriteInv, NonceUnique
<1> QED
  BY <1>1, InvHolds, PTL

\* No protected record is accepted twice, whatever the network does and whatever
\* the size of the window.
THEOREM ReplaysAreRefused == Spec => []NoReplay
<1>1. Inv => NoReplay
  BY DEF Inv, ReadInv, NoReplay
<1> QED
  BY <1>1, InvHolds, PTL

\* The two pruning rules agree: a cipher state is kept exactly as long as its
\* replay window or write counter.
THEOREM PruningAgrees == Spec => []KeysHaveWindows
<1>1. Inv => KeysHaveWindows
  BY DEF Inv, KeyInv, KeysHaveWindows
<1> QED
  BY <1>1, InvHolds, PTL

\* A record that was not accepted and is within the window is not refused.
THEOREM WindowIsExact == Spec => []NoFalseAlarm
<1>1. Inv => NoFalseAlarm
  <2> SUFFICES ASSUME Inv, NEW r \in sent \ accepted,
                      r.epoch > 0, r.assoc = rAssoc, r.epoch \in DOMAIN rWindows,
                      rWindows[r.epoch].highest - r.seq < WindowSize,
                      AlreadySeen(r.epoch, r.seq)
               PROVE  FALSE
    BY DEF NoFalseAlarm
  <2> DEFINE w == rWindows[r.epoch]
             b == w.highest - r.seq
  <2>1. /\ r = [assoc |-> rAssoc, epoch |-> r.epoch, seq |-> r.seq]
        /\ r.seq \in Nat /\ w.highest \in Nat
    BY DtlsAssumption DEF Inv, TypeOK, Records, Seqs, Windows
  <2>2. b \in w.bits
    BY <2>1, DtlsAssumption DEF AlreadySeen
  <2>3. [assoc |-> rAssoc, epoch |-> r.epoch, seq |-> w.highest - b] \in accepted
    BY <2>2 DEF Inv, ReadInv
  <2>4. w.highest - b = r.seq
    BY <2>1
  <2> QED
    BY <2>1, <2>3, <2>4
<1> QED
  BY <1>1, InvHolds, PTL
=============================================================================
