-------------------------- MODULE HandshakeStream --------------------------
(***************************************************************************)
(* What Handshake_IO promises to the handshake above it, whatever carries  *)
(* the records: each side is handed the messages its peer has sent, each   *)
(* of them once, unchanged and in the order of sending.                    *)
(***************************************************************************)
EXTENDS Sequences, SequencesExt, Naturals

CONSTANTS Sides, Peer(_)

VARIABLES sent, \* sent[s]: the messages that s has sent so far
          got   \* got[s]: the messages that s has been handed so far

vars == <<sent, got>>

Init == sent = [s \in Sides |-> <<>>] /\ got = [s \in Sides |-> <<>>]

\* The next message in line, if the peer has sent it.
Receive(s) ==
  /\ Len(got[s]) < Len(sent[Peer(s)])
  /\ got' = [got EXCEPT ![s] = Append(@, sent[Peer(s)][Len(@) + 1])]

\* A side may answer in the step in which it receives.
Send(s) ==
  /\ IsPrefix(sent[s], sent'[s])
  /\ \A q \in Sides \ {s} : sent'[q] = sent[q]

Next == \E s \in Sides : (Receive(s) \/ UNCHANGED got) /\ Send(s)

Spec == Init /\ [][Next]_vars
=============================================================================
