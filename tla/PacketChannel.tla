---------------------------- MODULE PacketChannel -----------------------------
(***************************************************************************)
(* What a protocol over TCPPacket relies on (src/cb/protocols/tcp.h): the  *)
(* packets received are the first of those sent, whole and in order, and   *)
(* none is received once the socket is closed.                             *)
(***************************************************************************)
EXTENDS Naturals, Sequences

CONSTANT Packets

VARIABLES
    sent,       \* packets handed to the channel
    received,   \* packets taken out of it
    open

Init == sent = <<>> /\ received = <<>> /\ open = TRUE

Send == \E p \in Packets : sent' = Append(sent, p) /\ UNCHANGED <<received, open>>

Receive ==
    /\ open /\ Len(received) < Len(sent)
    /\ received' = Append(received, sent[Len(received) + 1])
    /\ UNCHANGED <<sent, open>>

Close == open' = FALSE /\ UNCHANGED <<sent, received>>

Spec == Init /\ [][Send \/ Receive \/ Close]_<<sent, received, open>>
=============================================================================
