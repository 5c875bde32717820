---------------------------- MODULE BufferedSocket ----------------------------
(***************************************************************************)
(* Packets over a socket (src/cb/socket.cpp, protocols/tcp.cpp): TCPPacket *)
(* receives the length field of a packet, then the rest, each with         *)
(* Socket::recvAttempt, which loops over BufferedSocket::recv; it sends a  *)
(* packet with sendAttempt.  A byte is its position in the stream: the     *)
(* peer's packets follow each other without gap, and arrive in any pieces. *)
(***************************************************************************)
EXTENDS Integers, Sequences, SequencesExt

CONSTANTS
    LengthField,    \* size of the length field, 4 in the code
    Sizes,          \* sizes of packets, the length field included
    buffLen,        \* size of the block buffer
    MaxPackets,     \* bound on the packets of each direction
    Faults          \* of a run: "error", "peerClose"

ASSUME SocketAssumption ==
    /\ LengthField \in Nat \ {0} /\ buffLen \in Nat \ {0} /\ MaxPackets \in Nat
    /\ Sizes \subseteq {n \in Nat : n >= LengthField} /\ Sizes # {}
    /\ Faults \subseteq {"error", "peerClose"}

VARIABLES
    pc,             \* "idle", or where recv() or send() is
    isOpen,         \* not close()d
    peer,           \* packets the peer has sent, by size
    arrived,        \* bytes of the peer that have arrived
    peerClosed,     \* the peer has ended the stream
    position,       \* bytes read from the socket
    stage,          \* which recvAttempt: "length" or "rest"
    target,         \* targetBytes
    totalReceived,
    expired,        \* now >= endTime
    packets,        \* packets received, by size
    out,            \* packets sent, by size
    written         \* bytes of the last of them written

recvVars == <<stage, target, totalReceived, expired>>
inVars == <<peer, arrived, peerClosed, position, packets>>
outVars == <<out, written>>
vars == <<pc, isOpen, inVars, recvVars, outVars>>

\* Where the packets of these sizes end in the stream, the first at sizes[1].
Ends(sizes) ==
    LET end[k \in 0..Len(sizes)] == IF k = 0 THEN 0 ELSE end[k - 1] + sizes[k]
    IN  end

Total(sizes) == Ends(sizes)[Len(sizes)]
Least(a, b) == IF a < b THEN a ELSE b

-----------------------------------------------------------------------------
(* The peer and the network (external).                                    *)

PeerSends(n) ==
    /\ ~peerClosed /\ Len(peer) < MaxPackets
    /\ peer' = Append(peer, n)
    /\ UNCHANGED <<pc, isOpen, arrived, peerClosed, position, packets, recvVars,
                   outVars>>

Arrive ==
    /\ arrived < Total(peer)
    /\ arrived' = arrived + 1
    /\ UNCHANGED <<pc, isOpen, peer, peerClosed, position, packets, recvVars,
                   outVars>>

PeerCloses ==
    /\ "peerClose" \in Faults /\ ~peerClosed
    /\ peerClosed' = TRUE
    /\ UNCHANGED <<pc, isOpen, peer, arrived, position, packets, recvVars, outVars>>

\* The deadline of the recv() under way passes.
Expire ==
    /\ pc \in {"wait", "read"}
    /\ ~expired /\ expired' = TRUE
    /\ UNCHANGED <<pc, isOpen, inVars, stage, target, totalReceived, outVars>>

-----------------------------------------------------------------------------
(* recv()                                                                  *)

\* recvAttempt calls recv().
StartRecv(s, bytes) ==
    /\ pc' = "wait"
    /\ stage' = s /\ target' = bytes /\ totalReceived' = 0
    /\ expired' = FALSE

\* The size that the length field at the start of what was read stands for:
\* that of the packet that starts there, or anything when none does.
SizesReadAt(start) ==
    LET at == {k \in 1..Len(peer) : Ends(peer)[k - 1] = start}
    IN  IF at = {} THEN Sizes ELSE {peer[k] : k \in at}

RecvPacket ==
    /\ pc = "idle" /\ isOpen /\ Len(packets) < MaxPackets
    /\ StartRecv("length", LengthField)
    /\ UNCHANGED <<isOpen, inVars, outVars>>

\* Mutant: the socket stays open after a receive that fell short.
Finish_KeepsOpen(n) ==
    IF n < target
    THEN pc' = "idle" /\ UNCHANGED <<isOpen, packets, recvVars>>
    ELSE IF stage = "length"
    THEN /\ \E size \in SizesReadAt(position' - n) :
                StartRecv("rest", size - LengthField)
         /\ UNCHANGED <<isOpen, packets>>
    ELSE /\ pc' = "idle"
         /\ packets' = Append(packets, target + LengthField)
         /\ UNCHANGED <<isOpen, recvVars>>

\* recv() returns n bytes: recvAttempt closes and throws when it is short of the
\* target; TCPPacket::recv goes on to the rest, or is done.
Finish(n) ==
    IF n < target
    THEN pc' = "idle" /\ isOpen' = FALSE /\ UNCHANGED <<packets, recvVars>>
    ELSE IF stage = "length"
    THEN /\ \E size \in SizesReadAt(position' - n) :
                StartRecv("rest", size - LengthField)
         /\ UNCHANGED <<isOpen, packets>>
    ELSE /\ pc' = "idle"
         /\ packets' = Append(packets, target + LengthField)
         /\ UNCHANGED <<isOpen, recvVars>>

Readable == arrived > position \/ peerClosed

\* wait(): readable, at once or in time; or not, and recv() returns.
WaitReadable ==
    /\ pc = "wait" /\ Readable
    /\ pc' = "read"
    /\ UNCHANGED <<isOpen, inVars, recvVars, outVars>>

WaitFails ==
    /\ pc = "wait"
    /\ (expired /\ ~Readable) \/ "error" \in Faults
    /\ Finish(totalReceived)
    /\ UNCHANGED <<peer, arrived, peerClosed, position, outVars>>

\* How many bytes recv(buff, buffBytes) may put in the block: what has arrived,
\* up to buffBytes; 0 at the end of the stream.
BuffBytes == Least(target - totalReceived, buffLen)

\* Mutants: the deadline is not tested; a block is always read whole.
Read_NoDeadline ==
    /\ pc = "read"
    /\ LET n == Least(BuffBytes, arrived - position)
           total == totalReceived + n
       IN  /\ position' = position + n
           /\ IF total >= target
              THEN Finish(total)
              ELSE /\ pc' = "wait" /\ totalReceived' = total
                   /\ UNCHANGED <<isOpen, packets, stage, target, expired>>
    /\ UNCHANGED <<peer, arrived, peerClosed, outVars>>

Read_WholeBlocks ==
    /\ pc = "read"
    /\ LET n == Least(buffLen, arrived - position)
           total == totalReceived + n
       IN  /\ position' = position + n
           /\ IF expired \/ total >= target
              THEN Finish(total)
              ELSE /\ pc' = "wait" /\ totalReceived' = total
                   /\ UNCHANGED <<isOpen, packets, stage, target, expired>>
    /\ UNCHANGED <<peer, arrived, peerClosed, outVars>>

\* One block; then the deadline and the target are tested.
Read ==
    /\ pc = "read"
    /\ LET n == Least(BuffBytes, arrived - position)
           total == totalReceived + n
       IN  /\ position' = position + n
           /\ IF expired \/ total >= target
              THEN Finish(total)
              ELSE /\ pc' = "wait" /\ totalReceived' = total
                   /\ UNCHANGED <<isOpen, packets, stage, target, expired>>
    /\ UNCHANGED <<peer, arrived, peerClosed, outVars>>

ReadFails ==
    /\ pc = "read" /\ "error" \in Faults
    /\ Finish(totalReceived)
    /\ UNCHANGED <<peer, arrived, peerClosed, position, outVars>>

-----------------------------------------------------------------------------
(* send()                                                                  *)

SendPacket(n) ==
    /\ pc = "idle" /\ isOpen /\ Len(out) < MaxPackets
    /\ pc' = "write"
    /\ out' = Append(out, n) /\ written' = 0
    /\ UNCHANGED <<isOpen, inVars, recvVars>>

\* send(buff, length) takes a part of the block; the whole packet sent,
\* sendAttempt returns.
Write ==
    /\ pc = "write"
    /\ \E n \in 1..Least(buffLen - (written % buffLen), Last(out) - written) :
          /\ written' = written + n
          /\ pc' = IF written + n = Last(out) THEN "idle" ELSE "write"
    /\ UNCHANGED <<isOpen, inVars, recvVars, out>>

\* Mutant: sendAttempt does not look at how much was sent.
WriteFails_Unnoticed ==
    /\ pc = "write" /\ "error" \in Faults
    /\ pc' = "idle"
    /\ UNCHANGED <<isOpen, inVars, recvVars, outVars>>

WriteFails ==
    /\ pc = "write" /\ "error" \in Faults
    /\ pc' = "idle" /\ isOpen' = FALSE
    /\ UNCHANGED <<inVars, recvVars, outVars>>

-----------------------------------------------------------------------------

Init ==
    /\ pc = "idle" /\ isOpen = TRUE
    /\ peer = <<>> /\ arrived = 0 /\ peerClosed = FALSE /\ position = 0
    /\ stage = "length" /\ target = 0 /\ totalReceived = 0
    /\ expired = FALSE
    /\ packets = <<>> /\ out = <<>> /\ written = 0

RecvStep == WaitReadable \/ WaitFails \/ Read \/ ReadFails
SendStep == Write \/ WriteFails
PeerStep == Arrive \/ PeerCloses \/ Expire \/ \E n \in Sizes : PeerSends(n)

Next ==
    \/ RecvPacket \/ RecvStep
    \/ SendStep \/ \E n \in Sizes : SendPacket(n)
    \/ PeerStep

Spec == Init /\ [][Next]_vars

\* Time passes, so that a deadline does too; the operating system takes bytes.
FairSpec ==
    Spec /\ WF_vars(RecvStep) /\ WF_vars(SendStep) /\ WF_vars(Expire)

-----------------------------------------------------------------------------
(* Properties.                                                             *)

\* Types: no more is read than has arrived, nor more than was asked for.
TypeOK ==
    /\ pc \in {"idle", "wait", "read", "write"}
    /\ isOpen \in BOOLEAN /\ peerClosed \in BOOLEAN /\ expired \in BOOLEAN
    /\ peer \in Seq(Sizes) /\ packets \in Seq(Sizes) /\ out \in Seq(Sizes)
    /\ arrived \in 0..Total(peer) /\ position \in 0..arrived
    /\ stage \in {"length", "rest"}
    /\ target \in Nat /\ totalReceived \in 0..target
    /\ written \in Nat

\* Between two packets the reader of an open socket stands at a packet's
\* boundary, whatever pieces the bytes came in and whatever timed out.
InStep == pc = "idle" /\ isOpen => position = Total(packets)

\* The packets of the peer come out whole and in order, and no other.
Channel ==
    INSTANCE PacketChannel
    WITH Packets <- Sizes, sent <- peer, received <- packets, open <- isOpen

ImplementsChannel == Channel!Spec

\* The peer never gets the start of one packet followed by another: a packet
\* that was not sent whole is the last one.
NothingAfterAPartialSend ==
    [][Len(out') > Len(out) /\ out # <<>> => written = Last(out)]_vars

\* Every receive and every send ends, when the peer closes or falls silent too.
TransfersEnd == pc # "idle" ~> pc = "idle"

-----------------------------------------------------------------------------
(* The inductive invariant of BufferedSocket_proofs.                       *)

\* What was received is a prefix of what the peer sent.
PrefixInv ==
    /\ Len(packets) <= Len(peer)
    /\ \A k \in 1..Len(packets) : packets[k] = peer[k]

\* Where the reader of an open socket stands: at the end of the last packet
\* received, or as far behind it as was received of the next one, whose length
\* is known once the length field has been read.
PositionInv ==
    /\ pc # "idle" => isOpen
    /\ pc \in {"idle", "write"} /\ isOpen => position = Total(packets)
    /\ pc \in {"wait", "read"} /\ stage = "length" =>
           /\ target = LengthField
           /\ position = Total(packets) + totalReceived
    /\ pc \in {"wait", "read"} /\ stage = "rest" =>
           /\ Len(packets) < Len(peer)
           /\ target + LengthField = peer[Len(packets) + 1]
           /\ position = Total(packets) + LengthField + totalReceived

\* Only while a packet is being sent is the last one not sent whole.
SentInv ==
    /\ pc = "write" => out # <<>> /\ written < Last(out)
    /\ isOpen /\ pc # "write" /\ out # <<>> => written = Last(out)

IInv == TypeOK /\ PrefixInv /\ PositionInv /\ SentInv
=============================================================================
