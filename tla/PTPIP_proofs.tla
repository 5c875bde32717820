------------------------------ MODULE PTPIP_proofs ------------------------------
(* Proofs about PTPIP.                                                      *)
EXTENDS PTPIP, SequenceTheorems, TLAPS

USE DEF requestVars, historyVars

-----------------------------------------------------------------------------
(* The camera's answers.                                                   *)

\* Every reply the camera may give is an answer: the response comes last, and
\* once.
LEMMA ReplyIsAnswer ==
    ASSUME NEW t \in Tids, NEW r \in Replies(t)
    PROVE  Answer(r, t)
  <1> DEFINE resp == OperationResponse(t)
  <1>1. resp \in Packet /\ resp.tid = t /\ resp.type = "OperationResponse"
    BY PTPIPAssumption DEF OperationResponse, Packet
  <1>2. ASSUME NEW n \in 1..MaxData
        PROVE  /\ StartData(t, n) \in Packet /\ EndData(t, n) \in Packet
               /\ EndData(t, n - 1) \in Packet /\ Data(t, 1) \in Packet
    BY <1>2, PTPIPAssumption DEF StartData, EndData, Data, Packet
  <1>3. ASSUME NEW a \in Packet, NEW b \in Packet, a.tid = t, b.tid = t,
               a.type # "OperationResponse", b.type # "OperationResponse",
               r = Append(<<a, b>>, resp)
        PROVE  Answer(r, t)
    <2>1. r \in Seq(Packet) /\ Len(r) = 3 /\ r[1] = a /\ r[2] = b /\ r[3] = resp
      BY <1>1, <1>3
    <2> QED
      BY <1>1, <1>3, <2>1 DEF Answer
  <1>4. ASSUME NEW a \in Packet, NEW b \in Packet, NEW c \in Packet,
               a.tid = t, b.tid = t, c.tid = t, a.type # "OperationResponse",
               b.type # "OperationResponse", c.type # "OperationResponse",
               r = Append(<<a, b, c>>, resp)
        PROVE  Answer(r, t)
    <2>1. r \in Seq(Packet) /\ Len(r) = 4 /\ r[1] = a /\ r[2] = b /\ r[3] = c
          /\ r[4] = resp
      BY <1>1, <1>4
    <2> QED
      BY <1>1, <1>4, <2>1 DEF Answer
  <1>5. CASE r = Append(<<>>, resp)
    <2>1. r \in Seq(Packet) /\ Len(r) = 1 /\ r[1] = resp
      BY <1>1, <1>5
    <2> QED
      BY <1>1, <2>1 DEF Answer
  <1>6. CASE r = <<OtherPacket(t), resp>>
    <2>1. OtherPacket(t) \in Packet /\ OtherPacket(t).tid = t
          /\ OtherPacket(t).type # "OperationResponse"
      BY PTPIPAssumption DEF OtherPacket, Packet
    <2>2. r \in Seq(Packet) /\ Len(r) = 2 /\ r[1] = OtherPacket(t) /\ r[2] = resp
      BY <1>1, <1>6, <2>1
    <2> QED
      BY <1>1, <2>1, <2>2 DEF Answer
  <1>7. ASSUME NEW n \in 1..MaxData, NEW d \in DataPhase(t, n), r = Append(d, resp)
        PROVE  Answer(r, t)
    <2>1. CASE d = <<StartData(t, n), EndData(t, n)>>
      BY <1>2, <1>3, <1>7, <2>1 DEF StartData, EndData
    <2>2. CASE d = <<StartData(t, n), Data(t, 1), EndData(t, n - 1)>>
      BY <1>2, <1>4, <1>7, <2>2 DEF StartData, EndData, Data
    <2> QED
      BY <1>7, <2>1, <2>2 DEF DataPhase
  <1>8. ASSUME NEW n \in 1..MaxData,
               r = Append(<<StartData(t, n), EndData(t, n - 1)>>, resp)
        PROVE  Answer(r, t)
    BY <1>2, <1>3, <1>8 DEF StartData, EndData
  <1>9. \/ r = Append(<<>>, resp)
        \/ r = <<OtherPacket(t), resp>>
        \/ \E n \in 1..MaxData : \E d \in DataPhase(t, n) : r = Append(d, resp)
        \/ \E n \in 1..MaxData :
               r = Append(<<StartData(t, n), EndData(t, n - 1)>>, resp)
    BY Zenon DEF Replies
  <1> QED
    BY <1>5, <1>6, <1>7, <1>8, <1>9

\* What is left of an answer after its first packet is still an answer, or
\* nothing when that packet was the response.
LEMMA RestOfAnswer ==
    ASSUME NEW t, NEW r, Answer(r, t), r # <<>>
    PROVE  /\ Head(r) \in Packet /\ Head(r).tid = t
           /\ Tail(r) \in Seq(Packet) /\ Answer(Tail(r), t)
           /\ Head(r).type = "OperationResponse" => Tail(r) = <<>>
  <1>1. r \in Seq(Packet) /\ Len(r) \in Nat /\ Len(r) > 0
    BY EmptySeq DEF Answer
  <1>2. Head(r) = r[1] /\ 1 \in DOMAIN r /\ Head(r) \in Packet
    BY <1>1
  <1>3. Tail(r) \in Seq(Packet) /\ Len(Tail(r)) = Len(r) - 1
        /\ \A i \in 1..Len(Tail(r)) : Tail(r)[i] = r[i + 1]
    BY <1>1, HeadTailProperties
  <1>4. \A i \in DOMAIN Tail(r) : i + 1 \in DOMAIN r /\ Tail(r)[i] = r[i + 1]
    BY <1>1, <1>3
  <1>5. \A i \in DOMAIN Tail(r) :
            /\ Tail(r)[i].tid = t
            /\ Tail(r)[i].type = "OperationResponse" <=> i = Len(Tail(r))
    BY <1>1, <1>3, <1>4 DEF Answer
  <1>6. ASSUME Head(r).type = "OperationResponse" PROVE Tail(r) = <<>>
    <2>1. Len(r) = 1
      BY <1>1, <1>2, <1>6 DEF Answer
    <2>2. Tail(r) \in Seq(Packet) /\ Len(Tail(r)) = 0
      BY <1>3, <2>1
    <2> QED
      BY <2>2, EmptySeq
  <1> QED
    BY <1>2, <1>3, <1>5, <1>6 DEF Answer

-----------------------------------------------------------------------------
(* Types.                                                                  *)

\* The first packet of the connection, and a connection without packets.
LEMMA HeadPacket ==
    ASSUME TypeOK, stream # <<>>
    PROVE  /\ Head(stream).type \in {"OperationResponse", "StartData", "Data",
                                     "EndData", "Other"}
           /\ Head(stream).size \in 0..MaxData /\ Head(stream).tid \in Tids
           /\ Tail(stream) \in Seq(Packet)
  <1>1. Head(stream) \in Packet /\ Tail(stream) \in Seq(Packet)
    BY DEF TypeOK
  <1> QED
    BY <1>1 DEF Packet

\* A camera that says nothing has sent a sequence of packets.
LEMMA NothingSent == <<>> \in Seq(Packet)
  OBVIOUS

\* The initial state has its types.
LEMMA TypeInit == Init => TypeOK
  <1> SUFFICES ASSUME Init PROVE TypeOK
    OBVIOUS
  <1>1. stream \in Seq(Packet)
    BY NothingSent DEF Init
  <1>2. 0 \in Tids /\ 0 \in 0..MaxData
    BY PTPIPAssumption DEF Tids
  <1> QED
    BY <1>1, <1>2 DEF Init, TypeOK, Outcome

\* Every step keeps the types.
LEMMA TypeNext == TypeOK /\ [Next]_vars => TypeOK'
  <1> SUFFICES ASSUME TypeOK, [Next]_vars PROVE TypeOK'
    OBVIOUS
  <1> USE NothingSent DEF TypeOK, Outcome, Return, CloseCommand, SocketFailure
  <1>1. CASE Open
    BY <1>1 DEF Open
  <1>2. CASE CommandAck
    BY <1>2 DEF CommandAck
  <1>3. CASE EventConnect
    BY <1>3 DEF EventConnect
  <1>4. CASE EventAck
    BY <1>4 DEF EventAck
  <1>5. CASE Close
    BY <1>5 DEF Close
  <1>6. CASE Request
    <2>1. tid' \in Tids /\ total' \in 0..MaxData /\ payload' \in Nat
      BY <1>6, PTPIPAssumption DEF Request, Tids
    <2>2. stream' \in Seq(Packet)
      <3>1. CASE \E r \in Replies(tid') : stream' = stream \o r
        BY <2>1, <3>1, ReplyIsAnswer DEF Answer
      <3> QED
        BY <1>6, <3>1 DEF Request
    <2> QED
      BY <1>6, <2>1, <2>2 DEF Request
  <1>7. CASE Receive
    <2>1. stream # <<>> /\ stream' = Tail(stream) /\ UNCHANGED <<command, event, tid, unready>>
      BY <1>7 DEF Receive
    <2>2. /\ Head(stream).type \in {"OperationResponse", "StartData", "Data",
                                    "EndData", "Other"}
          /\ Head(stream).size \in 0..MaxData /\ Head(stream).tid \in Tids
          /\ stream' \in Seq(Packet)
      BY <2>1, HeadPacket
    <2>3. total' \in 0..MaxData /\ payload' \in Nat /\ answered' \in Tids \cup {NoTid}
          /\ desync' \in BOOLEAN /\ outcome' \in Outcome /\ pc' \in {"idle", "receive"}
      <3>1. CASE Head(stream).type = "OperationResponse"
        BY <1>7, <2>2, <3>1 DEF Receive
      <3>2. CASE Head(stream).type = "StartData"
        BY <1>7, <2>2, <3>2 DEF Receive
      <3>3. CASE Head(stream).type \in {"Data", "EndData"}
        <4>1. payload' = payload + Head(stream).size
              /\ UNCHANGED <<pc, total, answered, outcome, desync>> /\ pc = "receive"
          BY <1>7, <3>3 DEF Receive
        <4>2. payload' \in Nat
          BY <2>2, <4>1, PTPIPAssumption
        <4> QED
          BY <4>1, <4>2
      <3>4. CASE Head(stream).type = "Other"
        BY <1>7, <2>2, <3>4 DEF Receive
      <3> QED
        BY <2>2, <3>1, <3>2, <3>3, <3>4
    <2> QED
      BY <2>1, <2>2, <2>3
  <1>8. CASE ReceiveFails
    BY <1>8 DEF ReceiveFails
  <1>9. CASE CommandDrops \/ EventDrops
    BY <1>9 DEF CommandDrops, EventDrops
  <1>10. CASE UNCHANGED vars
    BY <1>10 DEF vars
  <1> QED
    BY <1>1, <1>2, <1>3, <1>4, <1>5, <1>6, <1>7, <1>8, <1>9, <1>10 DEF Next

-----------------------------------------------------------------------------
(* The packets of an answer: StreamInv.                                    *)

\* Nothing on the connection is an answer, if only of a lost connection.
LEMMA NoPackets == \A t : Answer(<<>>, t)
  BY DEF Answer

\* How a received packet changes the connection that is in sync.
LEMMA ReceiveInSync ==
    ASSUME TypeOK, StreamInv, Receive, ~desync
    PROVE  /\ Head(stream).tid = tid
           /\ \/ pc' = "idle" /\ stream' = <<>> /\ ~desync'
                 /\ Head(stream).type = "OperationResponse"
              \/ pc' = "idle" /\ desync' /\ UNCHANGED answered
              \/ pc' = "receive" /\ Answer(stream', tid) /\ UNCHANGED <<desync, answered>>
  <1>1. pc = "receive" /\ stream # <<>> /\ stream' = Tail(stream) /\ Answer(stream, tid)
    BY DEF StreamInv, Receive
  <1>2. Head(stream) \in Packet /\ Head(stream).tid = tid /\ Answer(stream', tid)
        /\ (Head(stream).type = "OperationResponse" => stream' = <<>>)
    BY <1>1, RestOfAnswer
  <1>3. Head(stream).type \in {"OperationResponse", "StartData", "Data", "EndData", "Other"}
    BY <1>2 DEF Packet
  <1>4. CASE Head(stream).type = "OperationResponse"
    BY <1>2, <1>4 DEF Receive, Return
  <1>5. CASE Head(stream).type = "StartData"
    BY <1>1, <1>2, <1>5 DEF Receive
  <1>6. CASE Head(stream).type \in {"Data", "EndData"}
    BY <1>1, <1>2, <1>6 DEF Receive
  <1>7. CASE Head(stream).type = "Other"
    BY <1>2, <1>7 DEF Receive, Return
  <1> QED
    BY <1>3, <1>4, <1>5, <1>6, <1>7

\* Every step keeps StreamInv.
LEMMA StreamNext == TypeOK /\ StreamInv /\ [Next]_vars => StreamInv'
  <1> SUFFICES ASSUME TypeOK, StreamInv, [Next]_vars PROVE StreamInv'
    OBVIOUS
  <1> USE DEF Return, CloseCommand
  <1>1. CASE Open
    BY <1>1 DEF Open, StreamInv
  <1>2. CASE CommandAck
    BY <1>2 DEF CommandAck, StreamInv
  <1>3. CASE EventConnect
    BY <1>3 DEF EventConnect, StreamInv
  <1>4. CASE EventAck
    BY <1>4 DEF EventAck, StreamInv
  <1>5. CASE Close
    BY <1>5 DEF Close, StreamInv
  <1>6. CASE Request
    <2>1. CASE ~desync /\ pc' = "receive" /\ \E r \in Replies(tid') : stream' = stream \o r
      <3>1. PICK r \in Replies(tid') : stream' = stream \o r
        BY <2>1
      <3>2. tid' \in Tids
        BY <1>6, PTPIPAssumption DEF Request, TypeOK, Tids
      <3>3. Answer(r, tid')
        BY <3>2, ReplyIsAnswer
      <3>4. stream = <<>>
        BY <1>6, <2>1 DEF Request, StreamInv
      <3>5. stream' = r
        BY <3>1, <3>3, <3>4 DEF Answer
      <3> QED
        BY <2>1, <3>3, <3>5 DEF StreamInv
    <2>2. CASE desync
      BY <1>6, <2>2 DEF Request, StreamInv
    <2>3. CASE pc' = "idle" /\ stream' = <<>>
      BY <2>3 DEF StreamInv
    <2> QED
      BY <1>6, <2>1, <2>2, <2>3 DEF Request
  <1>7. CASE Receive
    <2>1. CASE desync
      <3>1. Head(stream).type \in {"OperationResponse", "StartData", "Data",
                                   "EndData", "Other"}
        BY <1>7, HeadPacket DEF Receive
      <3>2. desync'
        BY <1>7, <2>1, <3>1 DEF Receive
      <3> QED
        BY <3>2 DEF StreamInv
    <2>2. CASE ~desync
      BY <1>7, <2>2, ReceiveInSync DEF StreamInv, Receive
    <2> QED
      BY <2>1, <2>2
  <1>8. CASE ReceiveFails
    BY <1>8 DEF ReceiveFails, StreamInv
  <1>9. CASE CommandDrops
    BY <1>9, NoPackets DEF CommandDrops, StreamInv
  <1>10. CASE EventDrops
    BY <1>10 DEF EventDrops, StreamInv
  <1>11. CASE UNCHANGED vars
    BY <1>11 DEF vars, StreamInv
  <1> QED
    BY <1>1, <1>2, <1>3, <1>4, <1>5, <1>6, <1>7, <1>8, <1>9, <1>10, <1>11 DEF Next

-----------------------------------------------------------------------------
(* The handshake: ReadyInv.                                                *)

\* Every step keeps ReadyInv.
LEMMA ReadyNext == TypeOK /\ ReadyInv /\ [Next]_vars => ReadyInv'
  <1> SUFFICES ASSUME TypeOK, ReadyInv, [Next]_vars PROVE ReadyInv'
    OBVIOUS
  <1> USE DEF ReadyInv, isOpen, Return, CloseCommand
  <1>1. CASE Open
    BY <1>1 DEF Open
  <1>2. CASE CommandAck
    BY <1>2 DEF CommandAck
  <1>3. CASE EventConnect
    BY <1>3 DEF EventConnect, TypeOK
  <1>4. CASE EventAck
    BY <1>4 DEF EventAck, TypeOK
  <1>5. CASE Close
    BY <1>5 DEF Close
  <1>6. CASE Request
    BY <1>6 DEF Request
  <1>7. CASE Receive
    <2>1. pc = "receive" /\ pc' \in {"receive", "idle"}
          /\ UNCHANGED <<command, event, unready>>
      <3>1. Head(stream).type \in {"OperationResponse", "StartData", "Data",
                                   "EndData", "Other"}
        BY <1>7, HeadPacket DEF Receive
      <3> QED
        BY <1>7, <3>1 DEF Receive
    <2> QED
      BY <2>1
  <1>8. CASE ReceiveFails
    BY <1>8 DEF ReceiveFails
  <1>9. CASE CommandDrops \/ EventDrops
    BY <1>9 DEF CommandDrops, EventDrops
  <1>10. CASE UNCHANGED vars
    BY <1>10 DEF vars
  <1> QED
    BY <1>1, <1>2, <1>3, <1>4, <1>5, <1>6, <1>7, <1>8, <1>9, <1>10 DEF Next

-----------------------------------------------------------------------------
(* The theorems.                                                           *)

\* The inductive invariant holds for any number of transaction ids, any length of
\* a data phase and any faults of the camera and the network.
THEOREM Invariance == Spec => []IInv
  <1>1. Init => IInv
    BY TypeInit DEF Init, IInv, StreamInv, ReadyInv, isOpen
  <1>2. IInv /\ [Next]_vars => IInv'
    BY TypeNext, StreamNext, ReadyNext DEF IInv
  <1> QED
    BY <1>1, <1>2, PTL DEF Spec

\* Every variable keeps its type.
THEOREM TypeCorrect == Spec => []TypeOK
  <1>1. IInv => TypeOK
    BY DEF IInv
  <1> QED
    BY <1>1, Invariance, PTL

\* However a transaction ends, the next one meets no packet of it.
THEOREM NoLeftOvers == Spec => []NothingLeftOver
  <1>1. IInv => NothingLeftOver
    BY DEF IInv, StreamInv, NothingLeftOver
  <1> QED
    BY <1>1, Invariance, PTL

\* A transaction receives its own packets only.
THEOREM OwnPacketsOnly == Spec => []OnlyOwnPackets
  <1>1. IInv => OnlyOwnPackets
    BY DEF IInv, StreamInv, Answer, OnlyOwnPackets
  <1> QED
    BY <1>1, Invariance, PTL

\* A transport that counts as open is ready, unless open() was refused.
THEOREM OpenReady == Spec => []OpenIsReady
  <1>1. IInv => OpenIsReady
    BY DEF IInv, ReadyInv, OpenIsReady
  <1> QED
    BY <1>1, Invariance, PTL

-----------------------------------------------------------------------------
(* The transport that PTP relies on.                                       *)

pendingTid == IF pc = "receive" THEN tid ELSE NoTid
mapped == <<isOpen, ~desync, pendingTid, answered>>

\* Outside a transaction, whatever becomes of the sockets is an open() or
\* close(); what puts the connection in step again is a new one.
LEMMA IdleStep ==
    ASSUME TypeOK, TypeOK', pc # "receive", pc' # "receive", UNCHANGED answered,
           UNCHANGED desync \/ (~isOpen /\ ~desync')
    PROVE  Transport!Open
  <1>1. isOpen \in BOOLEAN /\ isOpen' \in BOOLEAN /\ desync \in BOOLEAN /\ desync' \in BOOLEAN
    BY DEF isOpen, TypeOK
  <1> QED
    BY <1>1 DEF Transport!Open

\* A transaction that ends by an exception, or meets a packet it does not know.
LEMMA ThrowStep ==
    ASSUME TypeOK, TypeOK', pc = "receive", pc' # "receive",
           isOpen' \in {isOpen, FALSE}, UNCHANGED desync \/ desync', UNCHANGED answered
    PROVE  Transport!Throw
  <1>1. tid # NoTid
    BY PTPIPAssumption DEF TypeOK, Tids
  <1>2. desync \in BOOLEAN /\ desync' \in BOOLEAN
    BY DEF TypeOK
  <1> QED
    BY <1>1, <1>2 DEF Transport!Throw

\* Every step maps to a step of the transport, or to none.
LEMMA TransportNext ==
    ASSUME TypeOK, TypeOK', StreamInv, [Next]_vars
    PROVE  Transport!Next \/ UNCHANGED mapped
  <1> DEFINE Maps == Transport!Next \/ UNCHANGED mapped
  <1> SUFFICES Maps
    OBVIOUS
  <1>1. CASE Open \/ CommandAck \/ EventConnect \/ EventAck \/ Close
    <2>1. pc # "receive" /\ pc' # "receive" /\ UNCHANGED answered
      BY <1>1 DEF Open, CommandAck, EventConnect, EventAck, Close, Return
    <2>2. UNCHANGED desync \/ (~isOpen /\ ~desync')
      BY <1>1 DEF Open, CommandAck, EventConnect, EventAck, Close
    <2> QED
      BY <2>1, <2>2, IdleStep DEF Transport!Next
  <1>2. CASE Request
    <2>1. pc = "idle" /\ isOpen /\ UNCHANGED <<answered, desync, event>>
          /\ \/ pc' = "receive" /\ UNCHANGED command
             \/ pc' = "idle" /\ command' = "closed"
      BY <1>2 DEF Request, Return, CloseCommand
    <2>2. tid' \in Tids
      BY DEF TypeOK
    <2>3. CASE pc' = "receive"
      <3>1. Transport!Request(tid')
        BY <2>1, <2>3 DEF Transport!Request, isOpen
      <3> QED
        BY <2>2, <3>1 DEF Transport!Next
    <2>4. CASE pc' = "idle"
      BY <2>1, <2>4, IdleStep DEF Transport!Next
    <2> QED
      BY <2>1, <2>3, <2>4
  <1>3. CASE Receive
    <2>1. pc = "receive" /\ UNCHANGED <<command, event, tid, isOpen>>
          /\ Head(stream).type \in {"OperationResponse", "StartData", "Data",
                                    "EndData", "Other"}
          /\ Head(stream).tid \in Tids
      BY <1>3, HeadPacket DEF Receive, isOpen
    <2>2. ~desync => Head(stream).tid = tid
      BY <1>3, ReceiveInSync
    <2>3. CASE Head(stream).type = "OperationResponse"
      <3>1. pc' = "idle" /\ UNCHANGED desync /\ answered' \in {answered, Head(stream).tid}
        BY <1>3, <2>3 DEF Receive, Return
      <3>2. tid # NoTid
        BY PTPIPAssumption DEF TypeOK, Tids
      <3>3. CASE answered' = Head(stream).tid
        BY <2>1, <2>2, <3>1, <3>2, <3>3 DEF Transport!Return, Transport!Next
      <3>4. CASE answered' = answered
        BY <2>1, <3>1, <3>4, ThrowStep DEF Transport!Next
      <3> QED
        BY <3>1, <3>3, <3>4
    <2>4. CASE Head(stream).type \in {"StartData", "Data", "EndData"}
      <3>1. UNCHANGED <<pc, desync, answered>>
        BY <1>3, <2>4 DEF Receive
      <3> QED
        BY <2>1, <3>1 DEF mapped, pendingTid
    <2>5. CASE Head(stream).type = "Other"
      <3>1. pc' = "idle" /\ desync' /\ UNCHANGED answered
        BY <1>3, <2>5 DEF Receive, Return
      <3> QED
        BY <2>1, <3>1, ThrowStep DEF Transport!Next
    <2> QED
      BY <2>1, <2>3, <2>4, <2>5
  <1>4. CASE ReceiveFails
    <2>1. pc = "receive" /\ pc' = "idle" /\ isOpen' = FALSE
          /\ UNCHANGED <<desync, answered>>
      BY <1>4 DEF ReceiveFails, Return, CloseCommand, isOpen
    <2> QED
      BY <2>1, ThrowStep DEF Transport!Next
  <1>5. CASE CommandDrops \/ EventDrops
    <2>1. isOpen' = FALSE /\ UNCHANGED <<pc, tid, desync, answered>>
      BY <1>5 DEF CommandDrops, EventDrops, CloseCommand, isOpen
    <2> QED
      BY <2>1 DEF Transport!ConnectionEnds, Transport!Next
  <1>6. CASE UNCHANGED vars
    BY <1>6 DEF vars, mapped, isOpen, pendingTid
  <1> QED
    BY <1>1, <1>2, <1>3, <1>4, <1>5, <1>6 DEF Next

\* PTP/IP implements the transport that the PTP session is written against.
THEOREM KeepsTransport == Spec => ImplementsTransport
  <1>1. Init => Transport!Init
    BY DEF Init, Transport!Init, isOpen
  <1>2. IInv /\ IInv' /\ [Next]_vars => [Transport!Next]_(Transport!transportVars)
    BY TransportNext DEF IInv, Transport!transportVars, mapped, isOpen, pendingTid
  <1> QED
    BY <1>1, <1>2, Invariance, PTL DEF Spec, ImplementsTransport, Transport!Spec
=============================================================================
