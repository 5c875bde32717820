-------------------------------- MODULE PTPIP ---------------------------------
(***************************************************************************)
(* The PTP/IP transport (src/cb/ptp/ip.cpp): the handshake over two TCP    *)
(* connections, and transactions over the command connection.  The camera  *)
(* is external: a request makes it send a reply, a sequence of packets, of *)
(* which each may be delayed beyond the receive timeout.                   *)
(***************************************************************************)
EXTENDS Naturals, Sequences

CONSTANTS
    TidModulus,   \* number of transaction ids, 2^32 in the code
    NoTid,        \* no transaction
    MaxData,      \* bound on the length of a data phase, in blocks
    MaxStale,     \* bound on packets left over by an exception, none in the code
    Faults        \* what the camera and the network may do wrong in a run

Tids == 0..TidModulus - 1

ASSUME PTPIPAssumption ==
    /\ TidModulus \in Nat \ {0} /\ NoTid \notin Nat /\ MaxData \in Nat \ {0}
    /\ MaxStale \in Nat
    /\ Faults \subseteq {"refuse", "timeout", "drop", "badLength", "unexpected"}

VARIABLES
    pc,         \* "idle", or where open() or transaction() is
    command,    \* commandSocket: "closed", "connected", or "ready" (acknowledged)
    event,      \* eventSocket, likewise
    stream,     \* packets of the command connection not yet received
    tid,        \* the request's transaction id
    total,      \* totalDataLength
    payload,    \* payload.size()
    answered,   \* history: the id of the last response returned
    outcome,    \* how the last call ended: "returned" or the exception's type
    desync,     \* history: UnexpectedPacket thrown since the last connect
    unready     \* history: the last handshake was refused

requestVars == <<tid, total, payload>>
historyVars == <<answered, outcome, desync, unready>>
vars == <<pc, command, event, stream, requestVars, historyVars>>

isOpen == command # "closed" /\ event # "closed"

-----------------------------------------------------------------------------
(* Packets, and the replies of the camera (external).                      *)

OperationResponse(t) == [type |-> "OperationResponse", tid |-> t, size |-> 0]
StartData(t, n) == [type |-> "StartData", tid |-> t, size |-> n]
Data(t, n) == [type |-> "Data", tid |-> t, size |-> n]
EndData(t, n) == [type |-> "EndData", tid |-> t, size |-> n]
OtherPacket(t) == [type |-> "Other", tid |-> t, size |-> 0]

\* A data phase of n blocks, in one packet or in two.
DataPhase(t, n) ==
    {<<StartData(t, n), EndData(t, n)>>,
     <<StartData(t, n), Data(t, 1), EndData(t, n - 1)>>}

\* A response alone or after a data phase; the latter short of a block; or a
\* packet transaction() does not know, such as Event, Cancel or Ping, before it.
Replies(t) ==
    LET good == {<<>>} \cup UNION {DataPhase(t, n) : n \in 1..MaxData}
        short == {<<StartData(t, n), EndData(t, n - 1)>> : n \in 1..MaxData}
    IN  {Append(d, OperationResponse(t)) :
            d \in good \cup (IF "badLength" \in Faults THEN short ELSE {})}
        \cup IF "unexpected" \in Faults
             THEN {<<OtherPacket(t), OperationResponse(t)>>} ELSE {}

-----------------------------------------------------------------------------

Return(o) == pc' = "idle" /\ outcome' = o

\* Socket::sendAttempt and recvAttempt close the socket when they fail.
CloseCommand == command' = "closed" /\ stream' = <<>>

SocketFailure == {"TimedOut", "SendFailure"}

\* open(): nothing to do, or a new command connection and InitCommandRequest.
Open ==
    /\ pc = "idle"
    /\ IF isOpen
       THEN /\ Return("returned")
            /\ UNCHANGED <<command, stream, desync, unready>>
       ELSE /\ stream' = <<>> /\ desync' = FALSE /\ unready' = FALSE
            /\ \/ pc' = "commandAck" /\ command' = "connected"
                  /\ UNCHANGED outcome
               \/ /\ "refuse" \in Faults
                  /\ Return("ConnectFailure") /\ command' = "closed"
    /\ UNCHANGED <<event, requestVars, answered>>

\* Mutant: any packet is taken for the acknowledgement.
CommandAck_Unchecked ==
    /\ pc = "commandAck"
    /\ pc' = "eventConnect"
    /\ command' \in {command, "ready"}
    /\ UNCHANGED <<event, stream, requestVars, historyVars>>

\* InitCommandAck; or InitFail or another packet, an exception that closes
\* nothing; or none in 60 s.
CommandAck ==
    /\ pc = "commandAck"
    /\ \/ /\ command = "connected"
          /\ pc' = "eventConnect" /\ command' = "ready"
          /\ UNCHANGED <<stream, outcome, unready>>
       \/ /\ "refuse" \in Faults
          /\ \E o \in {"InitFailure", "UnexpectedPacket"} : Return(o)
          /\ unready' = TRUE
          /\ UNCHANGED <<command, stream>>
       \/ /\ "timeout" \in Faults \/ command = "closed"
          /\ \E o \in SocketFailure : Return(o)
          /\ CloseCommand
          /\ UNCHANGED unready
    /\ UNCHANGED <<event, requestVars, answered, desync>>

EventConnect ==
    /\ pc = "eventConnect"
    /\ \/ pc' = "eventAck" /\ event' = "connected" /\ UNCHANGED outcome
       \/ "refuse" \in Faults /\ Return("ConnectFailure") /\ event' = "closed"
    /\ UNCHANGED <<command, stream, requestVars, answered, desync, unready>>

EventAck ==
    /\ pc = "eventAck"
    /\ \/ /\ event = "connected"
          /\ Return("returned") /\ event' = "ready"
          /\ UNCHANGED unready
       \/ /\ "refuse" \in Faults
          /\ \E o \in {"InitFailure", "UnexpectedPacket"} : Return(o)
          /\ unready' = TRUE
          /\ UNCHANGED event
       \/ /\ "timeout" \in Faults \/ event = "closed"
          /\ \E o \in SocketFailure : Return(o)
          /\ event' = "closed"
          /\ UNCHANGED unready
    /\ UNCHANGED <<command, stream, requestVars, answered, desync>>

Close ==
    /\ pc = "idle"
    /\ CloseCommand
    /\ event' = "closed"
    /\ Return("returned")
    /\ UNCHANGED <<requestVars, answered, desync, unready>>

-----------------------------------------------------------------------------
(* transaction()                                                           *)

\* Mutants: transaction() returns with the data; a receive that fails leaves the
\* connection open; or is tried again for ever.
Receive_DataOnly ==
    /\ pc = "receive" /\ stream # <<>>
    /\ stream' = Tail(stream)
    /\ IF Head(stream).type \in {"EndData", "OperationResponse"}
       THEN Return("returned") /\ answered' = Head(stream).tid
       ELSE UNCHANGED <<pc, outcome, answered>>
    /\ UNCHANGED <<command, event, requestVars, desync, unready>>

ReceiveFails_KeepsOpen ==
    /\ pc = "receive"
    /\ "timeout" \in Faults \/ stream = <<>>
    /\ Return("TimedOut")
    /\ UNCHANGED <<command, stream, event, requestVars, answered, desync, unready>>

ReceiveFails_Retries ==
    /\ pc = "receive" /\ stream = <<>>
    /\ UNCHANGED vars

\* PTP calls it with the transport open; the request, and the data it sends,
\* go out before the first packet is received.
Request ==
    /\ pc = "idle" /\ isOpen /\ Len(stream) <= MaxStale
    /\ tid' = (tid + 1) % TidModulus
    /\ total' = 0 /\ payload' = 0
    /\ \/ /\ pc' = "receive"
          /\ \E r \in Replies(tid') : stream' = stream \o r
          /\ UNCHANGED <<command, outcome>>
       \/ /\ "timeout" \in Faults
          /\ Return("SendFailure")
          /\ CloseCommand
    /\ UNCHANGED <<event, answered, desync, unready>>

Receive ==
    /\ pc = "receive" /\ stream # <<>>
    /\ stream' = Tail(stream)
    /\ LET packet == Head(stream) IN
       CASE packet.type = "OperationResponse" ->
              /\ IF payload = total
                 THEN Return("returned") /\ answered' = packet.tid
                 ELSE Return("WrongDataLength") /\ UNCHANGED answered
              /\ UNCHANGED <<total, payload, desync>>
         [] packet.type = "StartData" ->
              /\ total' = packet.size
              /\ UNCHANGED <<pc, payload, answered, outcome, desync>>
         [] packet.type \in {"Data", "EndData"} ->
              /\ payload' = payload + packet.size
              /\ UNCHANGED <<pc, total, answered, outcome, desync>>
         [] OTHER ->
              /\ Return("UnexpectedPacket") /\ desync' = TRUE
              /\ UNCHANGED <<total, payload, answered>>
    /\ UNCHANGED <<command, event, tid, unready>>

\* No packet in 10 s, or the connection is gone.
ReceiveFails ==
    /\ pc = "receive"
    /\ "timeout" \in Faults \/ stream = <<>>
    /\ Return("TimedOut")
    /\ CloseCommand
    /\ UNCHANGED <<event, requestVars, answered, desync, unready>>

-----------------------------------------------------------------------------
(* The network: WiFiClient::connected() turns false between two calls.     *)

CommandDrops ==
    /\ "drop" \in Faults /\ command # "closed"
    /\ CloseCommand
    /\ UNCHANGED <<pc, event, requestVars, historyVars>>

EventDrops ==
    /\ "drop" \in Faults /\ event # "closed"
    /\ event' = "closed"
    /\ UNCHANGED <<pc, command, stream, requestVars, historyVars>>

-----------------------------------------------------------------------------

Init ==
    /\ pc = "idle" /\ command = "closed" /\ event = "closed" /\ stream = <<>>
    /\ tid = 0 /\ total = 0 /\ payload = 0
    /\ answered = NoTid /\ outcome = "returned" /\ desync = FALSE /\ unready = FALSE

Next ==
    \/ Open \/ CommandAck \/ EventConnect \/ EventAck \/ Close
    \/ Request \/ Receive \/ ReceiveFails \/ CommandDrops \/ EventDrops

Spec == Init /\ [][Next]_vars

\* A call goes on, and a receive ends, at the latest by its timeout.
FairSpec ==
    /\ Spec
    /\ WF_vars(CommandAck \/ EventConnect \/ EventAck \/ Receive \/ ReceiveFails)

-----------------------------------------------------------------------------
(* Properties.                                                             *)

Packet ==
    [type : {"OperationResponse", "StartData", "Data", "EndData", "Other"},
     tid : Tids, size : 0..MaxData]
Outcome ==
    {"returned", "ConnectFailure", "InitFailure", "TimedOut", "UnexpectedPacket",
     "WrongDataLength", "SendFailure"}

TypeOK ==
    /\ pc \in {"idle", "commandAck", "eventConnect", "eventAck", "receive"}
    /\ command \in {"closed", "connected", "ready"}
    /\ event \in {"closed", "connected", "ready"}
    /\ stream \in Seq(Packet)
    /\ tid \in Tids /\ total \in 0..MaxData /\ payload \in Nat
    /\ answered \in Tids \cup {NoTid} /\ outcome \in Outcome
    /\ desync \in BOOLEAN /\ unready \in BOOLEAN

\* A transaction leaves no packet of its own to the next one, however it ended,
\* unless it met a packet it did not know: a late answer cannot be received,
\* because a timeout closes the connection it would come on.
NothingLeftOver == pc = "idle" /\ ~desync => stream = <<>>

\* Every packet still to be received belongs to the running transaction, and a
\* returned response answers its request, on a connection in sync.
OnlyOwnPackets ==
    pc = "receive" /\ ~desync => \A i \in DOMAIN stream : stream[i].tid = tid

\* isOpen() is true without a completed handshake only after an open() that
\* was refused at it: the sockets it leaves connected count as open.
OpenIsReady ==
    pc = "idle" /\ isOpen /\ ~unready => command = "ready" /\ event = "ready"

\* PTPIP is the transport that PTP relies on: a response that returns is the one
\* to the request, also after refusals, timeouts, short data and lost sockets;
\* only a packet it did not know puts an open connection out of step.
Transport ==
    INSTANCE PTPTransport
    WITH open <- isOpen, inStep <- ~desync,
         pending <- IF pc = "receive" THEN tid ELSE NoTid

ImplementsTransport == Transport!Spec

\* Every call ends.
CallsEnd == pc # "idle" ~> pc = "idle"

-----------------------------------------------------------------------------
(* What the proofs of PTPIP_proofs add to make an inductive invariant.     *)

\* A sequence of packets that belongs to transaction t and ends with its
\* response, or is empty.
Answer(r, t) ==
    /\ r \in Seq(Packet)
    /\ \A i \in DOMAIN r : /\ r[i].tid = t
                           /\ r[i].type = "OperationResponse" <=> i = Len(r)

\* What is still to come in a transaction is the rest of its answer; outside a
\* transaction nothing is.
StreamInv ==
    ~desync => IF pc = "receive" THEN Answer(stream, tid) ELSE stream = <<>>

\* A handshake that goes on, or has ended well, has been acknowledged so far.
ReadyInv ==
    /\ pc \in {"eventConnect", "eventAck"} => command # "connected"
    /\ pc \in {"idle", "receive"} /\ isOpen /\ ~unready =>
           command = "ready" /\ event = "ready"

\* The inductive invariant.
IInv == TypeOK /\ StreamInv /\ ReadyInv
=============================================================================
