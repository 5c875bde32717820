------------------------------ MODULE PTPCamera ------------------------------
(***************************************************************************)
(* One PTPCamera object (src/cb/ptp/ptp.cpp) with its vendor part (Canon   *)
(* or Nikon): the thread that calls connect(), disconnect(), capture(),    *)
(* setProp() and the destructor; the event thread that polls the camera;   *)
(* the PTP session and the transactions both threads run over a            *)
(* PTPTransport; the event queue; and the camera at the other end.         *)
(*                                                                         *)
(* A thread is at a label of pc.  A transaction has two steps, Begin       *)
(* (lock, check, number, send) and Finish (the answer, or the exception),  *)
(* so that everything the code does outside transactionMutex interleaves   *)
(* with it.  An exception returns the caller to "idle" with threw set.     *)
(* One of them, UnexpectedPacket, leaves a reply half read on a connection *)
(* that stays open: from then on each request is answered with what is     *)
(* left of an earlier one, until the connection is closed.                 *)
(***************************************************************************)
EXTENDS Naturals, Sequences

CONSTANTS
    Workers,         \* identities of event threads (std::jthread objects)
    NoThread,        \* an empty std::jthread
    NoSession,       \* no session: the id 0, before sessionId wraps onto it
    Vendor,          \* "canon" or "nikon": the class the factory built
    OpsSupported,    \* the operations the camera's DeviceInfo lists
    ModelIsEosM,     \* whether the model string contains "Canon EOS M"
    TidModulus,      \* number of transaction ids, 2^32 in the code
    SessionModulus,  \* number of session ids, 2^32 in the code
    MaxQueue,        \* bound on the event queue, unbounded in the code
    MaxStale,        \* bound on the replies left unread, none in the code
    Outcomes,        \* how a transaction may end: the fault model of a run
    Calls            \* the methods the caller uses in a run

API == "api"
Procs == {API} \cup Workers

ASSUME ConstantsAssumption ==
    /\ Workers # {} /\ API \notin Workers /\ NoThread \notin Procs
    /\ NoSession \notin Nat
    /\ Vendor \in {"canon", "nikon"} /\ ModelIsEosM \in BOOLEAN
    /\ TidModulus \in Nat \ {0, 1} /\ SessionModulus \in Nat \ {0}
    /\ MaxQueue \in Nat \ {0} /\ MaxStale \in Nat
    /\ Outcomes \subseteq {"ok", "refused", "lost", "garbled", "unexpected"}
    /\ Calls \subseteq {"connect", "disconnect", "capture", "setProp", "destroy"}

VARIABLES
    pc,             \* where each thread is
    stop,           \* the stop token of each event thread
    eventThread,    \* PTPCamera::eventThread
    fresh,          \* the jthread being assigned to eventThread
    isOpen,         \* transport->isOpen()
    isSessionOpen, sessionId, transactionId,
    cachedDI,       \* none, the camera's own, or read from another reply
    mutex,          \* the holder of transactionMutex
    wire,           \* requests sent whose replies have not been read
    cam,            \* the camera: its session, last transaction id, shutter
    events,         \* EventEmitter::events
    view,           \* the last connection event the consumer popped
    call, threw,    \* the current or last API call, and whether it threw
    detached,       \* history: disconnect() called and not connect() since
    link            \* history: what the last connection has met so far

threadVars == <<stop, eventThread, fresh>>
sessionVars == <<isSessionOpen, sessionId>>
txnVars == <<mutex, wire, transactionId, link>>
queueVars == <<events, view>>
callVars == <<call, threw, detached>>
vars == <<pc, threadVars, isOpen, sessionVars, cachedDI, txnVars, cam,
          queueVars, callVars>>

-----------------------------------------------------------------------------
(* Labels, and what a thread does at them.                                 *)

InfoLabels == {"eosInfo", "capInfo", "setInfo"}
InfoExLabels == {"eosInfoEx", "capInfoEx", "setInfoEx"}
InfoEx == [eosInfo |-> "eosInfoEx", capInfo |-> "capInfoEx", setInfo |-> "setInfoEx"]
DestructorLabels == {"dtorStop", "dtorJoin", "dtorClose", "dtorCloseTxn",
                     "dtorClosed", "dtorTransport", "gone"}
RequestLabels ==
    InfoLabels \cup InfoExLabels \cup
    {"openTxn", "remoteOn", "eventOn", "eventOnM", "remoteOff", "eventOff",
     "closeTxn", "releaseOn", "releaseOff", "release", "setTxn",
     "dtorCloseTxn", "recv"}
ApiLabels ==
    (RequestLabels \ {"recv"}) \cup DestructorLabels \cup
    {"idle", "open", "openTransport", "number", "opened", "invalidate",
     "spawn", "swap", "swapJoin", "pushConnect", "stop", "join", "close",
     "closed", "closeTransport", "pushDisconnect"}
WorkerLabels == {"none", "loop", "check", "lost", "poll", "recv", "props",
                 "except", "sleep", "done", "pureVirtual"}

IsCanon == Vendor = "canon"
InfoExSupported == IsCanon /\ "EOSGetDeviceInfoEx" \in OpsSupported

IsEos == OpsSupported \cap {"EOSRemoteRelease", "EOSRemoteReleaseOn"} # {}
IsEosM == "EOSSetRemoteMode" \in OpsSupported /\ ModelIsEosM
HoldsShutter == "EOSRemoteReleaseOn" \in OpsSupported

Operations ==
    {"OpenSession", "CloseSession", "GetDeviceInfo", "EOSGetDeviceInfoEx",
     "EOSSetRemoteMode", "EOSSetEventMode", "EOSRemoteReleaseOn",
     "EOSRemoteReleaseOff", "EOSRemoteRelease", "EOSSetDevicePropValueEx",
     "EOSGetEvent", "CheckEvents"}

\* The operation requested at a label.
OpAt(l) ==
    CASE l = "openTxn" -> "OpenSession"
      [] l \in {"closeTxn", "dtorCloseTxn"} -> "CloseSession"
      [] l \in InfoLabels -> "GetDeviceInfo"
      [] l \in InfoExLabels -> "EOSGetDeviceInfoEx"
      [] l \in {"remoteOn", "remoteOff"} -> "EOSSetRemoteMode"
      [] l \in {"eventOn", "eventOnM", "eventOff"} -> "EOSSetEventMode"
      [] l = "releaseOn" -> "EOSRemoteReleaseOn"
      [] l = "releaseOff" -> "EOSRemoteReleaseOff"
      [] l = "release" -> "EOSRemoteRelease"
      [] l = "setTxn" -> "EOSSetDevicePropValueEx"
      [] OTHER -> IF IsCanon THEN "EOSGetEvent" ELSE "CheckEvents"

\* What a DeviceInfo lists: the fact, or anything when it is read from another
\* reply.
Lists(di, fact) == IF di = "other" THEN BOOLEAN ELSE {fact}

\* Where a thread may be after its request at a label was answered with OK; di
\* is what a DeviceInfo was read from.
NextAt(l, di) ==
    CASE l = "openTxn" -> {"opened"}
      [] l = "closeTxn" -> {"closed"}
      [] l = "dtorCloseTxn" -> {"dtorClosed"}
      [] l \in InfoLabels -> {i \in {l, InfoEx[l]} :
                                 (i # l) \in Lists(di, InfoExSupported)}
      [] l \in InfoExLabels -> {i \in InfoLabels : InfoEx[i] = l}
      [] l = "remoteOn" -> {"eventOn"}
      [] l = "eventOn" -> {IF m THEN "eventOnM" ELSE "invalidate" :
                             m \in Lists(di, IsEosM)}
      [] l = "eventOnM" -> {"invalidate"}
      [] l = "remoteOff" -> {"eventOff"}
      [] l = "eventOff" -> {"close"}
      [] l = "releaseOn" -> {"releaseOff"}
      [] l = "recv" -> {IF IsCanon THEN "props" ELSE "sleep"}
      [] OTHER -> {"idle"}

\* The vendor part of openSession() after PTP::openSession(), and of
\* closeSession() after stopEventThread().
AfterOpenSession == IF IsCanon THEN "eosInfo" ELSE "invalidate"
AfterStop == IF IsCanon THEN "remoteOff" ELSE "close"

Goto(p, l) == pc' = [pc EXCEPT ![p] = l]
At(l) == pc[API] = l

\* A worker that still runs code of the camera object.
Live(w) == pc[w] \notin {"none", "done"}
NoLiveWorker == \A w \in Workers : ~Live(w)

\* The vendor's vtable is gone once ~CanonPTPCamera has finished.
VendorDestroyed == pc[API] \in DestructorLabels

Push(e) == Len(events) < MaxQueue /\ events' = Append(events, e)

\* Mutants: the exception is caught and forgotten; the event thread has no
\* handler for it.
Throw_Swallowed(p) == Goto(p, "idle") /\ UNCHANGED callVars

Throw_Escapes(p) ==
    /\ Goto(p, IF VendorDestroyed THEN "dtorTransport" ELSE "idle")
    /\ threw' = (threw \/ (p = API /\ ~VendorDestroyed))
    /\ UNCHANGED <<call, detached>>

\* An exception: to the caller of the API, to the event thread's handler, or
\* swallowed by ~PTP.
Throw(p) ==
    /\ Goto(p, IF p # API THEN "except"
               ELSE IF VendorDestroyed THEN "dtorTransport" ELSE "idle")
    /\ threw' = (threw \/ (p = API /\ ~VendorDestroyed))
    /\ UNCHANGED <<call, detached>>

-----------------------------------------------------------------------------
(* The camera (external): what a request does to it.                       *)

CamInit == [session |-> NoSession, tid |-> 0, shutter |-> FALSE]

\* It refuses a second session; without one, all but GetDeviceInfo; and a
\* release it does not have.
CamAccepts(req) ==
    /\ req.op \in {"EOSRemoteReleaseOn", "EOSRemoteRelease"} => req.op \in OpsSupported
    /\ IF req.op = "OpenSession" THEN cam.session = NoSession
       ELSE req.op = "GetDeviceInfo" \/ cam.session # NoSession

CamExecute(req) ==
    [cam EXCEPT !.session = IF req.op = "OpenSession" THEN req.session
                            ELSE IF req.op = "CloseSession" THEN NoSession
                            ELSE @,
                !.shutter = \/ req.op = "EOSRemoteReleaseOn"
                            \/ @ /\ req.op # "EOSRemoteReleaseOff"]

\* It forgets the session when the connection ends.
CamDisconnected(c) == [c EXCEPT !.session = NoSession]

\* What becomes of it with the reply to a request, or without one.  It may have
\* replied long before the reply is read; the request may be lost, or only what
\* it replied; an unknown packet may come before it has looked at the request.
CamAnswers(req, r) ==
    \/ r = "lost"
       /\ \/ cam' = CamDisconnected(cam)
          \/ /\ req.reply = "none" /\ CamAccepts(req)
             /\ cam' = CamDisconnected(CamExecute(req))
    \/ r = "unexpected" /\ UNCHANGED cam
    \/ req.reply = "none"
       /\ \/ r \in {"ok", "garbled"} /\ CamAccepts(req) /\ cam' = CamExecute(req)
          \/ r = "refused" /\ UNCHANGED cam
    \/ req.reply # "none" /\ r \in {req.reply, "garbled"} /\ UNCHANGED cam

-----------------------------------------------------------------------------
(* PTP::transaction                                                        *)

Waiting(p) == \E i \in DOMAIN wire : wire[i].by = p

\* A thread about to call mesg(), send() or recv(); getCachedDI() only
\* fetches what it does not have.
Requesting(p) ==
    /\ pc[p] \in RequestLabels
    /\ pc[p] \in InfoLabels => cachedDI = "none"
    /\ ~Waiting(p)

\* The request of a thread, and the transaction id it is sent with.
RequestOf(p) ==
    [by |-> p, op |-> OpAt(pc[p]),
     session |-> IF OpAt(pc[p]) = "OpenSession" THEN sessionId ELSE NoSession,
     reply |-> "none"]
TidToSend == IF isSessionOpen THEN transactionId ELSE 0

\* Mutant: no lock_guard.
Begin_Unlocked(p) ==
    /\ Requesting(p)
    /\ isOpen
    /\ mutex' = p
    /\ wire' = Append(wire, RequestOf(p))
    /\ cam' = [cam EXCEPT !.tid = TidToSend]
    /\ transactionId' = (transactionId + 1) % TidModulus
    /\ UNCHANGED <<pc, threadVars, isOpen, sessionVars, cachedDI, link,
                   queueVars, callVars>>

\* Take transactionMutex, find the transport open, number the request and
\* send it.
Begin(p) ==
    /\ Requesting(p)
    /\ mutex = NoThread
    /\ isOpen
    /\ mutex' = p
    /\ wire' = Append(wire, RequestOf(p))
    /\ cam' = [cam EXCEPT !.tid = TidToSend]
    /\ transactionId' = IF isSessionOpen THEN (transactionId + 1) % TidModulus
                        ELSE transactionId
    /\ UNCHANGED <<pc, threadVars, isOpen, sessionVars, cachedDI, link,
                   queueVars, callVars>>

\* NotConnected: the transport is not open.
NotConnected(p) ==
    /\ Requesting(p)
    /\ mutex = NoThread
    /\ ~isOpen
    /\ Throw(p)
    /\ UNCHANGED <<threadVars, isOpen, sessionVars, cachedDI, txnVars, cam,
                   queueVars>>

\* The requests when a thread has stopped waiting for the reply to its own.
Left(p) == [i \in DOMAIN wire |-> [wire[i] EXCEPT !.by = IF @ = p THEN NoThread ELSE @]]

\* The requests when the connection has ended: one under way fails by itself.
Dropped == IF mutex = NoThread THEN <<>> ELSE wire

\* The answer: the next reply on the connection, which is that to the oldest
\* request whose reply has not been read, whoever sent it.
\* "ok": response code OK.  "refused": another response code.
\* "garbled": WrongDataLength, an exception that leaves the transport open.
\* "unexpected": UnexpectedPacket, which leaves the rest of the reply as well.
\* "lost": a send or receive failed or timed out and closed the socket.
Finish(p, r) ==
    /\ Waiting(p)
    /\ isOpen \/ r = "lost"
    /\ r = "unexpected" => Len(wire) <= MaxStale
    /\ mutex' = NoThread
    /\ wire' = CASE r = "lost" -> <<>>
                 [] r = "unexpected" -> Left(p)
                 [] OTHER -> Tail(Left(p))
    /\ isOpen' = (isOpen /\ r # "lost")
    /\ link' = IF r = "unexpected" THEN "outOfStep"
               ELSE IF r = "garbled" /\ link = "inStep" /\ pc[p] \in {"closeTxn", "dtorCloseTxn"}
               THEN "closeUnsure" ELSE link
    /\ CamAnswers(Head(wire), r)
    /\ LET di == IF pc[p] \in InfoLabels \cup InfoExLabels
                 THEN IF Head(wire).by = p THEN "own" ELSE "other"
                 ELSE cachedDI
       IN  IF r = "ok"
           THEN \E l \in NextAt(pc[p], di) :
                    /\ Goto(p, l)
                    /\ cachedDI' = IF l \in InfoExLabels THEN cachedDI ELSE di
                    /\ UNCHANGED callVars
           ELSE Throw(p) /\ UNCHANGED cachedDI
    /\ UNCHANGED <<threadVars, sessionVars, transactionId, queueVars>>

\* The camera goes on with what it was sent while a reply before is unread.  Of a
\* request it has replied to only the reply matters.
CamRunsAhead ==
    /\ isOpen /\ wire # <<>> /\ Head(wire).by = NoThread
    /\ \E i \in DOMAIN wire, r \in {"ok", "refused"} \cap Outcomes :
        /\ \A j \in 1..i : wire[j].reply = "none" <=> j = i
        /\ CamAnswers(wire[i], r)
        /\ wire' = [wire EXCEPT ![i] = [by |-> @.by, op |-> "replied",
                                        session |-> NoSession, reply |-> r]]
    /\ UNCHANGED <<pc, threadVars, isOpen, sessionVars, cachedDI, mutex,
                   transactionId, link, queueVars, callVars>>

-----------------------------------------------------------------------------
(* The caller's thread: connect() and openSession().                       *)

\* A step of the caller that changes only where it is.
Jump(l, target) ==
    /\ At(l)
    /\ Goto(API, target)
    /\ UNCHANGED <<threadVars, isOpen, sessionVars, cachedDI, txnVars, cam,
                   queueVars, callVars>>

\* Where a call starts.  Nikon's capture() and setProp() are empty.
Entry(c) ==
    CASE c = "connect" -> "open"
      [] c = "disconnect" -> "stop"
      [] c = "destroy" -> "dtorStop"
      [] c = "capture" -> IF IsCanon THEN "capInfo" ELSE "idle"
      [] c = "setProp" -> IF IsCanon THEN "setInfo" ELSE "idle"

Call(c) ==
    /\ At("idle")
    /\ Goto(API, Entry(c))
    /\ call' = c
    /\ threw' = FALSE
    /\ detached' = CASE c = "connect" -> FALSE
                     [] c = "disconnect" -> TRUE
                     [] OTHER -> detached
    /\ UNCHANGED <<threadVars, isOpen, sessionVars, cachedDI, txnVars, cam,
                   queueVars>>

Open == Jump("open", IF isSessionOpen THEN AfterOpenSession
                     ELSE IF isOpen THEN "number" ELSE "openTransport")

OpenTransport ==
    /\ At("openTransport")
    /\ isOpen' = TRUE
    /\ link' = "inStep"
    /\ Goto(API, "number")
    /\ UNCHANGED <<threadVars, sessionVars, cachedDI, mutex, wire,
                   transactionId, cam, queueVars, callVars>>

\* A failed handshake leaves the transport closed, or open when it failed
\* after both sockets were connected.
OpenTransportFails ==
    /\ At("openTransport")
    /\ Outcomes # {"ok"}
    /\ isOpen' \in BOOLEAN
    /\ link' = "inStep"
    /\ Throw(API)
    /\ UNCHANGED <<threadVars, sessionVars, cachedDI, mutex, wire,
                   transactionId, cam, queueVars>>

\* Mutants: the transaction ids of a session go on from the last one's; the
\* session counts as open before the camera has opened it.
Number_NoReset ==
    /\ At("number")
    /\ sessionId' = (sessionId + 1) % SessionModulus
    /\ Goto(API, "openTxn")
    /\ UNCHANGED <<threadVars, isOpen, isSessionOpen, cachedDI, txnVars, cam,
                   queueVars, callVars>>

Number_Early ==
    /\ At("number")
    /\ sessionId' = (sessionId + 1) % SessionModulus
    /\ transactionId' = 1
    /\ isSessionOpen' = TRUE
    /\ Goto(API, "openTxn")
    /\ UNCHANGED <<threadVars, isOpen, cachedDI, mutex, wire, link, cam,
                   queueVars, callVars>>

Number ==
    /\ At("number")
    /\ sessionId' = (sessionId + 1) % SessionModulus
    /\ transactionId' = 1
    /\ Goto(API, "openTxn")
    /\ UNCHANGED <<threadVars, isOpen, isSessionOpen, cachedDI, mutex, wire,
                   link, cam, queueVars, callVars>>

Opened ==
    /\ At("opened")
    /\ isSessionOpen' = TRUE
    /\ Goto(API, AfterOpenSession)
    /\ UNCHANGED <<threadVars, isOpen, sessionId, cachedDI, txnVars, cam,
                   queueVars, callVars>>

\* isEos(), and the choice capture() makes, once the DeviceInfo is cached.
CheckModel ==
    /\ cachedDI # "none"
    /\ \E eos \in Lists(cachedDI, IsEos) :
        IF eos THEN Jump("eosInfo", "remoteOn")
        ELSE /\ At("eosInfo")        \* UnsupportedCamera
             /\ Throw(API)
             /\ UNCHANGED <<threadVars, isOpen, sessionVars, cachedDI, txnVars,
                            cam, queueVars>>

ChooseRelease ==
    /\ cachedDI # "none"
    /\ \E on \in Lists(cachedDI, HoldsShutter) :
        Jump("capInfo", IF on THEN "releaseOn" ELSE "release")

\* setProp() throws for a property that is not in the tables or not
\* supported by the camera, and for a value that is not in the tables.
SendProp == cachedDI # "none" /\ Jump("setInfo", "setTxn")

RefuseProp ==
    /\ At("setInfo") /\ ~Waiting(API)
    /\ Throw(API)
    /\ UNCHANGED <<threadVars, isOpen, sessionVars, cachedDI, txnVars, cam,
                   queueVars>>

Invalidate ==
    /\ At("invalidate")
    /\ cachedDI' = "none"
    /\ Goto(API, "spawn")
    /\ UNCHANGED <<threadVars, isOpen, sessionVars, txnVars, cam, queueVars,
                   callVars>>

\* Mutant: the thread that eventThread held is abandoned.
Spawn_Detached(w) ==
    /\ At("spawn")
    /\ pc[w] = "none"
    /\ stop' = [stop EXCEPT ![w] = FALSE]
    /\ eventThread' = w
    /\ pc' = [pc EXCEPT ![w] = "loop", ![API] = "pushConnect"]
    /\ UNCHANGED <<fresh, isOpen, sessionVars, cachedDI, txnVars, cam,
                   queueVars, callVars>>

\* startEventThread: the new thread runs as soon as it is constructed; the
\* assignment then stops and joins the one eventThread held.
Spawn(w) ==
    /\ At("spawn")
    /\ pc[w] = "none"
    /\ stop' = [stop EXCEPT ![w] = FALSE]
    /\ IF eventThread = NoThread
       THEN /\ eventThread' = w
            /\ pc' = [pc EXCEPT ![w] = "loop", ![API] = "pushConnect"]
            /\ UNCHANGED fresh
       ELSE /\ fresh' = w
            /\ pc' = [pc EXCEPT ![w] = "loop", ![API] = "swap"]
            /\ UNCHANGED eventThread
    /\ UNCHANGED <<isOpen, sessionVars, cachedDI, txnVars, cam, queueVars,
                   callVars>>

\* request_stop() on the thread held, then the join.
RequestStop(l, target) ==
    /\ At(l)
    /\ eventThread # NoThread
    /\ stop' = [stop EXCEPT ![eventThread] = TRUE]
    /\ Goto(API, target)
    /\ UNCHANGED <<eventThread, fresh, isOpen, sessionVars, cachedDI, txnVars,
                   cam, queueVars, callVars>>

Join(l, target) ==
    /\ At(l)
    /\ pc[eventThread] = "done"
    /\ pc' = [pc EXCEPT ![eventThread] = "none", ![API] = target]
    /\ eventThread' = fresh
    /\ fresh' = NoThread
    /\ UNCHANGED <<stop, isOpen, sessionVars, cachedDI, txnVars, cam,
                   queueVars, callVars>>

Swap == RequestStop("swap", "swapJoin")
SwapJoin == Join("swapJoin", "pushConnect")

\* The end of connect(), and of disconnect().
PushAndReturn(l, e) ==
    /\ At(l)
    /\ Push(e)
    /\ Goto(API, "idle")
    /\ UNCHANGED <<threadVars, isOpen, sessionVars, cachedDI, txnVars, cam,
                   view, callVars>>

PushConnect == PushAndReturn("pushConnect", "Connect")

-----------------------------------------------------------------------------
(* The caller's thread: disconnect(), closeSession() and the destructor.   *)

\* Mutant: request_stop() without join().
StopEventThread_NoJoin ==
    IF eventThread = NoThread THEN Jump("stop", AfterStop)
    ELSE RequestStop("stop", AfterStop)

StopEventThread ==
    IF eventThread = NoThread THEN Jump("stop", AfterStop)
    ELSE RequestStop("stop", "join")

JoinEventThread == Join("join", AfterStop)

Close == Jump("close", IF isSessionOpen THEN "closeTxn" ELSE "closeTransport")

Closed ==
    /\ isSessionOpen' = FALSE
    /\ \/ At("closed") /\ Goto(API, "closeTransport")
       \/ At("dtorClosed") /\ Goto(API, "dtorTransport")
    /\ UNCHANGED <<threadVars, isOpen, sessionId, cachedDI, txnVars, cam,
                   queueVars, callVars>>

\* Mutant: closeTransport() without transport->close().
CloseTransport_FlagOnly ==
    /\ At("closeTransport")
    /\ isSessionOpen' = FALSE
    /\ Goto(API, "pushDisconnect")
    /\ UNCHANGED <<threadVars, isOpen, sessionId, cachedDI, txnVars, cam,
                   queueVars, callVars>>

CloseTransport ==
    /\ At("closeTransport")
    /\ isOpen' = FALSE
    /\ isSessionOpen' = FALSE
    /\ wire' = Dropped
    /\ cam' = CamDisconnected(cam)
    /\ Goto(API, "pushDisconnect")
    /\ UNCHANGED <<threadVars, sessionId, cachedDI, mutex, transactionId, link,
                   queueVars, callVars>>

PushDisconnect == PushAndReturn("pushDisconnect", "Disconnect")

\* ~PTPCamera destroys cachedDI, then eventThread; ~PTP closes the session
\* (PTP::closeSession, whatever the vendor) and the transport.
DtorStop ==
    /\ At("dtorStop")
    /\ cachedDI' = "none"
    /\ stop' = IF eventThread = NoThread THEN stop
               ELSE [stop EXCEPT ![eventThread] = TRUE]
    /\ Goto(API, IF eventThread = NoThread THEN "dtorClose" ELSE "dtorJoin")
    /\ UNCHANGED <<eventThread, fresh, isOpen, sessionVars, txnVars, cam,
                   queueVars, callVars>>

DtorJoin == Join("dtorJoin", "dtorClose")

DtorClose ==
    Jump("dtorClose", IF isSessionOpen THEN "dtorCloseTxn" ELSE "dtorTransport")

DtorTransport ==
    /\ At("dtorTransport")
    /\ isOpen' = FALSE
    /\ wire' = Dropped
    /\ cam' = CamDisconnected(cam)
    /\ Goto(API, "gone")
    /\ UNCHANGED <<threadVars, sessionVars, cachedDI, mutex, transactionId, link,
                   queueVars, callVars>>

-----------------------------------------------------------------------------
(* The event thread.                                                       *)

WorkerJump(w, l, target) ==
    /\ pc[w] = l
    /\ Goto(w, target)
    /\ UNCHANGED <<threadVars, isOpen, sessionVars, cachedDI, txnVars, cam,
                   queueVars, callVars>>

WorkerPush(w, l, e, target) ==
    /\ pc[w] = l
    /\ Push(e)
    /\ Goto(w, target)
    /\ UNCHANGED <<threadVars, isOpen, sessionVars, cachedDI, txnVars, cam,
                   view, callVars>>

\* Mutants: the stop token is not looked at; a loss is not reported.
Loop_Unstoppable(w) == WorkerJump(w, "loop", "check")
Check_Silent(w) == WorkerJump(w, "check", IF isOpen THEN "poll" ELSE "done")

Loop(w) == WorkerJump(w, "loop", IF stop[w] THEN "done" ELSE "check")
Check(w) == WorkerJump(w, "check", IF isOpen THEN "poll" ELSE "lost")
ReportLoss(w) == WorkerPush(w, "lost", "Disconnect", "done")

\* The virtual call of getNewEvents().
Poll(w) == WorkerJump(w, "poll", IF VendorDestroyed THEN "pureVirtual" ELSE "recv")

\* The properties the polled events changed: any number of them.
PropChanged(w) == WorkerPush(w, "props", "SetProp", "props")
NoMoreProps(w) == WorkerJump(w, "props", "sleep")

\* Mutant: the exception ends the loop of the thread.
HandleException_Ends(w) == WorkerPush(w, "except", "Exception", "done")

HandleException(w) == WorkerPush(w, "except", "Exception", "sleep")
Wake(w) == WorkerJump(w, "sleep", "loop")

-----------------------------------------------------------------------------
(* The network and the consumer of the events.                             *)

\* WiFiClient::connected() turns false between two calls (esp32); the other
\* ways a connection ends are in Finish.
ConnectionDrops ==
    /\ isOpen /\ "lost" \in Outcomes
    /\ isOpen' = FALSE
    /\ wire' = Dropped
    /\ cam' = CamDisconnected(cam)
    /\ UNCHANGED <<pc, threadVars, sessionVars, cachedDI, mutex, transactionId,
                   link, queueVars, callVars>>

Pop ==
    /\ events # <<>>
    /\ events' = Tail(events)
    /\ view' = IF Head(events) \in {"Connect", "Disconnect"} THEN Head(events)
               ELSE view
    /\ UNCHANGED <<pc, threadVars, isOpen, sessionVars, cachedDI, txnVars, cam,
                   callVars>>

-----------------------------------------------------------------------------

Init ==
    /\ pc = [p \in Procs |-> IF p = API THEN "idle" ELSE "none"]
    /\ stop = [w \in Workers |-> FALSE]
    /\ eventThread = NoThread /\ fresh = NoThread
    /\ isOpen \in BOOLEAN       \* left open by the factory, or lost since
    /\ isSessionOpen = FALSE /\ sessionId = 0 /\ transactionId = 0
    /\ cachedDI = "none"
    /\ mutex = NoThread /\ wire = <<>> /\ link = "inStep"
    /\ cam = CamInit
    /\ events = <<>> /\ view = "Disconnect"
    /\ call = "none" /\ threw = FALSE /\ detached = FALSE

Transaction(p) ==
    Begin(p) \/ NotConnected(p) \/ \E r \in Outcomes : Finish(p, r)

ConnectStep ==
    \/ Open \/ OpenTransport \/ OpenTransportFails \/ Number \/ Opened
    \/ CheckModel \/ Invalidate \/ Swap \/ SwapJoin \/ PushConnect
    \/ \E w \in Workers : Spawn(w)

DisconnectStep ==
    \/ StopEventThread \/ JoinEventThread \/ Close \/ Closed
    \/ CloseTransport \/ PushDisconnect

DestroyStep == DtorStop \/ DtorJoin \/ DtorClose \/ DtorTransport

ControlStep == ChooseRelease \/ SendProp \/ RefuseProp

CallStep == ConnectStep \/ DisconnectStep \/ DestroyStep \/ ControlStep

WorkerStep(w) ==
    \/ Loop(w) \/ Check(w) \/ ReportLoss(w) \/ Poll(w)
    \/ PropChanged(w) \/ NoMoreProps(w) \/ HandleException(w) \/ Wake(w)

Next ==
    \/ \E c \in Calls : Call(c)
    \/ CallStep
    \/ \E w \in Workers : WorkerStep(w)
    \/ \E p \in Procs : Transaction(p)
    \/ CamRunsAhead \/ ConnectionDrops
    \/ Pop

Spec == Init /\ [][Next]_vars

\* Threads run, and a poll returns finitely many properties; a transaction ends
\* (the 10 s timeout at the latest); the event thread sleeps 200 ms between two
\* requests, without transactionMutex, so that neither thread is kept from it
\* for ever; the application polls events.  Strong fairness of the pushes: the
\* queue is unbounded in the code, its bound here must not hold one up.
Fairness ==
    /\ WF_vars(CallStep) /\ SF_vars(PushConnect \/ PushDisconnect)
    /\ \A w \in Workers :
        /\ WF_vars(WorkerStep(w)) /\ WF_vars(NoMoreProps(w))
        /\ SF_vars(ReportLoss(w) \/ HandleException(w))
    /\ \A p \in Procs :
        /\ SF_vars(Begin(p) \/ NotConnected(p))
        /\ WF_vars(\E r \in Outcomes : Finish(p, r))
    /\ WF_vars(Pop)

FairSpec == Spec /\ Fairness

-----------------------------------------------------------------------------
(* Properties.                                                             *)

Request ==
    [by : Procs \cup {NoThread}, op : Operations \cup {"replied"}, session : Nat \cup {NoSession},
     reply : {"none", "ok", "refused"}]

\* Types, and which labels belong to which thread.
TypeOK ==
    /\ pc \in [Procs -> ApiLabels \cup WorkerLabels]
    /\ pc[API] \in ApiLabels
    /\ \A w \in Workers : pc[w] \in WorkerLabels
    /\ stop \in [Workers -> BOOLEAN]
    /\ eventThread \in Workers \cup {NoThread}
    /\ fresh \in Workers \cup {NoThread}
    /\ isOpen \in BOOLEAN /\ isSessionOpen \in BOOLEAN
    /\ cachedDI \in {"none", "own", "other"}
    /\ sessionId \in 0..SessionModulus - 1
    /\ transactionId \in 0..TidModulus - 1
    /\ mutex \in Procs \cup {NoThread}
    /\ wire \in Seq(Request)
    /\ cam \in [session : Nat \cup {NoSession}, tid : Nat, shutter : BOOLEAN]
    /\ events \in Seq({"Connect", "Disconnect", "SetProp", "Exception"})
    /\ view \in {"Connect", "Disconnect"}
    /\ call \in Calls \cup {"none"}
    /\ threw \in BOOLEAN /\ detached \in BOOLEAN
    /\ link \in {"inStep", "closeUnsure", "outOfStep"}

\* Every event thread that runs is one that eventThread holds, or the one
\* being assigned to it: startEventThread never abandons a running thread.
NoOrphanThread ==
    \A w \in Workers :
        Live(w) => w = eventThread \/ (pc[API] \in {"swap", "swapJoin"} /\ w = fresh)

\* openSession() and closeSession() write isSessionOpen and sessionId, and
\* restart transactionId, without transactionMutex: at no such write does an
\* event thread run that could be reading them in transaction().
SessionWritesUncontended ==
    [][\/ sessionVars' # sessionVars
       \/ transactionId' # transactionId /\ mutex' = mutex
       => NoLiveWorker]_vars

\* PTPIP::transaction takes the next response on the socket for its own, and
\* looks at no transaction id: the oldest request whose reply is unread is that
\* of the thread that waits, unless UnexpectedPacket was thrown on this very
\* connection.  That is the only way to a wrong answer: not a refusal, a
\* garbled or lost answer, nor the other thread.
ResponseIsOwn ==
    link # "outOfStep" => \A p \in Procs : Waiting(p) => Head(wire).by = p

\* In a session the camera is sent transaction ids without gap or repetition,
\* whichever thread sends, and whatever it was answered before.
TidConsecutive ==
    [][isSessionOpen /\ Len(wire') > Len(wire)
       => cam'.tid = (cam.tid + 1) % TidModulus]_vars

\* While the transport is open and the session flag is set the camera has that
\* session open, on a connection in step on which no CloseSession was done
\* whose answer then failed.
SessionAgreement ==
    link = "inStep" /\ isOpen /\ isSessionOpen /\ pc[API] \notin {"closed", "dtorClosed"}
    => cam.session = sessionId

\* When disconnect() has been called, whether it returned or threw, the object
\* pushes no event but disconnect()'s own until connect() is called again.
SilentAfterDisconnect ==
    [][detached /\ pc[API] \notin {"stop", "join", "pushDisconnect"}
       => Len(events') <= Len(events)]_vars

\* An open connection is polled: once connect() has returned there is an event
\* thread, and as long as the transport is open, whatever is thrown in it, it
\* goes on until it is told to stop.
ConnectedIsPolled ==
    /\ At("idle") /\ call = "connect" /\ ~threw => eventThread # NoThread
    /\ isOpen /\ eventThread # NoThread /\ pc[API] \notin {"swapJoin", "join", "dtorJoin"}
       => Live(eventThread)

\* A limit of the code, and the reason why a thread that has ended is never
\* needed again: a session whose transport was lost outside disconnect()'s last
\* step stays as it is.  openSession() finds isSessionOpen set, closeSession()
\* throws before closeTransport(); only a new object reaches the camera again.
LostSessionIsTerminal ==
    [][~isOpen /\ isSessionOpen /\ pc[API] \notin {"closed", "dtorClosed"}
       => ~isOpen' /\ isSessionOpen']_vars

\* When disconnect() has returned normally nothing of the connection is left:
\* no event thread, no session on either side, no request under way and no
\* reply unread that the next connection could take for its own.
DisconnectIsComplete ==
    At("idle") /\ call = "disconnect" /\ ~threw =>
        /\ NoLiveWorker /\ wire = <<>>
        /\ ~isOpen /\ ~isSessionOpen /\ cam.session = NoSession

\* A capture() that returned normally has released the shutter, also when an
\* earlier one failed and left it pressed; except on a connection out of step,
\* where its responses are those of earlier requests, or with a DeviceInfo read
\* on such a connection, which decides between the release operations.
CaptureReleases ==
    At("idle") /\ call = "capture" /\ ~threw /\ IsCanon
    /\ link # "outOfStep" /\ cachedDI = "own"
    => ~cam.shutter

\* Destroying the object after disconnect(), even one that threw, never meets
\* an event thread that would call the pure virtual getNewEvents().
DestroyAfterDisconnectIsSafe ==
    /\ detached => \A w \in Workers : pc[w] # "pureVirtual"
    /\ At("gone") => NoLiveWorker /\ ~isOpen

\* Every call returns or throws.
CallsReturn == ~At("idle") ~> At("idle")

\* An event thread that runs on a lost connection reports the loss, unless it
\* is told to stop first.
LossIsReported ==
    \A w \in Workers :
        (Live(w) /\ ~isOpen) ~>
            (stop[w] \/ \E i \in DOMAIN events : events[i] = "Disconnect")

\* The object is a Camera as its wrapper sees it: its own events come only from
\* an event thread, which a connect() starts and no disconnect() leaves behind,
\* even one that throws; a call that returns pushes its event last.
Contract == INSTANCE CameraContract WITH
                busy <- IF At("idle") THEN "none" ELSE call,
                polling <- ~NoLiveWorker
ImplementsCamera == Contract!Spec

\* What the README promises of the events ("state synchronization"): a consumer
\* that has read all events, while nothing runs, knows a lost connection.
EventsTellState ==
    At("idle") /\ NoLiveWorker /\ events = <<>> /\ view = "Connect" => isOpen

-----------------------------------------------------------------------------
(* What the proofs of PTPCamera_proofs add to make an inductive invariant. *)

\* connect() after PTP::openSession(); before it; and after stopEventThread().
ConnectingLabels ==
    {"eosInfo", "eosInfoEx", "remoteOn", "eventOn", "eventOnM", "invalidate",
     "spawn", "swap", "swapJoin", "pushConnect"}
OpeningLabels == {"openTransport", "number", "openTxn", "opened"}
StoppedLabels ==
    {"remoteOff", "eventOff", "close", "closeTxn", "closed", "closeTransport",
     "pushDisconnect", "dtorClose", "dtorCloseTxn", "dtorClosed",
     "dtorTransport", "gone"}

\* The threads there are, and when.
ThreadInv ==
    /\ \A w \in Workers : pc[w] # "none" => w \in {eventThread, fresh}
    /\ eventThread # NoThread => pc[eventThread] # "none" /\ isSessionOpen
    /\ fresh # NoThread <=> pc[API] \in {"swap", "swapJoin"}
    /\ fresh # NoThread => fresh # eventThread /\ pc[fresh] # "none"
    /\ pc[API] \in {"swap", "swapJoin", "join", "dtorJoin"} => eventThread # NoThread
    /\ pc[API] \in StoppedLabels => eventThread = NoThread
    /\ pc[API] \in ConnectingLabels => isSessionOpen
    /\ pc[API] \in OpeningLabels \cup {"closeTransport"} => ~isSessionOpen

\* disconnect() leaves no event thread, even when it throws.
DetachInv ==
    /\ pc[API] \in ConnectingLabels \cup OpeningLabels \cup {"open"} => ~detached
    /\ detached /\ pc[API] \notin {"stop", "join"} => eventThread = NoThread
    /\ \A w \in Workers : pc[w] = "pureVirtual" => VendorDestroyed
    /\ At("gone") => ~isOpen

\* transactionMutex is held exactly while a thread waits for an answer, to the
\* last request sent.  No reply of before is unread on a connection in step, and
\* none at all on a closed one; only a closed one is opened.
TxnInv ==
    /\ mutex = NoThread => \A i \in DOMAIN wire : wire[i].by = NoThread
    /\ mutex # NoThread =>
        /\ wire # <<>> /\ wire[Len(wire)].by = mutex
        /\ \A i \in 1..Len(wire) - 1 : wire[i].by = NoThread
        /\ pc[mutex] \in RequestLabels
        /\ pc[mutex] \in InfoLabels => cachedDI = "none"
    /\ link # "outOfStep" =>
        \A i \in DOMAIN wire : wire[i].by # NoThread /\ wire[i].reply = "none"
    /\ mutex = NoThread /\ ~isOpen => wire = <<>>
    /\ At("openTransport") => ~isOpen

\* disconnect() runs at labels of its own, and nothing of the connection is left
\* before its last step and once it has returned.
DisconnectLabels ==
    {"idle", "stop", "join", "remoteOff", "eventOff", "close", "closeTxn",
     "closed", "closeTransport", "pushDisconnect"}
CompleteInv ==
    /\ call = "disconnect" => pc[API] \in DisconnectLabels
    /\ At("pushDisconnect") \/ (At("idle") /\ call = "disconnect" /\ ~threw) =>
        /\ eventThread = NoThread
        /\ ~isOpen /\ ~isSessionOpen /\ cam.session = NoSession

\* Threads, transactions and what a disconnect() leaves: the part of the
\* inductive invariant that stands alone.
BaseInv == TypeOK /\ ThreadInv /\ DetachInv /\ TxnInv /\ CompleteInv

\* Each call runs at labels of its own.
CallLabels ==
    [connect    |-> {"open"} \cup OpeningLabels \cup ConnectingLabels,
     disconnect |-> DisconnectLabels,
     capture    |-> {"capInfo", "capInfoEx", "releaseOn", "releaseOff", "release"},
     setProp    |-> {"setInfo", "setInfoEx", "setTxn"},
     destroy    |-> DestructorLabels,
     none       |-> {}]
CallInv == At("idle") \/ pc[API] \in CallLabels[call]

\* The request under way is the one of its label, unless the camera has replied
\* while the thread was still given another reply.
RequestInv ==
    mutex # NoThread =>
        LET own == wire[Len(wire)] IN
        own.reply = "none" =>
        /\ own.op = OpAt(pc[mutex])
        /\ own.op = "OpenSession" => own.session = sessionId

\* In a session the next transaction id is the one after the last that was sent.
TidInv ==
    /\ pc[API] = "openTxn" => transactionId = 1
    /\ \/ isSessionOpen \/ At("opened") \/ (At("openTxn") /\ mutex = API)
       => transactionId = (cam.tid + 1) % TidModulus

\* Only releaseOn presses the shutter, and only on a camera that has it.
CaptureInv ==
    /\ cam.shutter => HoldsShutter
    /\ At("release") /\ cachedDI = "own" => ~HoldsShutter
    /\ CaptureReleases

\* The two sides agree from the answer to OpenSession on.
AgreementInv ==
    /\ SessionAgreement
    /\ link = "inStep" /\ At("opened") /\ isOpen => cam.session = sessionId

\* An event thread that has ended of its own accord, or is about to, has seen
\* the transport closed, which no connect() opens again.
PollInv ==
    /\ \A w \in Workers : pc[w] = "lost" \/ (pc[w] = "done" /\ ~stop[w]) => ~isOpen
    /\ pc[API] \notin {"swapJoin", "join", "dtorJoin"} /\ eventThread # NoThread
       => ~stop[eventThread]
    /\ fresh # NoThread => ~stop[fresh]
    /\ At("pushConnect") \/ (At("idle") /\ call = "connect" /\ ~threw)
       => eventThread # NoThread

\* The inductive invariant.
IInv ==
    BaseInv /\ CallInv /\ RequestInv /\ TidInv /\ CaptureInv /\ AgreementInv /\ PollInv
=============================================================================
