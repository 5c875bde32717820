--------------------------- MODULE PTPCamera_proofs ---------------------------
(* Proofs about PTPCamera: types, threads and the transport (BaseInv), then *)
(* the session, the request under way, and the contract of a Camera (IInv). *)
EXTENDS PTPCamera, SequenceTheorems, TLAPS

USE DEF threadVars, sessionVars, txnVars, queueVars, callVars, API, Procs

Events == {"Connect", "Disconnect", "SetProp", "Exception"}

-----------------------------------------------------------------------------
(* Labels.                                                                 *)

\* Where the answers to the requests for a DeviceInfo lead.
LEMMA NextAtInfo ==
    ASSUME NEW k \in InfoLabels, NEW di, NEW l \in NextAt(k, di)
    PROVE  l = k \/ (k = "eosInfo" /\ l = "eosInfoEx") \/ (k = "capInfo" /\ l = "capInfoEx")
             \/ (k = "setInfo" /\ l = "setInfoEx")
  <1>1. k \in {"eosInfo", "capInfo", "setInfo"}
    BY DEF InfoLabels
  <1>2. l = k \/ l = InfoEx[k]
    BY <1>1 DEF NextAt, InfoLabels, InfoExLabels
  <1> QED
    BY <1>1, <1>2 DEF InfoEx

\* And those to the requests for its extension.
LEMMA NextAtInfoEx ==
    ASSUME NEW k \in InfoExLabels, NEW di, NEW l \in NextAt(k, di)
    PROVE  \/ k = "eosInfoEx" /\ l = "eosInfo"
           \/ k = "capInfoEx" /\ l = "capInfo"
           \/ k = "setInfoEx" /\ l = "setInfo"
  <1>1. k \in {"eosInfoEx", "capInfoEx", "setInfoEx"}
    BY DEF InfoExLabels
  <1>2. NextAt(k, di) = {i \in InfoLabels : InfoEx[i] = k}
    BY <1>1 DEF NextAt, InfoLabels, InfoExLabels
  <1>3. l \in {"eosInfo", "capInfo", "setInfo"} /\ InfoEx[l] = k
    BY <1>2 DEF InfoLabels
  <1> QED
    BY <1>1, <1>3 DEF InfoEx

\* Where all other answers lead.
LEMMA NextAtOther ==
    ASSUME NEW k \in RequestLabels \ (InfoLabels \cup InfoExLabels), NEW di,
           NEW l \in NextAt(k, di)
    PROVE  \/ k = "openTxn" /\ l = "opened"
           \/ k = "closeTxn" /\ l = "closed"
           \/ k = "dtorCloseTxn" /\ l = "dtorClosed"
           \/ k = "remoteOn" /\ l = "eventOn"
           \/ k = "eventOn" /\ l \in {"eventOnM", "invalidate"}
           \/ k = "eventOnM" /\ l = "invalidate"
           \/ k = "remoteOff" /\ l = "eventOff"
           \/ k = "eventOff" /\ l = "close"
           \/ k = "releaseOn" /\ l = "releaseOff"
           \/ k = "recv" /\ l \in {"props", "sleep"}
           \/ k \in {"releaseOff", "release", "setTxn"} /\ l = "idle"
  <1>1. k \in {"openTxn", "remoteOn", "eventOn", "eventOnM", "remoteOff", "eventOff",
               "closeTxn", "releaseOn", "releaseOff", "release", "setTxn",
               "dtorCloseTxn", "recv"}
    BY DEF RequestLabels
  <1>2. k \notin {"eosInfo", "capInfo", "setInfo", "eosInfoEx", "capInfoEx", "setInfoEx"}
    BY DEF InfoLabels, InfoExLabels
  <1>3. CASE k = "eventOn"
    <2>1. NextAt(k, di) = {IF m THEN "eventOnM" ELSE "invalidate" : m \in Lists(di, IsEosM)}
      BY <1>3 DEF NextAt, InfoLabels, InfoExLabels
    <2> QED
      BY <1>3, <2>1
  <1>4. CASE k # "eventOn"
    BY <1>1, <1>2, <1>4 DEF NextAt, InfoLabels, InfoExLabels
  <1> QED
    BY <1>3, <1>4

\* A request's answer leads the caller to one of its own labels, and the event
\* thread back into its loop.
LEMMA NextAtLabel ==
    ASSUME NEW k \in RequestLabels, NEW di, NEW l \in NextAt(k, di)
    PROVE  /\ k # "recv" => l \in ApiLabels
           /\ k = "recv" => l \in {"props", "sleep"}
  <1>1. CASE k \in InfoLabels
    BY <1>1, NextAtInfo DEF InfoLabels, ApiLabels, RequestLabels, InfoExLabels
  <1>2. CASE k \in InfoExLabels
    BY <1>2, NextAtInfoEx DEF InfoExLabels, InfoLabels, ApiLabels, RequestLabels
  <1>3. CASE k \notin InfoLabels \cup InfoExLabels
    BY <1>3, NextAtOther DEF RequestLabels, ApiLabels, DestructorLabels
  <1> QED
    BY <1>1, <1>2, <1>3

\* Every label sends an operation of the table.
LEMMA OpAtType == ASSUME NEW l PROVE OpAt(l) \in Operations
  BY SMTT(60) DEF OpAt, Operations

\* The caller and the event threads share the label "recv" only.
LEMMA LabelsOfThreads == RequestLabels \cap WorkerLabels = {"recv"}
                         /\ RequestLabels \cap ApiLabels = RequestLabels \ {"recv"}
  BY DEF RequestLabels, InfoLabels, InfoExLabels, WorkerLabels, ApiLabels, DestructorLabels

-----------------------------------------------------------------------------
(* Types.                                                                  *)

\* The initial state has its types.
LEMMA TypeInit == Init => TypeOK
  <1> SUFFICES ASSUME Init PROVE TypeOK
    OBVIOUS
  <1>1. pc \in [Procs -> ApiLabels \cup WorkerLabels] /\ pc[API] \in ApiLabels
    BY ConstantsAssumption DEF Init, ApiLabels, WorkerLabels
  <1>2. \A w \in Workers : pc[w] \in WorkerLabels
    BY ConstantsAssumption DEF Init, WorkerLabels
  <1>3. cam \in [session : Nat \cup {NoSession}, tid : Nat, shutter : BOOLEAN]
    BY DEF Init, CamInit
  <1>4. sessionId \in 0..SessionModulus - 1 /\ transactionId \in 0..TidModulus - 1
    BY ConstantsAssumption DEF Init
  <1>5. wire \in Seq(Request) /\ events \in Seq(Events)
        /\ cachedDI \in {"none", "own", "other"}
        /\ link \in {"inStep", "closeUnsure", "outOfStep"}
    BY DEF Init
  <1>6. stop \in [Workers -> BOOLEAN] /\ mutex \in Procs \cup {NoThread}
    BY DEF Init
  <1> QED
    BY <1>1, <1>2, <1>3, <1>4, <1>5, <1>6 DEF Init, TypeOK, Events

CamType == [session : Nat \cup {NoSession}, tid : Nat, shutter : BOOLEAN]

\* The camera's answer keeps the camera's type.
LEMMA CamAnswersType ==
    ASSUME TypeOK, NEW req \in Request, NEW r, CamAnswers(req, r)
    PROVE  cam' \in CamType
  <1>1. CamExecute(req) \in CamType
    BY ConstantsAssumption DEF TypeOK, Request, CamExecute, CamType
  <1>2. \A c \in CamType : CamDisconnected(c) \in CamType
    BY DEF CamDisconnected, CamType
  <1>3. cam \in CamType
    BY DEF TypeOK, CamType
  <1>4. \/ cam' = cam \/ cam' = CamDisconnected(cam) \/ cam' = CamExecute(req)
        \/ cam' = CamDisconnected(CamExecute(req))
    BY DEF CamAnswers
  <1> HIDE DEF CamType
  <1> QED
    BY <1>1, <1>2, <1>3, <1>4

PcType ==
    /\ pc \in [Procs -> ApiLabels \cup WorkerLabels]
    /\ pc[API] \in ApiLabels
    /\ \A w \in Workers : pc[w] \in WorkerLabels

\* The caller goes to a label of its own.
LEMMA GotoApiType ==
    ASSUME TypeOK, NEW l \in ApiLabels, Goto(API, l)
    PROVE  PcType'
  BY ConstantsAssumption DEF TypeOK, PcType, Goto

\* An event thread goes to a label of its own.
LEMMA GotoWorkerType ==
    ASSUME TypeOK, NEW w \in Workers, NEW l \in WorkerLabels, Goto(w, l)
    PROVE  PcType'
  BY ConstantsAssumption DEF TypeOK, PcType, Goto

\* Where an exception takes the caller is a label of its own.
LEMMA ThrowType ==
    ASSUME TypeOK, NEW p \in Procs, Throw(p)
    PROVE  PcType' /\ threw' \in BOOLEAN /\ call' = call /\ detached' = detached
  <1>1. CASE p = API
    <2>1. \E l \in {"dtorTransport", "idle"} : Goto(API, l)
      BY <1>1 DEF Throw
    <2> QED
      BY <1>1, <2>1, GotoApiType DEF Throw, ApiLabels, DestructorLabels, TypeOK
  <1>2. CASE p \in Workers
    <2>1. Goto(p, "except")
      BY <1>2, ConstantsAssumption DEF Throw
    <2> QED
      BY <1>2, <2>1, GotoWorkerType DEF Throw, WorkerLabels, TypeOK
  <1> QED
    BY <1>1, <1>2

\* The labels the caller goes to.
LEMMA ApiTargets ==
    /\ {"open", "stop", "dtorStop", "capInfo", "setInfo", "idle", "number",
        "openTransport", "eosInfo", "invalidate", "openTxn", "remoteOn",
        "releaseOn", "release", "setTxn", "spawn", "pushConnect", "swap",
        "swapJoin", "close", "remoteOff", "join", "closeTxn", "closeTransport",
        "dtorTransport", "pushDisconnect", "dtorClose", "dtorJoin",
        "dtorCloseTxn", "gone"} \subseteq ApiLabels
    /\ AfterOpenSession \in ApiLabels /\ AfterStop \in ApiLabels
  BY DEF ApiLabels, RequestLabels, InfoLabels, InfoExLabels, DestructorLabels,
         AfterOpenSession, AfterStop

\* Pushing keeps the type of the queue, popping that of the queue and the view.
LEMMA PushType ==
    ASSUME events \in Seq(Events), NEW e \in Events, Push(e)
    PROVE  events' \in Seq(Events)
  BY DEF Push

\* A step that moves the caller and changes nothing else.
LEMMA JumpType ==
    ASSUME TypeOK, NEW l, NEW t \in ApiLabels, Jump(l, t)
    PROVE  TypeOK'
  <1>1. PcType'
    BY GotoApiType DEF Jump
  <1> QED
    BY <1>1 DEF Jump, TypeOK, PcType, vars

\* A step that moves an event thread and changes nothing else.
LEMMA WorkerJumpType ==
    ASSUME TypeOK, NEW w \in Workers, NEW l, NEW t \in WorkerLabels,
           WorkerJump(w, l, t)
    PROVE  TypeOK'
  <1>1. PcType'
    BY GotoWorkerType DEF WorkerJump
  <1> QED
    BY <1>1 DEF WorkerJump, TypeOK, PcType, vars

\* A step of an event thread that moves it and pushes an event.
LEMMA WorkerPushType ==
    ASSUME TypeOK, NEW w \in Workers, NEW l, NEW e \in Events,
           NEW t \in WorkerLabels, WorkerPush(w, l, e, t)
    PROVE  TypeOK'
  <1>1. PcType'
    BY GotoWorkerType DEF WorkerPush
  <1>2. events' \in Seq(Events)
    BY PushType DEF WorkerPush, TypeOK, Events
  <1> QED
    BY <1>1, <1>2 DEF WorkerPush, TypeOK, PcType, Events

\* The last step of a call: it pushes the event and returns.
LEMMA PushAndReturnType ==
    ASSUME TypeOK, NEW l, NEW e \in Events, PushAndReturn(l, e)
    PROVE  TypeOK'
  <1>1. PcType'
    BY GotoApiType, ApiTargets DEF PushAndReturn
  <1>2. events' \in Seq(Events)
    BY PushType DEF PushAndReturn, TypeOK, Events
  <1> QED
    BY <1>1, <1>2 DEF PushAndReturn, TypeOK, PcType, Events

\* The caller asks the event thread to stop.
LEMMA RequestStopType ==
    ASSUME TypeOK, NEW l, NEW t \in ApiLabels, RequestStop(l, t)
    PROVE  TypeOK'
  <1>1. PcType'
    BY GotoApiType DEF RequestStop
  <1>2. stop' \in [Workers -> BOOLEAN]
    BY DEF RequestStop, TypeOK
  <1>3. UNCHANGED <<eventThread, fresh, isOpen, sessionVars, cachedDI, txnVars,
                    cam, queueVars, callVars>>
    BY DEF RequestStop
  <1> QED
    BY <1>1, <1>2, <1>3 DEF TypeOK, PcType

\* The caller joins the event thread, or finds none to join.
LEMMA JoinType ==
    ASSUME TypeOK, NEW l, NEW t \in ApiLabels, Join(l, t)
    PROVE  TypeOK'
  <1>1. PcType'
    BY ConstantsAssumption DEF Join, TypeOK, PcType, WorkerLabels
  <1>2. eventThread' \in Workers \cup {NoThread} /\ fresh' = NoThread
    BY DEF Join, TypeOK
  <1>3. UNCHANGED <<stop, isOpen, sessionVars, cachedDI, txnVars, cam,
                    queueVars, callVars>>
    BY DEF Join
  <1> QED
    BY <1>1, <1>2, <1>3 DEF TypeOK, PcType

\* The caller leaves a call by an exception.
LEMMA ThrowStepType ==
    ASSUME TypeOK, NEW p \in Procs, Throw(p),
           UNCHANGED <<threadVars, sessionVars, cachedDI, mutex, wire,
                       transactionId, cam, queueVars>>,
           isOpen' \in BOOLEAN, link' \in {"inStep", link}
    PROVE  TypeOK'
  BY ThrowType DEF TypeOK, PcType

\* A request keeps the types, whether it is sent, waits or finds no transport.
LEMMA BeginType ==
    ASSUME TypeOK, NEW p \in Procs, Begin(p)
    PROVE  TypeOK' /\ RequestOf(p) \in Request
  <1>1. RequestOf(p) \in Request
    BY OpAtType, ConstantsAssumption DEF RequestOf, Request, TypeOK
  <1>2. wire' \in Seq(Request)
    BY <1>1 DEF Begin, TypeOK
  <1>3. transactionId' \in 0..TidModulus - 1
    BY ConstantsAssumption DEF Begin, TypeOK
  <1>4. TidToSend \in Nat
    BY ConstantsAssumption DEF TidToSend, TypeOK
  <1>5. cam' \in CamType
    BY <1>4 DEF Begin, TypeOK, CamType
  <1> QED
    BY <1>1, <1>2, <1>3, <1>5 DEF Begin, TypeOK, CamType

\* A thread that waits has the mutex, and its request is the last that was sent.
LEMMA Waiter ==
    ASSUME TypeOK, TxnInv, NEW p \in Procs, Waiting(p)
    PROVE  /\ mutex = p /\ mutex # NoThread /\ pc[p] \in RequestLabels
           /\ wire # <<>> /\ wire[Len(wire)].by = p
           /\ \A i \in 1..Len(wire) - 1 : wire[i].by = NoThread
           /\ pc[p] \in InfoLabels => cachedDI = "none"
  <1>1. p # NoThread
    BY ConstantsAssumption
  <1>2. PICK i \in DOMAIN wire : wire[i].by = p
    BY DEF Waiting
  <1>3. mutex # NoThread
    BY <1>1, <1>2 DEF TxnInv
  <1>4. i \in 1..Len(wire) /\ Len(wire) \in Nat
    BY <1>2 DEF TypeOK
  <1>5. i = Len(wire)
    BY <1>1, <1>2, <1>3, <1>4 DEF TxnInv
  <1> QED
    BY <1>2, <1>3, <1>5 DEF TxnInv

\* The requests stay requests when a thread gives one up.
LEMMA LeftType ==
    ASSUME TypeOK, NEW p
    PROVE  /\ Left(p) \in Seq(Request) /\ Len(Left(p)) = Len(wire)
           /\ \A i \in DOMAIN wire :
                Left(p)[i] = [wire[i] EXCEPT !.by = IF wire[i].by = p THEN NoThread ELSE wire[i].by]
  <1>1. wire \in Seq(Request) /\ DOMAIN wire = 1..Len(wire) /\ Len(wire) \in Nat
    BY DEF TypeOK
  <1>2. ASSUME NEW i \in DOMAIN wire
        PROVE  [wire[i] EXCEPT !.by = IF wire[i].by = p THEN NoThread ELSE wire[i].by] \in Request
    <2>1. wire[i] \in Request
      BY <1>1, <1>2
    <2> QED
      BY <2>1 DEF Request
  <1>3. Left(p) = [i \in 1..Len(wire) |->
                   [wire[i] EXCEPT !.by = IF wire[i].by = p THEN NoThread ELSE wire[i].by]]
    BY <1>1 DEF Left
  <1>4. \A i \in 1..Len(wire) : Left(p)[i] =
            [wire[i] EXCEPT !.by = IF wire[i].by = p THEN NoThread ELSE wire[i].by]
    BY <1>3
  <1>5. \A i \in 1..Len(wire) : Left(p)[i] \in Request
    BY <1>1, <1>2, <1>4
  <1>6. Left(p) \in Seq(Request) /\ Len(Left(p)) = Len(wire)
    BY <1>1, <1>3, <1>5, IsASeq
  <1> QED
    BY <1>1, <1>4, <1>6

\* Where a thread is after its transaction, and what it has of a DeviceInfo.
LEMMA FinishMoves ==
    ASSUME TypeOK, TxnInv, NEW p \in Procs, NEW r \in Outcomes, Finish(p, r)
    PROVE  /\ pc[p] \in RequestLabels
           /\ \/ /\ r = "ok" /\ UNCHANGED callVars
                 /\ \E di \in {"none", "own", "other"} : \E l \in NextAt(pc[p], di) :
                        /\ Goto(p, l)
                        /\ cachedDI' = IF l \in InfoExLabels THEN cachedDI ELSE di
                        /\ di = cachedDI \/ pc[p] \in InfoLabels \cup InfoExLabels
                        /\ di = "own" => di = cachedDI \/ Head(wire).by = p
                        /\ pc[p] \in InfoLabels \cup InfoExLabels =>
                              di = IF Head(wire).by = p THEN "own" ELSE "other"
              \/ r # "ok" /\ Throw(p) /\ UNCHANGED cachedDI
  <1> DEFINE di == IF pc[p] \in InfoLabels \cup InfoExLabels
                   THEN IF Head(wire).by = p THEN "own" ELSE "other"
                   ELSE cachedDI
  <1>1. pc[p] \in RequestLabels
    BY Waiter DEF Finish
  <1>2. di \in {"none", "own", "other"}
    BY DEF TypeOK
  <1>3. CASE r # "ok"
    BY <1>1, <1>3 DEF Finish
  <1>4. CASE r = "ok"
    <2>1. UNCHANGED callVars /\ \E l \in NextAt(pc[p], di) :
                /\ Goto(p, l)
                /\ cachedDI' = IF l \in InfoExLabels THEN cachedDI ELSE di
      BY Zenon, <1>4 DEF Finish
    <2>2. di = cachedDI \/ pc[p] \in InfoLabels \cup InfoExLabels
      OBVIOUS
    <2>3. di = "own" => di = cachedDI \/ Head(wire).by = p
      OBVIOUS
    <2>4. pc[p] \in InfoLabels \cup InfoExLabels =>
              di = IF Head(wire).by = p THEN "own" ELSE "other"
      OBVIOUS
    <2> HIDE DEF di
    <2> QED
      BY <1>1, <1>2, <1>4, <2>1, <2>2, <2>3, <2>4
  <1> QED
    BY <1>3, <1>4

\* What is left of the requests when a transaction has ended.
LEMMA FinishWire ==
    ASSUME TypeOK, TxnInv, NEW p \in Procs, NEW r \in Outcomes, Finish(p, r)
    PROVE  /\ wire' \in Seq(Request) /\ mutex' = NoThread
           /\ \A i \in DOMAIN wire' : wire'[i].by = NoThread
           /\ r # "unexpected" /\ Len(wire) = 1 => wire' = <<>>
           /\ r = "lost" => wire' = <<>>
  <1>1. wire # <<>> /\ wire \in Seq(Request) /\ Len(wire) \in Nat /\ DOMAIN wire = 1..Len(wire)
        /\ \A i \in DOMAIN wire : wire[i].by \in {p, NoThread} /\ wire[i] \in Request
    <2>1. wire # <<>> /\ wire[Len(wire)].by = p
          /\ \A i \in 1..Len(wire) - 1 : wire[i].by = NoThread
      BY Waiter DEF Finish
    <2>2. wire \in Seq(Request)
      BY DEF TypeOK
    <2>3. Len(wire) \in Nat /\ DOMAIN wire = 1..Len(wire)
          /\ \A i \in DOMAIN wire : wire[i] \in Request
      BY <2>2
    <2>4. \A i \in DOMAIN wire : i = Len(wire) \/ i \in 1..Len(wire) - 1
      BY <2>3
    <2> QED
      BY <2>1, <2>2, <2>3, <2>4
  <1>2. Left(p) \in Seq(Request) /\ Len(Left(p)) = Len(wire)
        /\ \A i \in 1..Len(wire) : Left(p)[i].by = NoThread
    <2>1. ASSUME NEW i \in 1..Len(wire) PROVE Left(p)[i].by = NoThread
      <3>1. Left(p)[i] = [wire[i] EXCEPT !.by = IF wire[i].by = p THEN NoThread ELSE wire[i].by]
        BY <1>1, <2>1, LeftType
      <3>2. wire[i] \in Request /\ wire[i].by \in {p, NoThread}
        BY <1>1, <2>1
      <3> QED
        BY <3>1, <3>2 DEF Request
    <2> QED
      BY <1>1, <2>1, LeftType
  <1>3. Left(p) # <<>>
    BY <1>1, <1>2, EmptySeq
  <1>4. Tail(Left(p)) \in Seq(Request) /\ Len(Tail(Left(p))) = Len(wire) - 1
        /\ \A i \in 1..Len(wire) - 1 : Tail(Left(p))[i] = Left(p)[i + 1]
    BY <1>1, <1>2, <1>3, HeadTailProperties
  <1>5. \A i \in 1..Len(wire) - 1 : Tail(Left(p))[i].by = NoThread
    BY <1>1, <1>2, <1>4
  <1>6. Len(wire) = 1 => Tail(Left(p)) = <<>>
    <2> SUFFICES ASSUME Len(wire) = 1 PROVE Tail(Left(p)) = <<>>
      OBVIOUS
    <2>1. Len(Tail(Left(p))) = 0
      BY <1>4
    <2> QED
      BY <1>4, <2>1, EmptySeq
  <1> HIDE DEF Left
  <1>7. mutex' = NoThread /\ wire' = CASE r = "lost" -> <<>>
                 [] r = "unexpected" -> Left(p)
                 [] OTHER -> Tail(Left(p))
    BY DEF Finish
  <1>8. CASE r = "lost"
    BY <1>7, <1>8
  <1>9. CASE r = "unexpected"
    BY <1>1, <1>2, <1>7, <1>9
  <1>10. CASE r \notin {"lost", "unexpected"}
    <2>1. wire' = Tail(Left(p))
      BY <1>7, <1>10
    <2> QED
      BY <1>1, <1>4, <1>5, <1>6, <1>7, <1>10, <2>1
  <1> QED
    BY <1>8, <1>9, <1>10

\* A transaction ends: who waits is at a label of its own requests.
LEMMA FinishType ==
    ASSUME TypeOK, TxnInv, NEW p \in Procs, NEW r \in Outcomes, Finish(p, r)
    PROVE  TypeOK'
  <1>1. wire # <<>> /\ Head(wire) \in Request
    BY Waiter DEF Finish, TypeOK
  <1>2. wire' \in Seq(Request) /\ mutex' = NoThread
    BY FinishWire
  <1>3. cam' \in CamType
    BY <1>1, CamAnswersType DEF Finish
  <1>4. pc[p] \in RequestLabels
    BY FinishMoves
  <1>5. /\ PcType' /\ threw' \in BOOLEAN /\ call' = call /\ detached' = detached
        /\ cachedDI' \in {"none", "own", "other"}
    <2>1. CASE r = "ok"
      <3>1. PICK di \in {"none", "own", "other"} : \E l \in NextAt(pc[p], di) :
                /\ Goto(p, l)
                /\ cachedDI' = IF l \in InfoExLabels THEN cachedDI ELSE di
        BY <2>1, FinishMoves
      <3>2. PICK l \in NextAt(pc[p], di) :
                /\ Goto(p, l)
                /\ cachedDI' = IF l \in InfoExLabels THEN cachedDI ELSE di
        BY <3>1
      <3>3. UNCHANGED callVars /\ cachedDI' \in {"none", "own", "other"}
        BY <2>1, <3>2, FinishMoves DEF TypeOK
      <3>4. CASE p = API
        <4>1. l \in ApiLabels
          BY <1>4, <3>4, NextAtLabel, LabelsOfThreads DEF TypeOK
        <4> QED
          BY <3>2, <3>3, <3>4, <4>1, GotoApiType DEF TypeOK
      <3>5. CASE p \in Workers
        <4>1. l \in WorkerLabels
          BY <1>4, <3>5, NextAtLabel, LabelsOfThreads DEF TypeOK, WorkerLabels
        <4> QED
          BY <3>2, <3>3, <3>5, <4>1, GotoWorkerType DEF TypeOK
      <3> QED
        BY <3>4, <3>5
    <2>2. CASE r # "ok"
      <3>1. Throw(p) /\ UNCHANGED cachedDI
        BY <2>2, FinishMoves
      <3> QED
        BY <3>1, ThrowType DEF TypeOK
    <2> QED
      BY <2>1, <2>2
  <1>6. link' \in {"inStep", "closeUnsure", "outOfStep"} /\ isOpen' \in BOOLEAN
        /\ UNCHANGED <<threadVars, sessionVars, transactionId, queueVars>>
    BY DEF Finish, TypeOK
  <1> QED
    BY <1>2, <1>3, <1>5, <1>6 DEF TypeOK, PcType, CamType

\* An event thread's transaction takes it on in its loop.
LEMMA FinishWorker ==
    ASSUME TypeOK, TxnInv, NEW w \in Workers, NEW r \in Outcomes, Finish(w, r)
    PROVE  /\ pc[w] = "recv" /\ UNCHANGED <<callVars, cachedDI>> /\ pc'[API] = pc[API]
           /\ \E l \in {"props", "sleep", "except"} : Goto(w, l)
  <1>1. pc[w] = "recv" /\ w # API
    BY FinishMoves, LabelsOfThreads, ConstantsAssumption DEF TypeOK
  <1>2. UNCHANGED <<callVars, cachedDI>> /\ \E l \in {"props", "sleep", "except"} : Goto(w, l)
    <2>1. CASE r = "ok"
      <3>1. PICK di \in {"none", "own", "other"} : \E l \in NextAt(pc[w], di) :
                /\ Goto(w, l)
                /\ cachedDI' = IF l \in InfoExLabels THEN cachedDI ELSE di
                /\ di = cachedDI \/ pc[w] \in InfoLabels \cup InfoExLabels
        BY <2>1, FinishMoves
      <3>2. PICK l \in NextAt(pc[w], di) :
                /\ Goto(w, l)
                /\ cachedDI' = IF l \in InfoExLabels THEN cachedDI ELSE di
                /\ di = cachedDI \/ pc[w] \in InfoLabels \cup InfoExLabels
        BY <3>1
      <3>3. l \in {"props", "sleep"}
        BY <1>1, <3>2, NextAtLabel DEF RequestLabels
      <3>4. cachedDI' = cachedDI
        BY <1>1, <3>2 DEF InfoLabels, InfoExLabels
      <3> QED
        BY <2>1, <3>2, <3>3, <3>4, FinishMoves
    <2>2. CASE r # "ok"
      <3>1. Throw(w) /\ UNCHANGED cachedDI
        BY <2>2, FinishMoves
      <3> QED
        BY <1>1, <3>1 DEF Throw, TypeOK
    <2> QED
      BY <2>1, <2>2
  <1> QED
    BY <1>1, <1>2 DEF Goto, TypeOK

\* The caller's transaction leads to a label of its own, or throws.
LEMMA FinishApi ==
    ASSUME TypeOK, TxnInv, NEW r \in Outcomes, Finish(API, r)
    PROVE  /\ pc[API] \in RequestLabels \ {"recv"}
           /\ \/ /\ r = "ok" /\ UNCHANGED callVars
                 /\ \E di \in {"none", "own", "other"} : \E l \in NextAt(pc[API], di) :
                        l \in ApiLabels /\ Goto(API, l)
              \/ r # "ok" /\ Throw(API) /\ UNCHANGED cachedDI
  <1>1. pc[API] \in RequestLabels \ {"recv"}
    BY FinishMoves, LabelsOfThreads DEF TypeOK
  <1>2. CASE r = "ok"
    <2>1. UNCHANGED callVars /\ \E di \in {"none", "own", "other"} :
              \E l \in NextAt(pc[API], di) : Goto(API, l)
      BY <1>2, FinishMoves
    <2>2. \A di : \A l \in NextAt(pc[API], di) : l \in ApiLabels
      BY <1>1, NextAtLabel
    <2> QED
      BY <1>1, <1>2, <2>1, <2>2
  <1>3. CASE r # "ok"
    BY <1>1, <1>3, FinishMoves
  <1> QED
    BY <1>2, <1>3

\* The camera replies ahead.
LEMMA AheadType ==
    ASSUME TypeOK, CamRunsAhead
    PROVE  TypeOK'
  <1>1. PICK i \in DOMAIN wire, r \in {"ok", "refused"} \cap Outcomes :
            /\ CamAnswers(wire[i], r)
            /\ wire' = [wire EXCEPT ![i] = [by |-> wire[i].by, op |-> "replied",
                                            session |-> NoSession, reply |-> r]]
    BY DEF CamRunsAhead
  <1>2. wire[i] \in Request /\ wire \in Seq(Request) /\ i \in 1..Len(wire)
    BY DEF TypeOK
  <1>3. [by |-> wire[i].by, op |-> "replied", session |-> NoSession, reply |-> r] \in Request
    BY <1>2 DEF Request
  <1>4. wire' \in Seq(Request)
    BY <1>1, <1>2, <1>3
  <1>5. cam' \in CamType
    BY <1>1, <1>2, CamAnswersType
  <1> QED
    BY <1>4, <1>5 DEF CamRunsAhead, TypeOK, CamType

\* Nothing but one request under way is left of a connection that has ended.
LEMMA DroppedType == ASSUME TypeOK PROVE Dropped \in Seq(Request)
  BY DEF Dropped, TypeOK

\* The camera that has lost its connection is still a camera.
LEMMA DisconnectedType == ASSUME TypeOK PROVE CamDisconnected(cam) \in CamType
  BY DEF CamDisconnected, CamType, TypeOK

\* Every step keeps the types; the end of a transaction needs TxnInv for it.
LEMMA TypeNext == TypeOK /\ TxnInv /\ [Next]_vars => TypeOK'
  <1> SUFFICES ASSUME TypeOK, TxnInv, [Next]_vars PROVE TypeOK'
    OBVIOUS
  <1> USE ApiTargets
  <1>1. ASSUME NEW c \in Calls, Call(c) PROVE TypeOK'
    <2>1. Entry(c) \in ApiLabels
      BY ConstantsAssumption DEF Entry
    <2>2. PcType'
      BY <1>1, <2>1, GotoApiType DEF Call
    <2>3. call' \in Calls \cup {"none"} /\ threw' \in BOOLEAN /\ detached' \in BOOLEAN
      BY <1>1 DEF Call, TypeOK
    <2>4. UNCHANGED <<threadVars, isOpen, sessionVars, cachedDI, txnVars, cam, queueVars>>
      BY <1>1 DEF Call
    <2> QED
      BY <2>2, <2>3, <2>4 DEF TypeOK, PcType
  <1>2. CASE ConnectStep
    <2>1. CASE Open
      BY <2>1, JumpType DEF Open
    <2>2. CASE OpenTransport
      BY <2>2, GotoApiType DEF OpenTransport, TypeOK, PcType
    <2>3. CASE OpenTransportFails
      BY <2>3, ThrowStepType DEF OpenTransportFails
    <2>4. CASE Number
      BY <2>4, GotoApiType, ConstantsAssumption DEF Number, TypeOK, PcType
    <2>5. CASE Opened
      BY <2>5, GotoApiType DEF Opened, TypeOK, PcType
    <2>6. CASE CheckModel
      <3>1. CASE Jump("eosInfo", "remoteOn")
        BY <3>1, JumpType
      <3>2. CASE Throw(API) /\ UNCHANGED <<threadVars, isOpen, sessionVars, cachedDI,
                                          txnVars, cam, queueVars>>
        BY <3>2, ThrowStepType DEF TypeOK
      <3> QED
        BY <2>6, <3>1, <3>2 DEF CheckModel
    <2>7. CASE Invalidate
      <3>1. PcType'
        BY <2>7, GotoApiType DEF Invalidate
      <3>2. cachedDI' = "none"
        BY <2>7 DEF Invalidate
      <3>3. UNCHANGED <<threadVars, isOpen, sessionVars, txnVars, cam, queueVars,
                        callVars>>
        BY <2>7 DEF Invalidate
      <3>4. cachedDI' \in {"none", "own", "other"}
        BY <3>2
      <3> QED
        BY <3>1, <3>3, <3>4 DEF TypeOK, PcType
    <2>8. CASE Swap
      BY <2>8, RequestStopType DEF Swap
    <2>9. CASE SwapJoin
      BY <2>9, JoinType DEF SwapJoin
    <2>10. CASE PushConnect
      BY <2>10, PushAndReturnType DEF PushConnect, Events
    <2>11. ASSUME NEW w \in Workers, Spawn(w) PROVE TypeOK'
      <3>1. \E t \in {"pushConnect", "swap"} :
                pc' = [pc EXCEPT ![w] = "loop", ![API] = t]
        BY <2>11 DEF Spawn
      <3>2. PcType'
        <4>1. PICK t \in {"pushConnect", "swap"} :
                  pc' = [pc EXCEPT ![w] = "loop", ![API] = t]
          BY <3>1
        <4>2. pc'[API] = t /\ \A v \in Workers : pc'[v] \in {"loop", pc[v]}
          BY <4>1, ConstantsAssumption DEF TypeOK
        <4>3. t \in ApiLabels /\ "loop" \in WorkerLabels
          BY <4>1 DEF WorkerLabels
        <4>4. pc' \in [Procs -> ApiLabels \cup WorkerLabels]
          BY <4>1, <4>3 DEF TypeOK
        <4> QED
          BY <4>2, <4>3, <4>4 DEF TypeOK, PcType
      <3> QED
        BY <2>11, <3>2, SMTT(60) DEF Spawn, TypeOK, PcType
    <2> QED
      BY <1>2, <2>1, <2>2, <2>3, <2>4, <2>5, <2>6, <2>7, <2>8, <2>9, <2>10, <2>11
      DEF ConnectStep
  <1>3. CASE DisconnectStep
    <2>1. CASE StopEventThread
      <3>1. CASE Jump("stop", AfterStop)
        BY <3>1, JumpType
      <3>2. CASE RequestStop("stop", "join")
        BY <3>2, RequestStopType
      <3> QED
        BY <2>1, <3>1, <3>2 DEF StopEventThread
    <2>2. CASE JoinEventThread
      BY <2>2, JoinType DEF JoinEventThread
    <2>3. CASE Close
      BY <2>3, JumpType DEF Close
    <2>4. CASE Closed
      <3>1. PcType'
        BY <2>4, GotoApiType DEF Closed
      <3>2. isSessionOpen' \in BOOLEAN
        BY <2>4 DEF Closed
      <3>3. UNCHANGED <<threadVars, isOpen, sessionId, cachedDI, txnVars, cam,
                        queueVars, callVars>>
        BY <2>4 DEF Closed
      <3> QED
        BY <3>1, <3>2, <3>3 DEF TypeOK, PcType
    <2>5. CASE CloseTransport
      <3>1. PcType' /\ wire' \in Seq(Request)
        BY <2>5, GotoApiType, DroppedType DEF CloseTransport
      <3>2. cam' \in CamType
        BY <2>5, DisconnectedType DEF CloseTransport
      <3>3. /\ isOpen' \in BOOLEAN /\ isSessionOpen' \in BOOLEAN
            /\ UNCHANGED <<threadVars, sessionId, cachedDI, mutex, transactionId,
                           link, queueVars, callVars>>
        BY <2>5 DEF CloseTransport, TypeOK
      <3> QED
        BY <3>1, <3>2, <3>3 DEF TypeOK, PcType, CamType
    <2>6. CASE PushDisconnect
      BY <2>6, PushAndReturnType DEF PushDisconnect, Events
    <2> QED
      BY <1>3, <2>1, <2>2, <2>3, <2>4, <2>5, <2>6 DEF DisconnectStep
  <1>4. CASE DestroyStep
    <2>1. CASE DtorStop
      <3>1. PcType'
        BY <2>1, GotoApiType DEF DtorStop
      <3>2. cachedDI' \in {"none", "own", "other"} /\ stop' \in [Workers -> BOOLEAN]
        BY <2>1 DEF DtorStop, TypeOK
      <3>3. UNCHANGED <<eventThread, fresh, isOpen, sessionVars, txnVars, cam,
                        queueVars, callVars>>
        BY <2>1 DEF DtorStop
      <3> QED
        BY <3>1, <3>2, <3>3 DEF TypeOK, PcType
    <2>2. CASE DtorJoin
      BY <2>2, JoinType DEF DtorJoin
    <2>3. CASE DtorClose
      BY <2>3, JumpType DEF DtorClose
    <2>4. CASE DtorTransport
      <3>1. PcType' /\ wire' \in Seq(Request)
        BY <2>4, GotoApiType, DroppedType DEF DtorTransport
      <3>2. cam' \in CamType
        BY <2>4, DisconnectedType DEF DtorTransport
      <3>3. /\ isOpen' \in BOOLEAN /\ isSessionOpen' \in BOOLEAN
            /\ UNCHANGED <<threadVars, sessionId, cachedDI, mutex, transactionId,
                           link, queueVars, callVars>>
        BY <2>4 DEF DtorTransport, TypeOK
      <3> QED
        BY <3>1, <3>2, <3>3 DEF TypeOK, PcType, CamType
    <2> QED
      BY <1>4, <2>1, <2>2, <2>3, <2>4 DEF DestroyStep
  <1>5. CASE ControlStep
    BY <1>5, JumpType, ThrowStepType
    DEF ControlStep, ChooseRelease, SendProp, RefuseProp, TypeOK
  <1>6. ASSUME NEW w \in Workers, WorkerStep(w) PROVE TypeOK'
    BY <1>6, WorkerJumpType, WorkerPushType
    DEF WorkerStep, Loop, Check, ReportLoss, Poll, PropChanged, NoMoreProps,
        HandleException, Wake, WorkerLabels, Events
  <1>7. ASSUME NEW p \in Procs, Transaction(p) PROVE TypeOK'
    BY <1>7, BeginType, FinishType, ThrowStepType
    DEF Transaction, NotConnected, TypeOK
  <1>8. CASE ConnectionDrops
    <2>1. wire' \in Seq(Request)
      BY <1>8, DroppedType DEF ConnectionDrops
    <2>2. cam' \in CamType
      BY <1>8, DisconnectedType DEF ConnectionDrops
    <2>3. /\ isOpen' \in BOOLEAN
          /\ UNCHANGED <<pc, threadVars, sessionVars, cachedDI, mutex,
                         transactionId, link, queueVars, callVars>>
      BY <1>8 DEF ConnectionDrops
    <2> QED
      BY <2>1, <2>2, <2>3 DEF TypeOK, CamType
  <1>9. CASE Pop
    BY <1>9 DEF Pop, TypeOK
  <1>10. CASE UNCHANGED vars
    BY <1>10 DEF vars, TypeOK
  <1>11. CASE CamRunsAhead
    BY <1>11, AheadType
  <1> QED
    BY <1>1, <1>2, <1>3, <1>4, <1>5, <1>6, <1>7, <1>8, <1>9, <1>10, <1>11
    DEF Next, CallStep

-----------------------------------------------------------------------------
(* The threads: ThreadInv.                                                 *)

\* An answer never carries a call from one phase into another.
LEMMA NextAtPhase ==
    ASSUME NEW k \in RequestLabels, k # "recv", NEW di, NEW l \in NextAt(k, di)
    PROVE  /\ l \in ConnectingLabels <=> k \in ConnectingLabels
           /\ l \in OpeningLabels <=> k = "openTxn"
           /\ l \in StoppedLabels <=> k \in StoppedLabels
           /\ l \in DestructorLabels <=> k \in DestructorLabels
           /\ l \notin {"swap", "swapJoin", "join", "dtorJoin", "stop", "open",
                       "openTransport", "closeTransport", "gone"}
  <1> USE DEF ConnectingLabels, OpeningLabels, StoppedLabels, DestructorLabels
  <1>1. CASE k \in InfoLabels
    BY <1>1, NextAtInfo DEF InfoLabels
  <1>2. CASE k \in InfoExLabels
    BY <1>2, NextAtInfoEx
  <1>3. CASE k \notin InfoLabels \cup InfoExLabels
    BY <1>3, NextAtOther
  <1> QED
    BY <1>1, <1>2, <1>3

\* A step of an event thread, to a label other than "none".
LEMMA WorkerMoveThreads ==
    ASSUME TypeOK, ThreadInv, NEW w \in Workers, pc[w] # "none",
           NEW l \in WorkerLabels \ {"none"}, Goto(w, l),
           UNCHANGED <<eventThread, fresh, isSessionOpen>>
    PROVE  ThreadInv'
  BY ConstantsAssumption DEF TypeOK, ThreadInv, Goto

\* A step of the caller that leaves the threads alone and keeps the phases.
LEMMA ApiMoveThreads ==
    ASSUME TypeOK, ThreadInv, NEW l \in ApiLabels, Goto(API, l),
           UNCHANGED <<eventThread, fresh>>,
           fresh = NoThread, l \notin {"swap", "swapJoin"},
           eventThread # NoThread => isSessionOpen',
           l \in {"join", "dtorJoin"} => eventThread # NoThread,
           l \in StoppedLabels => eventThread = NoThread,
           l \in ConnectingLabels => isSessionOpen',
           l \in OpeningLabels \cup {"closeTransport"} => ~isSessionOpen'
    PROVE  ThreadInv'
  BY ConstantsAssumption DEF TypeOK, ThreadInv, Goto

\* An exception takes the caller to no phase, or to the end of the destructor.
LEMMA ThrowThreads ==
    ASSUME TypeOK, ThreadInv, NEW p \in Procs, Throw(p), pc[p] # "none",
           UNCHANGED <<threadVars, isSessionOpen>>,
           p = API => /\ pc[API] \notin {"swap", "swapJoin"}
                      /\ VendorDestroyed => pc[API] \in StoppedLabels
    PROVE  ThreadInv'
  <1>1. CASE p \in Workers
    BY <1>1, WorkerMoveThreads, ConstantsAssumption DEF Throw, WorkerLabels
  <1>2. CASE p = API
    <2>1. CASE VendorDestroyed
      <3>1. Goto(API, "dtorTransport") /\ eventThread = NoThread
        BY <1>2, <2>1 DEF Throw, ThreadInv
      <3> QED
        BY <1>2, <3>1, ApiMoveThreads, ApiTargets
        DEF ThreadInv, ConnectingLabels, OpeningLabels
    <2>2. CASE ~VendorDestroyed
      <3>1. Goto(API, "idle")
        BY <1>2, <2>2 DEF Throw
      <3> QED
        BY <1>2, <3>1, ApiMoveThreads, ApiTargets
        DEF ThreadInv, ConnectingLabels, OpeningLabels, StoppedLabels
    <2> QED
      BY <2>1, <2>2
  <1> QED
    BY <1>1, <1>2

\* A step of the caller that keeps the phases keeps ThreadInv.
LEMMA JumpThreads ==
    ASSUME TypeOK, ThreadInv, NEW k, NEW l \in ApiLabels, Jump(k, l),
           k \notin {"swap", "swapJoin"},
           l \notin {"swap", "swapJoin", "join", "dtorJoin"},
           l \in StoppedLabels => eventThread = NoThread,
           l \in ConnectingLabels => isSessionOpen,
           l \in OpeningLabels \cup {"closeTransport"} => ~isSessionOpen
    PROVE  ThreadInv'
  <1>1. fresh = NoThread /\ Goto(API, l)
    BY DEF Jump, At, ThreadInv
  <1> QED
    BY <1>1, ApiMoveThreads DEF Jump, ThreadInv

\* Asking the event thread to stop keeps ThreadInv.
LEMMA StopThreads ==
    ASSUME TypeOK, ThreadInv, NEW k, NEW l \in {"swapJoin", "join"},
           RequestStop(k, l), (k = "swap") <=> (l = "swapJoin"), k # "swapJoin"
    PROVE  ThreadInv'
  BY ConstantsAssumption
  DEF RequestStop, TypeOK, ThreadInv, Goto, At, StoppedLabels,
      ConnectingLabels, OpeningLabels

\* Joining it does: the thread has left its loop by then.
LEMMA JoinThreads ==
    ASSUME TypeOK, ThreadInv, NEW k, NEW l \in {"pushConnect", "remoteOff",
               "close", "dtorClose"},
           Join(k, l), k \in {"swapJoin", "join", "dtorJoin"},
           (k = "swapJoin") <=> (l = "pushConnect")
    PROVE  ThreadInv'
  <1>1. eventThread \in Workers /\ pc[eventThread] = "done" /\ pc[API] = k
    BY DEF Join, At, ThreadInv, TypeOK
  <1>2. pc'[API] = l /\ pc'[eventThread] = "none"
        /\ \A w \in Workers \ {eventThread} : pc'[w] = pc[w]
    BY <1>1, ConstantsAssumption DEF Join, TypeOK
  <1>3. eventThread' = fresh /\ fresh' = NoThread /\ isSessionOpen' = isSessionOpen
    BY DEF Join
  <1>4. CASE k = "swapJoin"
    BY <1>1, <1>2, <1>3, <1>4
    DEF ThreadInv, TypeOK, ConnectingLabels, StoppedLabels, OpeningLabels
  <1>5. CASE k # "swapJoin"
    BY <1>1, <1>2, <1>3, <1>5
    DEF ThreadInv, TypeOK, ConnectingLabels, StoppedLabels, OpeningLabels
  <1> QED
    BY <1>4, <1>5

\* Every step keeps ThreadInv.
LEMMA ThreadNext == BaseInv /\ [Next]_vars => ThreadInv'
  <1> SUFFICES ASSUME TypeOK, ThreadInv, TxnInv, [Next]_vars PROVE ThreadInv'
    BY DEF BaseInv
  <1> USE ApiTargets, ApiMoveThreads, JumpThreads
      DEF ConnectingLabels, OpeningLabels, StoppedLabels
  <1>1. ASSUME NEW c \in Calls, Call(c) PROVE ThreadInv'
    <2>1. Entry(c) \in {"open", "stop", "dtorStop", "capInfo", "setInfo", "idle"}
      BY ConstantsAssumption DEF Entry
    <2> QED
      BY <1>1, <2>1 DEF Call, At, ThreadInv
  <1>2. CASE ConnectStep
    <2>1. CASE Open
      <3>1. CASE isSessionOpen
        BY <2>1, <3>1 DEF Open, AfterOpenSession
      <3>2. CASE ~isSessionOpen
        BY <2>1, <3>2 DEF Open
      <3> QED
        BY <3>1, <3>2
    <2>2. CASE OpenTransport
      BY <2>2 DEF OpenTransport, At, ThreadInv
    <2>3. CASE OpenTransportFails
      BY <2>3, ThrowThreads, ConstantsAssumption
      DEF OpenTransportFails, At, VendorDestroyed, DestructorLabels
    <2>4. CASE Number
      BY <2>4 DEF Number, At, ThreadInv
    <2>5. CASE Opened
      BY <2>5 DEF Opened, At, ThreadInv, AfterOpenSession
    <2>6. CASE CheckModel
      <3>1. CASE Jump("eosInfo", "remoteOn")
        BY <3>1 DEF Jump, At, ThreadInv
      <3>2. CASE At("eosInfo") /\ Throw(API) /\ UNCHANGED <<threadVars, isOpen,
                    sessionVars, cachedDI, txnVars, cam, queueVars>>
        BY <3>2, ThrowThreads DEF At, VendorDestroyed, DestructorLabels
      <3> QED
        BY <2>6, <3>1, <3>2 DEF CheckModel
    <2>7. CASE Invalidate
      BY <2>7 DEF Invalidate, At, ThreadInv
    <2>8. CASE Swap
      BY <2>8, StopThreads DEF Swap
    <2>9. CASE SwapJoin
      BY <2>9, JoinThreads DEF SwapJoin
    <2>10. CASE PushConnect
      BY <2>10 DEF PushConnect, PushAndReturn, At, ThreadInv
    <2>11. ASSUME NEW w \in Workers, Spawn(w) PROVE ThreadInv'
      <3>1. pc[API] = "spawn" /\ pc[w] = "none" /\ fresh = NoThread
            /\ isSessionOpen /\ isSessionOpen' = isSessionOpen
        BY <2>11 DEF Spawn, At, ThreadInv
      <3>2. CASE eventThread = NoThread
        <4>1. pc'[API] = "pushConnect" /\ pc'[w] = "loop"
              /\ \A v \in Workers \ {w} : pc'[v] = pc[v]
          BY <2>11, <3>2, ConstantsAssumption DEF Spawn, TypeOK
        <4>2. eventThread' = w /\ fresh' = NoThread
          BY <2>11, <3>1, <3>2 DEF Spawn
        <4> QED
          BY <3>1, <3>2, <4>1, <4>2, ConstantsAssumption DEF ThreadInv, TypeOK
      <3>3. CASE eventThread # NoThread
        <4>1. pc'[API] = "swap" /\ pc'[w] = "loop"
              /\ \A v \in Workers \ {w} : pc'[v] = pc[v]
          BY <2>11, <3>3, ConstantsAssumption DEF Spawn, TypeOK
        <4>2. eventThread' = eventThread /\ fresh' = w /\ w # eventThread
          BY <2>11, <3>1, <3>3 DEF Spawn, ThreadInv
        <4> QED
          BY <3>1, <3>3, <4>1, <4>2, ConstantsAssumption DEF ThreadInv, TypeOK
      <3> QED
        BY <3>2, <3>3
    <2> QED
      BY <1>2, <2>1, <2>2, <2>3, <2>4, <2>5, <2>6, <2>7, <2>8, <2>9, <2>10, <2>11
      DEF ConnectStep
  <1>3. CASE DisconnectStep
    <2>1. CASE StopEventThread
      <3>1. CASE eventThread = NoThread
        BY <2>1, <3>1 DEF StopEventThread, AfterStop
      <3>2. CASE eventThread # NoThread
        BY <2>1, <3>2, StopThreads DEF StopEventThread
      <3> QED
        BY <3>1, <3>2
    <2>2. CASE JoinEventThread
      BY <2>2, JoinThreads DEF JoinEventThread, AfterStop
    <2>3. CASE Close
      <3>1. eventThread = NoThread
        BY <2>3 DEF Close, Jump, At, ThreadInv
      <3> QED
        BY <2>3, <3>1 DEF Close
    <2>4. CASE Closed
      <3>1. eventThread = NoThread /\ fresh = NoThread
        BY <2>4 DEF Closed, At, ThreadInv
      <3> QED
        BY <2>4, <3>1 DEF Closed
    <2>5. CASE CloseTransport
      BY <2>5 DEF CloseTransport, At, ThreadInv
    <2>6. CASE PushDisconnect
      BY <2>6 DEF PushDisconnect, PushAndReturn, At, ThreadInv
    <2> QED
      BY <1>3, <2>1, <2>2, <2>3, <2>4, <2>5, <2>6 DEF DisconnectStep
  <1>4. CASE DestroyStep
    <2>1. CASE DtorStop
      BY <2>1 DEF DtorStop, At, ThreadInv
    <2>2. CASE DtorJoin
      BY <2>2, JoinThreads DEF DtorJoin
    <2>3. CASE DtorClose
      <3>1. eventThread = NoThread
        BY <2>3 DEF DtorClose, Jump, At, ThreadInv
      <3> QED
        BY <2>3, <3>1 DEF DtorClose
    <2>4. CASE DtorTransport
      BY <2>4 DEF DtorTransport, At, ThreadInv
    <2> QED
      BY <1>4, <2>1, <2>2, <2>3, <2>4 DEF DestroyStep
  <1>5. CASE ControlStep
    <2>1. CASE ChooseRelease
      BY <2>1 DEF ChooseRelease
    <2>2. CASE SendProp
      BY <2>2 DEF SendProp
    <2>3. CASE RefuseProp
      BY <2>3, ThrowThreads DEF RefuseProp, At, VendorDestroyed, DestructorLabels
    <2> QED
      BY <1>5, <2>1, <2>2, <2>3 DEF ControlStep
  <1>6. ASSUME NEW w \in Workers, WorkerStep(w) PROVE ThreadInv'
    <2>1. \E l \in WorkerLabels \ {"none"} : Goto(w, l)
      BY <1>6 DEF WorkerStep, Loop, Check, ReportLoss, Poll, PropChanged,
                  NoMoreProps, HandleException, Wake, WorkerJump, WorkerPush,
                  WorkerLabels
    <2>2. pc[w] # "none" /\ UNCHANGED <<eventThread, fresh, isSessionOpen>>
      BY <1>6 DEF WorkerStep, Loop, Check, ReportLoss, Poll, PropChanged,
                  NoMoreProps, HandleException, Wake, WorkerJump, WorkerPush
    <2> QED
      BY <2>1, <2>2, WorkerMoveThreads
  <1>7. ASSUME NEW p \in Procs, Transaction(p) PROVE ThreadInv'
    <2>1. CASE Begin(p)
      BY <2>1 DEF Begin, ThreadInv
    <2>2. CASE NotConnected(p)
      <3>1. pc[p] \in RequestLabels
        BY <2>2 DEF NotConnected, Requesting
      <3>2. VendorDestroyed /\ p = API => pc[API] \in StoppedLabels
        BY <3>1 DEF VendorDestroyed, DestructorLabels, RequestLabels,
                    InfoLabels, InfoExLabels
      <3>3. pc[p] \notin {"none", "swap", "swapJoin"}
        BY <3>1 DEF RequestLabels, InfoLabels, InfoExLabels
      <3> QED
        BY <2>2, <3>2, <3>3, ThrowThreads DEF NotConnected
    <2>3. ASSUME NEW r \in Outcomes, Finish(p, r) PROVE ThreadInv'
      <3>1. pc[p] \in RequestLabels
        BY <2>3, FinishMoves
      <3>2. VendorDestroyed /\ p = API => pc[API] \in StoppedLabels
        BY <3>1 DEF VendorDestroyed, DestructorLabels, RequestLabels,
                    InfoLabels, InfoExLabels
      <3>3. pc[p] \notin {"none", "swap", "swapJoin"}
        BY <3>1 DEF RequestLabels, InfoLabels, InfoExLabels
      <3>0. UNCHANGED <<eventThread, fresh, stop, isSessionOpen>>
        BY <2>3 DEF Finish
      <3>4. CASE r # "ok"
        <4>1. Throw(p)
          BY <2>3, <3>4, FinishMoves
        <4> QED
          BY <3>0, <3>2, <3>3, <4>1, ThrowThreads
      <3>5. CASE r = "ok"
        <4>0. PICK di \in {"none", "own", "other"} : \E l \in NextAt(pc[p], di) : Goto(p, l)
          BY <2>3, <3>5, FinishMoves
        <4>1. PICK l \in NextAt(pc[p], di) : Goto(p, l)
          BY <4>0
        <4>2. CASE p = API
          <5>1. pc[p] # "recv"
            BY <3>1, <4>2, LabelsOfThreads DEF TypeOK
          <5>2. l \in ApiLabels
            BY <3>1, <5>1, NextAtLabel
          <5>3. /\ l \in ConnectingLabels <=> pc[p] \in ConnectingLabels
                /\ l \in OpeningLabels <=> pc[p] = "openTxn"
                /\ l \in StoppedLabels <=> pc[p] \in StoppedLabels
                /\ l \notin {"swap", "swapJoin", "join", "dtorJoin", "stop", "open",
                            "openTransport", "closeTransport", "gone"}
            BY <3>1, <5>1, NextAtPhase
          <5>4. pc[p] = "openTxn" => pc[p] \in OpeningLabels
            BY DEF OpeningLabels
          <5> HIDE DEF ConnectingLabels, OpeningLabels, StoppedLabels
          <5> QED
            BY <3>0, <3>3, <4>1, <4>2, <5>2, <5>3, <5>4 DEF ThreadInv
        <4>3. CASE p \in Workers
          <5>1. l \in {"props", "sleep"}
            BY <3>1, <4>3, NextAtLabel, LabelsOfThreads DEF TypeOK
          <5> QED
            BY <3>0, <3>3, <4>1, <4>3, <5>1, WorkerMoveThreads DEF WorkerLabels
        <4> QED
          BY <4>2, <4>3
      <3> QED
        BY <3>4, <3>5
    <2> QED
      BY <1>7, <2>1, <2>2, <2>3 DEF Transaction
  <1>8. CASE ConnectionDrops
    BY <1>8 DEF ConnectionDrops, ThreadInv
  <1>9. CASE Pop
    BY <1>9 DEF Pop, ThreadInv
  <1>10. CASE UNCHANGED vars
    BY <1>10 DEF vars, ThreadInv
  <1>11. CASE CamRunsAhead
    BY <1>11 DEF CamRunsAhead, ThreadInv
  <1> QED
    BY <1>1, <1>2, <1>3, <1>4, <1>5, <1>6, <1>7, <1>8, <1>9, <1>10, <1>11
    DEF Next, CallStep

-----------------------------------------------------------------------------
(* The transactions: TxnInv.                                               *)

\* A step that leaves the transaction under way and its thread alone.
LEMMA AsideTxn ==
    ASSUME TypeOK, TxnInv, UNCHANGED mutex, cachedDI = "none" => cachedDI' = "none",
           mutex # NoThread => pc'[mutex] = pc[mutex],
           \/ UNCHANGED <<wire, link, isOpen>>
           \/ wire' = Dropped /\ UNCHANGED link /\ isOpen' = FALSE
           \/ mutex = NoThread /\ ~isOpen /\ UNCHANGED wire,
           pc'[API] = "openTransport" => ~isOpen'
    PROVE  TxnInv'
  <1>1. CASE UNCHANGED <<wire, link, isOpen>>
    BY <1>1 DEF TxnInv, At
  <1>2. CASE wire' = Dropped /\ UNCHANGED link /\ isOpen' = FALSE
    <2>1. CASE mutex = NoThread
      <3>1. wire' = <<>>
        BY <1>2, <2>1 DEF Dropped
      <3> QED
        BY <1>2, <2>1, <3>1 DEF TxnInv, At
    <2>2. CASE mutex # NoThread
      <3>1. wire' = wire
        BY <1>2, <2>2 DEF Dropped
      <3> QED
        BY <1>2, <2>2, <3>1 DEF TxnInv, At
    <2> QED
      BY <2>1, <2>2
  <1>3. CASE mutex = NoThread /\ ~isOpen /\ UNCHANGED wire
    <2>1. wire' = <<>>
      BY <1>3 DEF TxnInv
    <2> QED
      BY <1>3, <2>1 DEF TxnInv, At
  <1> QED
    BY <1>1, <1>2, <1>3

\* A caller that is not at a request holds no mutex; neither does one that has
\* the DeviceInfo.
LEMMA ApiAside ==
    ASSUME TypeOK, TxnInv,
           \/ pc[API] \notin RequestLabels
           \/ pc[API] \in InfoLabels /\ (cachedDI # "none" \/ ~Waiting(API)),
           \A w \in Workers : pc'[w] = pc[w]
    PROVE  mutex # NoThread => mutex # API /\ pc'[mutex] = pc[mutex]
  <1>1. mutex # API
    <2>1. mutex = API => pc[API] \in RequestLabels
      BY ConstantsAssumption DEF TxnInv
    <2>2. mutex = API => Len(wire) \in DOMAIN wire /\ wire[Len(wire)].by = API
      <3>1. wire \in Seq(Request) /\ DOMAIN wire = 1..Len(wire) /\ Len(wire) \in Nat
        BY DEF TypeOK
      <3>2. wire # <<>> => Len(wire) # 0
        BY <3>1, EmptySeq
      <3> QED
        BY <3>1, <3>2, ConstantsAssumption DEF TxnInv
    <2>3. mutex = API /\ pc[API] \in InfoLabels => cachedDI = "none"
      BY ConstantsAssumption DEF TxnInv
    <2> QED
      BY <2>1, <2>2, <2>3 DEF Waiting
  <1> QED
    BY <1>1 DEF TypeOK

\* Moving the caller moves no event thread.
LEMMA GotoOthers ==
    ASSUME TypeOK, NEW p \in Procs, NEW l, Goto(p, l)
    PROVE  \A q \in Procs \ {p} : pc'[q] = pc[q]
  BY DEF TypeOK, Goto

\* A step outside transaction() leaves the transaction under way, and the thread
\* that runs it, alone.
LEMMA AsideStep ==
    ASSUME TypeOK, ThreadInv, TxnInv,
           \/ \E c \in Calls : Call(c)
           \/ CallStep
           \/ \E w \in Workers : WorkerStep(w)
    PROVE  /\ UNCHANGED mutex
           /\ \/ UNCHANGED <<wire, link, isOpen>>
              \/ wire' = Dropped /\ UNCHANGED link /\ isOpen' = FALSE
              \/ mutex = NoThread /\ ~isOpen /\ UNCHANGED wire
           /\ cachedDI = "none" => cachedDI' = "none"
           /\ mutex # NoThread => pc'[mutex] = pc[mutex]
           /\ pc'[API] = "openTransport" => ~isOpen'
  <1> DEFINE Wire == \/ UNCHANGED <<wire, link, isOpen>>
                     \/ wire' = Dropped /\ UNCHANGED link /\ isOpen' = FALSE
                     \/ mutex = NoThread /\ ~isOpen /\ UNCHANGED wire
             Stays == /\ UNCHANGED mutex
                      /\ Wire
                      /\ cachedDI = "none" => cachedDI' = "none"
                      /\ mutex # NoThread => pc'[mutex] = pc[mutex]
                      /\ pc'[API] = "openTransport" => ~isOpen'
  <1> SUFFICES Stays
    OBVIOUS
  <1> USE ConstantsAssumption
  <1>1. ASSUME NEW c \in Calls, Call(c) PROVE Stays
    <2>1. pc[API] \notin RequestLabels
      BY <1>1 DEF Call, At, RequestLabels, InfoLabels, InfoExLabels
    <2>2. \A w \in Workers : pc'[w] = pc[w]
      BY <1>1, GotoOthers DEF Call
    <2>3. pc'[API] # "openTransport"
      BY <1>1 DEF Call, Goto, Entry, TypeOK
    <2> QED
      BY <1>1, <2>1, <2>2, <2>3, ApiAside DEF Call
  <1>2. CASE ConnectStep \/ DisconnectStep \/ DestroyStep \/ ControlStep
    <2>1. /\ UNCHANGED mutex
          /\ \/ UNCHANGED <<wire, link, isOpen>>
             \/ wire' = Dropped /\ UNCHANGED link /\ isOpen' = FALSE
             \/ At("openTransport") /\ UNCHANGED wire
      BY <1>2
      DEF ConnectStep, DisconnectStep, DestroyStep, ControlStep, Open,
          OpenTransport, OpenTransportFails, Number, Opened, CheckModel,
          Invalidate, Swap, SwapJoin, PushConnect, Spawn, StopEventThread,
          JoinEventThread, Close, Closed, CloseTransport, PushDisconnect,
          DtorStop, DtorJoin, DtorClose, DtorTransport, ChooseRelease,
          SendProp, RefuseProp, Jump, RequestStop, Join, PushAndReturn
    <2>0. At("openTransport") => mutex = NoThread /\ ~isOpen
      <3> SUFFICES ASSUME pc[API] = "openTransport" PROVE mutex = NoThread /\ ~isOpen
        BY DEF At
      <3>1. eventThread = NoThread /\ fresh = NoThread
        BY DEF ThreadInv, OpeningLabels
      <3>2. \A w \in Workers : pc[w] = "none"
        BY <3>1 DEF ThreadInv
      <3>3. \A p \in Procs : pc[p] \notin RequestLabels
        BY <3>2 DEF RequestLabels, InfoLabels, InfoExLabels
      <3> QED
        BY <3>3 DEF TxnInv, TypeOK, At
    <2>7. Wire
      BY <2>0, <2>1
    <2> HIDE DEF Wire
    <2>2. cachedDI = "none" => cachedDI' = "none"
      BY <1>2
      DEF ConnectStep, DisconnectStep, DestroyStep, ControlStep, Open,
          OpenTransport, OpenTransportFails, Number, Opened, CheckModel,
          Invalidate, Swap, SwapJoin, PushConnect, Spawn, StopEventThread,
          JoinEventThread, Close, Closed, CloseTransport, PushDisconnect,
          DtorStop, DtorJoin, DtorClose, DtorTransport, ChooseRelease,
          SendProp, RefuseProp, Jump, RequestStop, Join, PushAndReturn
    <2>3. \/ pc[API] \notin RequestLabels
          \/ pc[API] \in InfoLabels /\ (cachedDI # "none" \/ ~Waiting(API))
      BY <1>2
      DEF ConnectStep, DisconnectStep, DestroyStep, ControlStep, Open,
          OpenTransport, OpenTransportFails, Number, Opened, CheckModel,
          Invalidate, Swap, SwapJoin, PushConnect, Spawn, StopEventThread,
          JoinEventThread, Close, Closed, CloseTransport, PushDisconnect,
          DtorStop, DtorJoin, DtorClose, DtorTransport, ChooseRelease,
          SendProp, RefuseProp, Jump, RequestStop, Join, PushAndReturn, At,
          RequestLabels, InfoLabels, InfoExLabels
    <2>4. CASE \E w \in Workers : Spawn(w)
      <3>1. PICK w \in Workers : Spawn(w)
        BY <2>4
      <3>2. pc[w] = "none" /\ pc[API] = "spawn"
            /\ \A q \in Procs \ {w, API} : pc'[q] = pc[q]
        BY <3>1 DEF Spawn, At, TypeOK
      <3>3. mutex # NoThread => mutex \notin {w, API}
        BY <3>2 DEF TxnInv, RequestLabels, InfoLabels, InfoExLabels
      <3>4. pc'[API] # "openTransport"
        BY <3>1 DEF Spawn, TypeOK
      <3> QED
        BY <2>1, <2>2, <2>7, <3>2, <3>3, <3>4 DEF TypeOK
    <2>5. CASE SwapJoin \/ JoinEventThread \/ DtorJoin
      <3>1. PICK k \in {"swapJoin", "join", "dtorJoin"},
                 l \in {"pushConnect", "dtorClose", "remoteOff", "close"} : Join(k, l)
        BY <2>5 DEF SwapJoin, JoinEventThread, DtorJoin, AfterStop
      <3>2. pc[eventThread] = "done" /\ pc[API] = k /\ pc'[API] = l
            /\ \A q \in Procs \ {eventThread, API} : pc'[q] = pc[q]
        BY <3>1 DEF Join, At, TypeOK
      <3>3. mutex # NoThread => mutex \notin {eventThread, API}
        BY <3>1, <3>2 DEF TxnInv, RequestLabels, InfoLabels, InfoExLabels
      <3> QED
        BY <2>1, <2>2, <2>7, <3>1, <3>2, <3>3 DEF TypeOK
    <2>6. CASE ~(\E w \in Workers : Spawn(w))
               /\ ~(SwapJoin \/ JoinEventThread \/ DtorJoin)
      <3>1. \E l : Goto(API, l) /\ (l = "openTransport" => ~isOpen /\ UNCHANGED isOpen)
        BY <1>2, <2>6
        DEF ConnectStep, DisconnectStep, DestroyStep, ControlStep, Open,
            OpenTransport, OpenTransportFails, Number, Opened, CheckModel,
            Invalidate, Swap, PushConnect, StopEventThread, Close, Closed,
            CloseTransport, PushDisconnect, DtorStop, DtorClose,
            DtorTransport, ChooseRelease, SendProp, RefuseProp, Jump,
            RequestStop, PushAndReturn, Throw, AfterOpenSession, AfterStop
      <3>2. \A w \in Workers : pc'[w] = pc[w]
        BY <3>1, GotoOthers
      <3>3. pc'[API] = "openTransport" => ~isOpen'
        BY <3>1 DEF Goto, TypeOK
      <3> QED
        BY <2>1, <2>2, <2>3, <2>7, <3>2, <3>3, ApiAside
    <2> QED
      BY <2>4, <2>5, <2>6
  <1>6. ASSUME NEW w \in Workers, WorkerStep(w) PROVE Stays
    <2>1. pc[w] \notin RequestLabels /\ UNCHANGED <<mutex, wire, link, isOpen, cachedDI>>
          /\ \E l : Goto(w, l)
      BY <1>6 DEF WorkerStep, Loop, Check, ReportLoss, Poll, PropChanged,
                  NoMoreProps, HandleException, Wake, WorkerJump, WorkerPush,
                  RequestLabels, InfoLabels, InfoExLabels
    <2>2. mutex # NoThread => mutex # w
      BY <2>1 DEF TxnInv
    <2>3. PICK l : Goto(w, l)
      BY <2>1
    <2>4. \A q \in Procs \ {w} : pc'[q] = pc[q]
      BY <2>3, GotoOthers
    <2>5. pc'[API] = pc[API] /\ (mutex # NoThread => pc'[mutex] = pc[mutex])
      BY <2>2, <2>4 DEF TypeOK
    <2> QED
      BY <2>1, <2>5 DEF TxnInv, At
  <1> QED
    BY <1>1, <1>2, <1>6 DEF CallStep

\* A request is sent behind the replies that are still unread.
LEMMA BeginTxn ==
    ASSUME TypeOK, TxnInv, NEW p \in Procs, Begin(p)
    PROVE  TxnInv'
  <1>1. /\ mutex = NoThread /\ mutex' = p /\ p # NoThread /\ isOpen
        /\ wire' = Append(wire, RequestOf(p)) /\ UNCHANGED <<pc, link, isOpen, cachedDI>>
        /\ pc[p] \in RequestLabels /\ (pc[p] \in InfoLabels => cachedDI = "none")
    BY ConstantsAssumption DEF Begin, Requesting
  <1>2. wire \in Seq(Request) /\ RequestOf(p) \in Request
    BY BeginType DEF TypeOK
  <1>3. /\ Len(wire) \in Nat /\ Len(wire') = Len(wire) + 1 /\ wire' # <<>>
        /\ wire'[Len(wire')] = RequestOf(p)
        /\ \A i \in 1..Len(wire) : wire'[i] = wire[i]
        /\ DOMAIN wire' = 1..Len(wire) + 1 /\ DOMAIN wire = 1..Len(wire)
    BY <1>1, <1>2
  <1>4. RequestOf(p).by = p /\ RequestOf(p).reply = "none"
    BY DEF RequestOf
  <1>5. \A i \in 1..Len(wire') - 1 : wire'[i].by = NoThread
    BY <1>1, <1>3 DEF TxnInv
  <1>6. link # "outOfStep" => \A i \in DOMAIN wire' :
                                  wire'[i].by # NoThread /\ wire'[i].reply = "none"
    <2> SUFFICES ASSUME link # "outOfStep", NEW i \in DOMAIN wire'
                 PROVE  wire'[i].by # NoThread /\ wire'[i].reply = "none"
      OBVIOUS
    <2>1. CASE i = Len(wire) + 1
      BY <1>1, <1>3, <1>4, <2>1
    <2>2. CASE i \in 1..Len(wire)
      BY <1>3, <2>2 DEF TxnInv
    <2> QED
      BY <1>3, <2>1, <2>2
  <1>7. At("openTransport")' => ~isOpen'
    BY <1>1 DEF TxnInv, At
  <1> QED
    BY <1>1, <1>3, <1>4, <1>5, <1>6, <1>7 DEF TxnInv

\* The end of a transaction leaves a reply only on a connection out of step, and
\* none on a closed one.
LEMMA FinishTxn ==
    ASSUME TypeOK, TxnInv, NEW p \in Procs, NEW r \in Outcomes, Finish(p, r)
    PROVE  TxnInv'
  <1>1. /\ mutex' = NoThread /\ \A i \in DOMAIN wire' : wire'[i].by = NoThread
        /\ r # "unexpected" /\ Len(wire) = 1 => wire' = <<>>
        /\ r = "lost" => wire' = <<>>
    BY FinishWire
  <1>2. ASSUME link' # "outOfStep" PROVE wire' = <<>>
    <2>1. link # "outOfStep" /\ r # "unexpected"
      BY <1>2 DEF Finish
    <2>2. wire # <<>> /\ Len(wire) \in Nat /\ DOMAIN wire = 1..Len(wire) /\ Len(wire) # 0
      BY Waiter, EmptySeq DEF Finish, TypeOK
    <2>3. Len(wire) > 1 => wire[1].by = NoThread /\ 1 \in DOMAIN wire
      BY <2>2, Waiter DEF Finish
    <2>4. Len(wire) = 1
      BY <2>1, <2>2, <2>3 DEF TxnInv
    <2> QED
      BY <1>1, <2>1, <2>4
  <1>3. ~isOpen' => wire' = <<>>
    BY <1>1 DEF Finish
  <1>4. At("openTransport")' => ~isOpen'
    <2>1. pc[p] \in RequestLabels /\ (isOpen' => isOpen)
      BY FinishMoves DEF Finish
    <2>2. CASE p \in Workers
      <3>1. \E l : Goto(p, l)
        BY FinishMoves DEF Throw
      <3>2. pc'[API] = pc[API]
        BY <2>2, <3>1, GotoOthers, ConstantsAssumption
      <3> QED
        BY <2>1, <3>2 DEF TxnInv, At
    <2>3. CASE p = API
      <3>1. CASE r = "ok"
        <4>0. PICK di \in {"none", "own", "other"} : \E l \in NextAt(pc[p], di) : Goto(p, l)
          BY <3>1, FinishMoves
        <4>1. PICK l \in NextAt(pc[p], di) : Goto(p, l)
          BY <4>0
        <4>2. l # "openTransport"
          BY <2>1, <2>3, <4>1, NextAtPhase, LabelsOfThreads DEF TypeOK
        <4> QED
          BY <2>3, <4>1, <4>2 DEF Goto, At, TypeOK
      <3>2. CASE r # "ok"
        <4>1. Throw(p)
          BY <3>2, FinishMoves
        <4> QED
          BY <2>3, <4>1 DEF Throw, Goto, At, TypeOK
      <3> QED
        BY <3>1, <3>2
    <2> QED
      BY <2>2, <2>3
  <1> QED
    BY <1>1, <1>2, <1>3, <1>4 DEF TxnInv

\* The camera replies ahead on a connection out of step only, and whose a request
\* is does not change.
LEMMA AheadTxn ==
    ASSUME TypeOK, TxnInv, CamRunsAhead
    PROVE  TxnInv'
  <1>1. PICK i \in DOMAIN wire, r \in {"ok", "refused"} \cap Outcomes :
            /\ wire' = [wire EXCEPT ![i] = [by |-> wire[i].by, op |-> "replied",
                                            session |-> NoSession, reply |-> r]]
    BY DEF CamRunsAhead
  <1>2. /\ isOpen /\ wire # <<>> /\ Head(wire).by = NoThread
        /\ UNCHANGED <<mutex, link, pc, cachedDI, isOpen>>
    BY DEF CamRunsAhead
  <1>3. wire \in Seq(Request) /\ DOMAIN wire = 1..Len(wire) /\ Len(wire) \in Nat
        /\ Len(wire) # 0
    BY <1>2, EmptySeq DEF TypeOK
  <1>4. DOMAIN wire' = DOMAIN wire /\ Len(wire') = Len(wire)
        /\ \A j \in DOMAIN wire : wire'[j].by = wire[j].by
    BY <1>1, <1>3
  <1>5. link = "outOfStep"
    BY <1>2, <1>3 DEF TxnInv
  <1>6. wire' # <<>>
    BY <1>3, <1>4
  <1>7. mutex # NoThread =>
            /\ wire'[Len(wire')].by = mutex
            /\ \A j \in 1..Len(wire') - 1 : wire'[j].by = NoThread
    BY <1>3, <1>4 DEF TxnInv
  <1>8. mutex = NoThread => \A j \in DOMAIN wire' : wire'[j].by = NoThread
    BY <1>4 DEF TxnInv
  <1> QED
    BY <1>2, <1>5, <1>6, <1>7, <1>8 DEF TxnInv, At

\* Every step keeps TxnInv.
LEMMA TxnNext == BaseInv /\ [Next]_vars => TxnInv'
  <1> SUFFICES ASSUME TypeOK, ThreadInv, TxnInv, [Next]_vars PROVE TxnInv'
    BY DEF BaseInv
  <1> USE ConstantsAssumption
  <1>1. CASE \/ \E c \in Calls : Call(c)
             \/ CallStep
             \/ \E w \in Workers : WorkerStep(w)
    BY <1>1, AsideStep, AsideTxn
  <1>7. ASSUME NEW p \in Procs, Transaction(p) PROVE TxnInv'
    <2>1. CASE Begin(p)
      BY <2>1, BeginTxn
    <2>2. CASE NotConnected(p)
      <3>1. mutex = NoThread /\ UNCHANGED <<txnVars, isOpen>> /\ Throw(p)
        BY <2>2 DEF NotConnected
      <3>2. pc'[API] = "openTransport" => pc[API] = "openTransport"
        BY <3>1 DEF Throw, Goto, TypeOK
      <3> QED
        BY <3>1, <3>2 DEF TxnInv, At
    <2>3. ASSUME NEW r \in Outcomes, Finish(p, r) PROVE TxnInv'
      BY <2>3, FinishTxn
    <2> QED
      BY <1>7, <2>1, <2>2, <2>3 DEF Transaction
  <1>8. CASE ConnectionDrops
    BY <1>8, AsideTxn DEF ConnectionDrops
  <1>9. CASE Pop \/ UNCHANGED vars
    BY <1>9 DEF Pop, vars, TxnInv, At
  <1>10. CASE CamRunsAhead
    BY <1>10, AheadTxn
  <1> QED
    BY <1>1, <1>7, <1>8, <1>9, <1>10 DEF Next

-----------------------------------------------------------------------------
(* Disconnection and destruction: DetachInv.                               *)

\* A step of the caller other than the start of a call.
LEMMA ApiMoveDetach ==
    ASSUME TypeOK, ThreadInv, DetachInv,
           \A w \in Workers : pc'[w] = "pureVirtual" => pc[w] = "pureVirtual",
           UNCHANGED detached,
           pc'[API] \in ConnectingLabels \cup OpeningLabels \cup {"open"}
              => pc[API] \in ConnectingLabels \cup OpeningLabels \cup {"open"},
           \/ eventThread' = NoThread
           \/ eventThread' = eventThread
              /\ (pc[API] \in {"stop", "join"} => pc'[API] \in {"stop", "join"})
           \/ pc[API] \in ConnectingLabels,
           pc[API] \in DestructorLabels => pc'[API] \in DestructorLabels,
           pc'[API] = "gone" => ~isOpen'
    PROVE  DetachInv'
  BY DEF DetachInv, VendorDestroyed, At

\* A step of an event thread that does not make the virtual call.
LEMMA WorkerMoveDetach ==
    ASSUME TypeOK, DetachInv, NEW w \in Workers, NEW l, Goto(w, l),
           l = "pureVirtual" => VendorDestroyed,
           UNCHANGED <<eventThread, detached>>, isOpen' => isOpen
    PROVE  DetachInv'
  BY ConstantsAssumption DEF TypeOK, DetachInv, Goto, VendorDestroyed, At

\* Moving the caller inside a call keeps DetachInv.
LEMMA ApiGotoDetach ==
    ASSUME TypeOK, ThreadInv, DetachInv, NEW l \in ApiLabels, Goto(API, l),
           UNCHANGED <<eventThread, detached>>,
           l \in ConnectingLabels \cup OpeningLabels
              => pc[API] \in ConnectingLabels \cup OpeningLabels \cup {"open"},
           l # "open", pc[API] # "join",
           pc[API] = "stop" => l = "join" \/ eventThread = NoThread,
           pc[API] \in DestructorLabels => l \in DestructorLabels,
           l = "gone" => ~isOpen'
    PROVE  DetachInv'
  <1>1. pc'[API] = l /\ \A w \in Workers : pc'[w] = pc[w]
    BY ConstantsAssumption DEF TypeOK, Goto
  <1> QED
    BY <1>1, ApiMoveDetach

\* Joining the event thread keeps DetachInv.
LEMMA JoinDetach ==
    ASSUME TypeOK, ThreadInv, DetachInv, NEW k, NEW l \in ApiLabels, Join(k, l),
           \/ k = "swapJoin" /\ l = "pushConnect"
           \/ k = "join" /\ l \in {"remoteOff", "close"}
           \/ k = "dtorJoin" /\ l = "dtorClose"
    PROVE  DetachInv'
  <1>1. pc[API] = k /\ pc'[API] = l /\ eventThread' = fresh
        /\ \A w \in Workers : pc'[w] \in {pc[w], "none"}
    BY ConstantsAssumption DEF Join, At, TypeOK
  <1>2. k # "swapJoin" => eventThread' = NoThread
    BY <1>1 DEF ThreadInv
  <1>3. UNCHANGED detached
    BY DEF Join
  <1> QED
    BY <1>1, <1>2, <1>3, ApiMoveDetach
    DEF ConnectingLabels, OpeningLabels, DestructorLabels

\* An exception of the caller keeps DetachInv.
LEMMA ThrowDetach ==
    ASSUME TypeOK, ThreadInv, DetachInv, NEW p \in Procs, Throw(p),
           UNCHANGED threadVars, p # API => (isOpen' => isOpen),
           p = API => pc[API] \notin {"stop", "join"}
    PROVE  DetachInv'
  <1>1. CASE p \in Workers
    BY <1>1, WorkerMoveDetach, ConstantsAssumption DEF Throw
  <1>2. CASE p = API
    BY <1>2, ApiGotoDetach, ApiTargets
    DEF Throw, VendorDestroyed, DestructorLabels, ConnectingLabels, OpeningLabels
  <1> QED
    BY <1>1, <1>2

\* Every step keeps DetachInv.
LEMMA DetachNext == BaseInv /\ [Next]_vars => DetachInv'
  <1> SUFFICES ASSUME TypeOK, ThreadInv, DetachInv, TxnInv, [Next]_vars
               PROVE  DetachInv'
    BY DEF BaseInv
  <1> USE ApiTargets DEF ConnectingLabels, OpeningLabels, DestructorLabels
  <1>1. ASSUME NEW c \in Calls, Call(c) PROVE DetachInv'
    <2>1. pc[API] = "idle" /\ pc'[API] = Entry(c)
          /\ \A w \in Workers : pc'[w] = pc[w]
      BY <1>1, ConstantsAssumption DEF Call, At, TypeOK, Goto
    <2>2. UNCHANGED <<eventThread, isOpen>>
      BY <1>1 DEF Call
    <2>3. CASE c = "connect"
      <3>1. Entry(c) = "open" /\ ~detached'
        BY <1>1, <2>3 DEF Entry, Call
      <3> QED
        BY <2>1, <2>2, <3>1 DEF DetachInv, VendorDestroyed, At
    <2>4. CASE c = "disconnect"
      <3>1. Entry(c) = "stop"
        BY <2>4 DEF Entry
      <3> QED
        BY <2>1, <2>2, <3>1 DEF DetachInv, VendorDestroyed, At
    <2>5. CASE c \notin {"connect", "disconnect"}
      <3>1. Entry(c) \in {"dtorStop", "capInfo", "setInfo", "idle"}
        BY <2>5, ConstantsAssumption DEF Entry
      <3>2. detached' = detached
        BY <1>1, <2>5 DEF Call
      <3> QED
        BY <2>1, <2>2, <3>1, <3>2 DEF DetachInv, VendorDestroyed, At
    <2> QED
      BY <2>3, <2>4, <2>5
  <1>2. CASE ConnectStep
    <2>1. CASE Open
      <3>1. PICK l \in {"eosInfo", "invalidate", "number", "openTransport"} :
                Jump("open", l)
        BY <2>1 DEF Open, AfterOpenSession
      <3> QED
        BY <3>1, ApiGotoDetach DEF Jump, At
    <2>2. CASE OpenTransport
      BY <2>2, ApiGotoDetach DEF OpenTransport, At
    <2>3. CASE OpenTransportFails
      BY <2>3, ThrowDetach DEF OpenTransportFails, At
    <2>4. CASE Number
      BY <2>4, ApiGotoDetach DEF Number, At
    <2>5. CASE Opened
      BY <2>5, ApiGotoDetach DEF Opened, At, AfterOpenSession
    <2>6. CASE CheckModel
      <3>1. CASE Jump("eosInfo", "remoteOn")
        BY <3>1, ApiGotoDetach DEF Jump, At
      <3>2. CASE At("eosInfo") /\ Throw(API) /\ UNCHANGED <<threadVars, isOpen,
                    sessionVars, cachedDI, txnVars, cam, queueVars>>
        BY <3>2, ThrowDetach DEF At
      <3> QED
        BY <2>6, <3>1, <3>2 DEF CheckModel
    <2>7. CASE Invalidate
      BY <2>7, ApiGotoDetach DEF Invalidate, At
    <2>8. CASE Swap
      BY <2>8, ApiGotoDetach DEF Swap, RequestStop, At
    <2>9. CASE SwapJoin
      BY <2>9, JoinDetach DEF SwapJoin
    <2>10. CASE PushConnect
      BY <2>10, ApiGotoDetach DEF PushConnect, PushAndReturn, At
    <2>11. ASSUME NEW w \in Workers, Spawn(w) PROVE DetachInv'
      <3>1. pc[API] = "spawn" /\ UNCHANGED detached
        BY <2>11 DEF Spawn, At
      <3>2. pc'[API] \in {"pushConnect", "swap"}
            /\ \A v \in Workers : pc'[v] \in {pc[v], "loop"}
        BY <2>11, ConstantsAssumption DEF Spawn, TypeOK
      <3> QED
        BY <3>1, <3>2, ApiMoveDetach
    <2> QED
      BY <1>2, <2>1, <2>2, <2>3, <2>4, <2>5, <2>6, <2>7, <2>8, <2>9, <2>10, <2>11
      DEF ConnectStep
  <1>3. CASE DisconnectStep
    <2>1. CASE StopEventThread
      <3>1. CASE eventThread = NoThread
        BY <2>1, <3>1, ApiGotoDetach DEF StopEventThread, AfterStop, Jump, At
      <3>2. CASE eventThread # NoThread
        BY <2>1, <3>2, ApiGotoDetach DEF StopEventThread, RequestStop, At
      <3> QED
        BY <3>1, <3>2
    <2>2. CASE JoinEventThread
      BY <2>2, JoinDetach DEF JoinEventThread, AfterStop
    <2>3. CASE Close
      <3>1. PICK l \in {"closeTxn", "closeTransport"} : Jump("close", l)
        BY <2>3 DEF Close
      <3> QED
        BY <3>1, ApiGotoDetach DEF Jump, At
    <2>4. CASE Closed
      BY <2>4, ApiGotoDetach DEF Closed, At
    <2>5. CASE CloseTransport
      BY <2>5, ApiGotoDetach DEF CloseTransport, At
    <2>6. CASE PushDisconnect
      BY <2>6, ApiGotoDetach DEF PushDisconnect, PushAndReturn, At
    <2> QED
      BY <1>3, <2>1, <2>2, <2>3, <2>4, <2>5, <2>6 DEF DisconnectStep
  <1>4. CASE DestroyStep
    <2>1. CASE DtorStop
      <3>1. PICK l \in {"dtorClose", "dtorJoin"} : Goto(API, l)
        BY <2>1 DEF DtorStop
      <3> QED
        BY <2>1, <3>1, ApiGotoDetach DEF DtorStop, At
    <2>2. CASE DtorJoin
      BY <2>2, JoinDetach DEF DtorJoin
    <2>3. CASE DtorClose
      <3>1. PICK l \in {"dtorCloseTxn", "dtorTransport"} : Jump("dtorClose", l)
        BY <2>3 DEF DtorClose
      <3> QED
        BY <3>1, ApiGotoDetach DEF Jump, At
    <2>4. CASE DtorTransport
      BY <2>4, ApiGotoDetach DEF DtorTransport, At
    <2> QED
      BY <1>4, <2>1, <2>2, <2>3, <2>4 DEF DestroyStep
  <1>5. CASE ControlStep
    <2>1. CASE ChooseRelease
      <3>1. PICK l \in {"releaseOn", "release"} : Jump("capInfo", l)
        BY <2>1 DEF ChooseRelease
      <3> QED
        BY <3>1, ApiGotoDetach DEF Jump, At
    <2>2. CASE SendProp
      BY <2>2, ApiGotoDetach DEF SendProp, Jump, At
    <2>3. CASE RefuseProp
      BY <2>3, ThrowDetach DEF RefuseProp, At
    <2> QED
      BY <1>5, <2>1, <2>2, <2>3 DEF ControlStep
  <1>6. ASSUME NEW w \in Workers, WorkerStep(w) PROVE DetachInv'
    BY <1>6, WorkerMoveDetach
    DEF WorkerStep, Loop, Check, ReportLoss, Poll, PropChanged, NoMoreProps,
        HandleException, Wake, WorkerJump, WorkerPush
  <1>7. ASSUME NEW p \in Procs, Transaction(p) PROVE DetachInv'
    <2>1. CASE Begin(p)
      BY <2>1 DEF Begin, DetachInv, VendorDestroyed, At
    <2>2. CASE NotConnected(p)
      <3>1. pc[p] \notin {"stop", "join"}
        BY <2>2 DEF NotConnected, Requesting, RequestLabels, InfoLabels, InfoExLabels
      <3> QED
        BY <2>2, <3>1, ThrowDetach DEF NotConnected
    <2>3. ASSUME NEW r \in Outcomes, Finish(p, r) PROVE DetachInv'
      <3>1. UNCHANGED threadVars /\ (isOpen' => isOpen)
        BY <2>3 DEF Finish
      <3>2. CASE p = API
        <4>1. pc[API] \in RequestLabels \ {"recv"} /\ pc[API] \notin {"stop", "join"}
          BY <2>3, <3>2, FinishApi DEF RequestLabels, InfoLabels, InfoExLabels
        <4>2. CASE r # "ok"
          BY <2>3, <3>1, <3>2, <4>1, <4>2, FinishApi, ThrowDetach
        <4>3. CASE r = "ok"
          <5>1. PICK di \in {"none", "own", "other"} : \E l \in NextAt(pc[API], di) :
                    l \in ApiLabels /\ Goto(API, l)
            BY <2>3, <3>2, <4>3, FinishApi
          <5>2. PICK l \in NextAt(pc[API], di) : l \in ApiLabels /\ Goto(API, l)
            BY <5>1
          <5> HIDE DEF ConnectingLabels, OpeningLabels, DestructorLabels
          <5>3. /\ l \in ConnectingLabels <=> pc[API] \in ConnectingLabels
                /\ l \in OpeningLabels <=> pc[API] = "openTxn"
                /\ l \in DestructorLabels <=> pc[API] \in DestructorLabels
                /\ l \notin {"open", "gone"}
            BY <4>1, NextAtPhase
          <5>4. "openTxn" \in OpeningLabels
            BY DEF OpeningLabels
          <5>5. UNCHANGED detached
            BY <2>3, <3>2, <4>3, FinishApi
          <5> QED
            BY <3>1, <4>1, <5>2, <5>3, <5>4, <5>5, ApiGotoDetach
        <4> QED
          BY <4>2, <4>3
      <3>3. CASE p \in Workers
        <4>1. PICK l \in {"props", "sleep", "except"} : Goto(p, l)
          BY <2>3, <3>3, FinishWorker
        <4>2. UNCHANGED detached
          BY <2>3, <3>3, FinishWorker
        <4> QED
          BY <3>1, <3>3, <4>1, <4>2, WorkerMoveDetach
      <3> QED
        BY <3>2, <3>3
    <2> QED
      BY <1>7, <2>1, <2>2, <2>3 DEF Transaction
  <1>8. CASE ConnectionDrops
    BY <1>8 DEF ConnectionDrops, DetachInv, VendorDestroyed, At
  <1>9. CASE Pop \/ UNCHANGED vars
    BY <1>9 DEF Pop, vars, DetachInv, VendorDestroyed, At
  <1>10. CASE CamRunsAhead
    BY <1>10 DEF CamRunsAhead, DetachInv, VendorDestroyed, At
  <1> QED
    BY <1>1, <1>2, <1>3, <1>4, <1>5, <1>6, <1>7, <1>8, <1>9, <1>10
    DEF Next, CallStep

-----------------------------------------------------------------------------
(* The end of disconnect(): CompleteInv.                                   *)

\* A step of the caller inside a call, to a label where nothing is promised.
LEMMA ApiGotoComplete ==
    ASSUME TypeOK, CompleteInv, NEW l, Goto(API, l), UNCHANGED call,
           pc[API] \in DisconnectLabels => l \in DisconnectLabels \/ call # "disconnect",
           l # "pushDisconnect",
           l = "idle" => call # "disconnect" \/ threw'
    PROVE  CompleteInv'
  <1>1. pc'[API] = l
    BY ConstantsAssumption DEF TypeOK, Goto
  <1> QED
    BY <1>1 DEF CompleteInv, At

\* A step that leaves the caller, the thread, the transport and the session alone.
LEMMA AsideComplete ==
    ASSUME CompleteInv, pc'[API] = pc[API], cam'.session = cam.session,
           UNCHANGED <<eventThread, isOpen, isSessionOpen, call, threw>>
    PROVE  CompleteInv'
  BY DEF CompleteInv, At

\* So is a step of an event thread between its requests.
LEMMA WorkerComplete ==
    ASSUME TypeOK, CompleteInv, NEW w \in Workers, NEW l, Goto(w, l),
           UNCHANGED <<eventThread, isOpen, isSessionOpen, cam, call, threw>>
    PROVE  CompleteInv'
  <1>1. pc'[API] = pc[API]
    BY ConstantsAssumption DEF TypeOK, Goto
  <1> QED
    BY <1>1, AsideComplete

\* An exception of the caller is remembered in threw, or swallowed by ~PTP.
LEMMA ThrowComplete ==
    ASSUME TypeOK, CompleteInv, Throw(API)
    PROVE  CompleteInv'
  BY ApiGotoComplete DEF Throw, VendorDestroyed, DestructorLabels, DisconnectLabels, TypeOK

\* Without an event thread, and with the caller at no request, nobody has a
\* request under way.
LEMMA NobodyWaits ==
    ASSUME TypeOK, ThreadInv, TxnInv, eventThread = NoThread, fresh = NoThread,
           pc[API] \notin RequestLabels
    PROVE  mutex = NoThread /\ \A p \in Procs : ~Waiting(p)
  <1>1. \A w \in Workers : pc[w] = "none"
    BY ConstantsAssumption DEF ThreadInv
  <1>2. \A p \in Procs : pc[p] \notin RequestLabels
    BY <1>1 DEF RequestLabels, InfoLabels, InfoExLabels
  <1>3. \A p \in Procs : ~Waiting(p)
    BY <1>2, Waiter
  <1> QED
    BY <1>2, <1>3 DEF TxnInv, TypeOK

\* Every step keeps CompleteInv.
LEMMA CompleteNext == BaseInv /\ [Next]_vars => CompleteInv'
  <1> SUFFICES ASSUME TypeOK, ThreadInv, TxnInv, CompleteInv, [Next]_vars
               PROVE  CompleteInv'
    BY DEF BaseInv
  <1>1. ASSUME NEW c \in Calls, Call(c) PROVE CompleteInv'
    <2>1. pc'[API] = Entry(c) /\ call' = c
      BY <1>1, ConstantsAssumption DEF Call, TypeOK, Goto
    <2>2. Entry(c) # "pushDisconnect" /\ (c = "disconnect" => Entry(c) = "stop")
      BY ConstantsAssumption DEF Entry
    <2> QED
      BY <2>1, <2>2 DEF CompleteInv, At, DisconnectLabels
  <1>2. CASE ConnectStep
    <2>1. call # "disconnect" \/ pc[API] \notin ConnectingLabels \cup OpeningLabels \cup {"open"}
      BY DEF CompleteInv, DisconnectLabels, ConnectingLabels, OpeningLabels
    <2>2. CASE \E w \in Workers : Spawn(w)
      <3>1. PICK w \in Workers : Spawn(w)
        BY <2>2
      <3>2. pc[API] = "spawn" /\ pc'[API] \in {"pushConnect", "swap"} /\ call' = call
        BY <3>1, ConstantsAssumption DEF Spawn, At, TypeOK
      <3> QED
        BY <2>1, <3>2 DEF CompleteInv, At, ConnectingLabels
    <2>3. CASE SwapJoin
      <3>1. pc[API] = "swapJoin" /\ pc'[API] = "pushConnect" /\ call' = call
        BY <2>3, ConstantsAssumption DEF SwapJoin, Join, At, TypeOK
      <3> QED
        BY <2>1, <3>1 DEF CompleteInv, At, ConnectingLabels
    <2>4. CASE OpenTransportFails
      BY <2>4, ThrowComplete DEF OpenTransportFails
    <2>5. CASE CheckModel
      <3>1. CASE Jump("eosInfo", "remoteOn")
        BY <2>1, <3>1, ApiGotoComplete DEF Jump, At, ConnectingLabels
      <3>2. CASE Throw(API)
        BY <3>2, ThrowComplete
      <3> QED
        BY <2>5, <3>1, <3>2 DEF CheckModel
    <2>6. CASE Open
      <3>1. PICK l \in {"eosInfo", "invalidate", "number", "openTransport"} :
                Jump("open", l)
        BY <2>6 DEF Open, AfterOpenSession
      <3> QED
        BY <2>1, <3>1, ApiGotoComplete DEF Jump, At
    <2>7. CASE OpenTransport \/ Number \/ Opened \/ Invalidate
      <3>1. \E l \in {"number", "openTxn", "eosInfo", "invalidate", "spawn"} : Goto(API, l)
        BY <2>7 DEF OpenTransport, Number, Opened, Invalidate, AfterOpenSession
      <3>2. UNCHANGED call /\ pc[API] \in ConnectingLabels \cup OpeningLabels
        BY <2>7 DEF OpenTransport, Number, Opened, Invalidate, At, ConnectingLabels,
                    OpeningLabels
      <3> QED
        BY <2>1, <3>1, <3>2, ApiGotoComplete
    <2>8. CASE Swap \/ PushConnect
      <3>1. \E l \in {"swapJoin", "idle"} : Goto(API, l)
        BY <2>8 DEF Swap, RequestStop, PushConnect, PushAndReturn
      <3>2. UNCHANGED call /\ pc[API] \in ConnectingLabels
        BY <2>8 DEF Swap, RequestStop, PushConnect, PushAndReturn, At, ConnectingLabels
      <3> QED
        BY <2>1, <3>1, <3>2, ApiGotoComplete
    <2> QED
      BY <1>2, <2>2, <2>3, <2>4, <2>5, <2>6, <2>7, <2>8 DEF ConnectStep
  <1>3. CASE DisconnectStep
    <2> USE DEF DisconnectLabels
    <2>1. CASE StopEventThread
      <3>1. PICK l \in {"remoteOff", "close", "join"} : Goto(API, l)
        BY <2>1 DEF StopEventThread, Jump, RequestStop, AfterStop
      <3>2. UNCHANGED call
        BY <2>1 DEF StopEventThread, Jump, RequestStop
      <3> QED
        BY <3>1, <3>2, ApiGotoComplete
    <2>2. CASE JoinEventThread
      <3>1. pc'[API] \in {"remoteOff", "close"} /\ call' = call
        BY <2>2, ConstantsAssumption DEF JoinEventThread, Join, AfterStop, TypeOK
      <3> QED
        BY <3>1 DEF CompleteInv, At
    <2>3. CASE Close
      <3>1. PICK l \in {"closeTxn", "closeTransport"} : Jump("close", l)
        BY <2>3 DEF Close
      <3> QED
        BY <3>1, ApiGotoComplete DEF Jump
    <2>4. CASE Closed
      <3>1. CASE At("closed") /\ Goto(API, "closeTransport")
        BY <2>4, <3>1, ApiGotoComplete DEF Closed
      <3>2. CASE At("dtorClosed") /\ Goto(API, "dtorTransport")
        BY <2>4, <3>2, ApiGotoComplete DEF Closed, At
      <3> QED
        BY <2>4, <3>1, <3>2 DEF Closed
    <2>5. CASE CloseTransport
      <3>1. pc[API] = "closeTransport" /\ pc'[API] = "pushDisconnect"
        BY <2>5, ConstantsAssumption DEF CloseTransport, At, Goto, TypeOK
      <3>2. eventThread' = NoThread
        BY <2>5, <3>1 DEF CloseTransport, ThreadInv, StoppedLabels
      <3>3. ~isOpen' /\ ~isSessionOpen' /\ cam'.session = NoSession
        BY <2>5 DEF CloseTransport, CamDisconnected, TypeOK
      <3> QED
        BY <3>1, <3>2, <3>3 DEF CompleteInv, At
    <2>6. CASE PushDisconnect
      <3>1. At("pushDisconnect") /\ pc'[API] = "idle"
        BY <2>6, ConstantsAssumption DEF PushDisconnect, PushAndReturn, At, Goto, TypeOK
      <3>2. UNCHANGED <<eventThread, isOpen, isSessionOpen, cam>>
        BY <2>6 DEF PushDisconnect, PushAndReturn
      <3> QED
        BY <3>1, <3>2 DEF CompleteInv, At
    <2> QED
      BY <1>3, <2>1, <2>2, <2>3, <2>4, <2>5, <2>6 DEF DisconnectStep
  <1>4. CASE DestroyStep
    <2>1. pc[API] \in DestructorLabels /\ UNCHANGED call
      BY <1>4 DEF DestroyStep, DtorStop, DtorJoin, DtorClose, DtorTransport,
                  Join, Jump, At, DestructorLabels
    <2>2. pc'[API] \in DestructorLabels
      BY <1>4, ConstantsAssumption, SMTT(60)
      DEF DestroyStep, DtorStop, DtorJoin, DtorClose, DtorTransport, Join,
          Jump, Goto, DestructorLabels, TypeOK
    <2> QED
      BY <2>1, <2>2 DEF CompleteInv, At, DestructorLabels, DisconnectLabels
  <1>5. CASE ControlStep
    <2>1. call # "disconnect" \/ pc[API] \notin {"capInfo", "setInfo"}
      BY DEF CompleteInv, DisconnectLabels
    <2>2. CASE RefuseProp
      BY <2>2, ThrowComplete DEF RefuseProp
    <2>3. CASE ChooseRelease \/ SendProp
      <3>1. \E k \in {"capInfo", "setInfo"}, l \in {"releaseOn", "release", "setTxn"} :
                Jump(k, l)
        BY <2>3 DEF ChooseRelease, SendProp
      <3> QED
        BY <2>1, <3>1, ApiGotoComplete DEF Jump, At
    <2> QED
      BY <1>5, <2>2, <2>3 DEF ControlStep
  <1>6. ASSUME NEW w \in Workers, WorkerStep(w) PROVE CompleteInv'
    BY <1>6, WorkerComplete
    DEF WorkerStep, Loop, Check, ReportLoss, Poll, PropChanged, NoMoreProps,
        HandleException, Wake, WorkerJump, WorkerPush
  <1>7. ASSUME NEW p \in Procs, Transaction(p) PROVE CompleteInv'
    <2>1. CASE Begin(p)
      <3>1. cam'.session = cam.session
        BY <2>1 DEF Begin, TypeOK
      <3> QED
        BY <2>1, <3>1, AsideComplete DEF Begin
    <2>2. CASE NotConnected(p)
      <3>1. CASE p = API
        BY <2>2, <3>1, ThrowComplete DEF NotConnected
      <3>2. CASE p \in Workers
        BY <2>2, <3>2, WorkerComplete, ConstantsAssumption DEF NotConnected, Throw, TypeOK
      <3> QED
        BY <3>1, <3>2
    <2>3. ASSUME NEW r \in Outcomes, Finish(p, r) PROVE CompleteInv'
      <3>1. CASE p = API /\ r # "ok"
        BY <2>3, <3>1, FinishApi, ThrowComplete
      <3>2. CASE p = API /\ r = "ok"
        <4>1. UNCHANGED call /\ pc[API] \in RequestLabels \ {"recv"}
          BY <2>3, <3>2, FinishApi
        <4>2. PICK di \in {"none", "own", "other"} : \E l \in NextAt(pc[API], di) :
                  Goto(API, l)
          BY <2>3, <3>2, FinishApi
        <4>3. PICK l \in NextAt(pc[API], di) : Goto(API, l)
          BY <4>2
        <4>4. CASE call = "disconnect"
          <5>1. pc[API] \in {"remoteOff", "eventOff", "closeTxn"}
            BY <4>1, <4>4 DEF CompleteInv, DisconnectLabels, RequestLabels,
                              InfoLabels, InfoExLabels
          <5>2. pc[API] \in RequestLabels \ (InfoLabels \cup InfoExLabels)
            BY <5>1 DEF RequestLabels, InfoLabels, InfoExLabels
          <5>3. l \in {"eventOff", "close", "closed"}
            BY <5>1, <5>2, NextAtOther
          <5> QED
            BY <4>1, <4>3, <5>3, ApiGotoComplete DEF DisconnectLabels
        <4>5. CASE call # "disconnect"
          <5>1. l # "pushDisconnect"
            <6>1. CASE pc[API] \in InfoLabels
              BY <4>1, <6>1, NextAtInfo DEF InfoLabels
            <6>2. CASE pc[API] \in InfoExLabels
              BY <4>1, <6>2, NextAtInfoEx
            <6>3. CASE pc[API] \notin InfoLabels \cup InfoExLabels
              BY <4>1, <6>3, NextAtOther
            <6> QED
              BY <6>1, <6>2, <6>3
          <5> QED
            BY <4>1, <4>3, <4>5, <5>1, ApiGotoComplete
        <4> QED
          BY <4>4, <4>5
      <3>3. CASE p \in Workers
        <4>1. ~(eventThread = NoThread /\ pc[API] \in {"idle", "pushDisconnect"})
          BY <2>3, <3>3, NobodyWaits
          DEF Finish, ThreadInv, RequestLabels, InfoLabels, InfoExLabels
        <4>2. pc'[API] = pc[API] /\ call' = call /\ threw' = threw
          BY <2>3, <3>3, FinishWorker
        <4> QED
          BY <4>1, <4>2 DEF CompleteInv, At
      <3> QED
        BY <3>1, <3>2, <3>3
    <2> QED
      BY <1>7, <2>1, <2>2, <2>3 DEF Transaction
  <1>8. CASE ConnectionDrops
    BY <1>8 DEF ConnectionDrops, CompleteInv, At
  <1>9. CASE Pop \/ UNCHANGED vars
    BY <1>9, AsideComplete DEF Pop, vars
  <1>10. CASE CamRunsAhead
    BY <1>10 DEF CamRunsAhead, CompleteInv, At
  <1> QED
    BY <1>1, <1>2, <1>3, <1>4, <1>5, <1>6, <1>7, <1>8, <1>9, <1>10
    DEF Next, CallStep

-----------------------------------------------------------------------------
(* The theorems about threads and transactions.                            *)

\* The inductive invariant holds at first.
LEMMA InvInit == Init => BaseInv
  <1> SUFFICES ASSUME Init PROVE BaseInv
    OBVIOUS
  <1>1. pc[API] = "idle" /\ \A w \in Workers : pc[w] = "none"
    BY ConstantsAssumption DEF Init
  <1>2. ThreadInv
    BY <1>1 DEF Init, ThreadInv, StoppedLabels, ConnectingLabels, OpeningLabels
  <1>3. DetachInv
    BY <1>1 DEF Init, DetachInv, ConnectingLabels, OpeningLabels, At
  <1>4. TxnInv
    BY <1>1 DEF Init, TxnInv, At
  <1>5. CompleteInv
    BY <1>1 DEF Init, CompleteInv, At
  <1> QED
    BY <1>2, <1>3, <1>4, <1>5, TypeInit DEF BaseInv

\* Every step keeps the inductive invariant.
LEMMA InvNext == BaseInv /\ [Next]_vars => BaseInv'
  BY TypeNext, ThreadNext, DetachNext, TxnNext, CompleteNext DEF BaseInv

\* The conjunction of types, threads, disconnection, transactions and what a
\* disconnect() leaves is an invariant of one camera object, for any number of
\* event threads, any camera and any way transactions end.
THEOREM Invariance == Spec => []BaseInv
  BY InvInit, InvNext, PTL DEF Spec

\* Every variable keeps its type.
THEOREM TypeCorrect == Spec => []TypeOK
  <1>1. BaseInv => TypeOK
    BY DEF BaseInv
  <1> QED
    BY <1>1, Invariance, PTL

\* startEventThread and stopEventThread never lose a running thread.
THEOREM NoOrphans == Spec => []NoOrphanThread
  <1>1. BaseInv => NoOrphanThread
    BY ConstantsAssumption DEF BaseInv, ThreadInv, NoOrphanThread, Live
  <1> QED
    BY <1>1, Invariance, PTL

\* Unless UnexpectedPacket was thrown on this very connection, transactionMutex
\* makes the oldest unanswered request that of the thread that waits: whatever
\* else fails, and whatever was unread when an earlier connection ended.
THEOREM ResponsesAreOwn == Spec => []ResponseIsOwn
  <1>1. BaseInv => ResponseIsOwn
    <2> SUFFICES ASSUME BaseInv, link # "outOfStep", NEW p \in Procs, Waiting(p)
                 PROVE  Head(wire).by = p
      BY DEF ResponseIsOwn
    <2>1. /\ wire # <<>> /\ wire[Len(wire)].by = p
          /\ \A i \in 1..Len(wire) - 1 : wire[i].by = NoThread
      BY Waiter DEF BaseInv
    <2>2. Len(wire) \in Nat /\ DOMAIN wire = 1..Len(wire) /\ Len(wire) # 0
      BY <2>1, EmptySeq DEF BaseInv, TypeOK
    <2>3. \A i \in DOMAIN wire : wire[i].by # NoThread
      BY DEF BaseInv, TxnInv
    <2>4. Len(wire) = 1
      BY <2>1, <2>2, <2>3
    <2> QED
      BY <2>1, <2>2, <2>4 DEF BaseInv, TypeOK
  <1> QED
    BY <1>1, Invariance, PTL

\* Destroying a disconnected object is safe, whatever became of disconnect().
THEOREM DestroySafe == Spec => []DestroyAfterDisconnectIsSafe
  <1>1. BaseInv => DestroyAfterDisconnectIsSafe
    <2> SUFFICES ASSUME BaseInv PROVE DestroyAfterDisconnectIsSafe
      OBVIOUS
    <2>1. ASSUME detached, NEW w \in Workers PROVE pc[w] # "pureVirtual"
      <3>1. SUFFICES ASSUME pc[w] = "pureVirtual" PROVE FALSE
        OBVIOUS
      <3>2. pc[API] \in DestructorLabels
        BY <3>1 DEF BaseInv, DetachInv, VendorDestroyed
      <3>3. eventThread = NoThread /\ fresh = NoThread
        BY <2>1, <3>2 DEF BaseInv, DetachInv, ThreadInv, DestructorLabels
      <3> QED
        BY <3>1, <3>3, ConstantsAssumption DEF BaseInv, ThreadInv
    <2>2. ASSUME At("gone") PROVE NoLiveWorker /\ ~isOpen
      <3>1. eventThread = NoThread /\ fresh = NoThread
        BY <2>2 DEF BaseInv, ThreadInv, At, StoppedLabels
      <3> QED
        BY <2>2, <3>1, ConstantsAssumption
        DEF BaseInv, ThreadInv, DetachInv, NoLiveWorker, Live
    <2> QED
      BY <2>1, <2>2 DEF DestroyAfterDisconnectIsSafe
  <1> QED
    BY <1>1, Invariance, PTL

\* A disconnect() that returned normally left nothing of the connection: also
\* when connect() had thrown UnsupportedCamera before it, and when replies were
\* unread on a connection out of step.
THEOREM DisconnectComplete == Spec => []DisconnectIsComplete
  <1>1. BaseInv => DisconnectIsComplete
    <2> SUFFICES ASSUME BaseInv, At("idle"), call = "disconnect", ~threw
                 PROVE  /\ NoLiveWorker /\ wire = <<>>
                        /\ ~isOpen /\ ~isSessionOpen /\ cam.session = NoSession
      BY DEF DisconnectIsComplete
    <2>1. eventThread = NoThread /\ ~isOpen /\ ~isSessionOpen
          /\ cam.session = NoSession
      BY DEF BaseInv, CompleteInv
    <2>2. NoLiveWorker
      BY <2>1, ConstantsAssumption DEF BaseInv, ThreadInv, NoLiveWorker, Live, At
    <2>3. wire = <<>>
      <3>1. fresh = NoThread /\ pc[API] \notin RequestLabels
        BY DEF BaseInv, ThreadInv, At, RequestLabels, InfoLabels, InfoExLabels
      <3>2. mutex = NoThread
        BY <2>1, <3>1, NobodyWaits DEF BaseInv
      <3> QED
        BY <2>1, <3>2 DEF BaseInv, TxnInv
    <2> QED
      BY <2>1, <2>2, <2>3
  <1> QED
    BY <1>1, Invariance, PTL

-----------------------------------------------------------------------------
(* Action properties.                                                      *)

\* What writes the session variables, and that no event thread runs then.
LEMMA SessionWriters ==
    ASSUME BaseInv, [Next]_vars,
           \/ sessionVars' # sessionVars
           \/ transactionId' # transactionId /\ mutex' = mutex
    PROVE  NoLiveWorker
  <1>1. Number \/ Opened \/ Closed \/ CloseTransport
    <2>1. CASE CallStep
      BY <2>1
      DEF CallStep, ConnectStep, DisconnectStep, DestroyStep, ControlStep,
          Open, OpenTransport, OpenTransportFails, CheckModel, Invalidate,
          Swap, SwapJoin, PushConnect, Spawn, StopEventThread,
          JoinEventThread, Close, PushDisconnect, DtorStop, DtorJoin,
          DtorClose, DtorTransport, ChooseRelease, SendProp, RefuseProp, Jump,
          RequestStop, Join, PushAndReturn
    <2>2. ASSUME NEW w \in Workers, WorkerStep(w) PROVE FALSE
      BY <2>2 DEF WorkerStep, Loop, Check, ReportLoss, Poll, PropChanged,
                  NoMoreProps, HandleException, Wake, WorkerJump, WorkerPush
    <2>3. ASSUME NEW p \in Procs, Transaction(p) PROVE FALSE
      <3>1. CASE Begin(p)
        BY <3>1, ConstantsAssumption DEF Begin
      <3>2. CASE ~Begin(p)
        BY <2>3, <3>2 DEF Transaction, NotConnected, Finish
      <3> QED
        BY <3>1, <3>2
    <2>4. CASE \/ \E c \in Calls : Call(c)
               \/ CamRunsAhead \/ ConnectionDrops \/ Pop \/ UNCHANGED vars
      BY <2>4 DEF Call, CamRunsAhead, ConnectionDrops, Pop, vars
    <2> QED
      BY <2>1, <2>2, <2>3, <2>4 DEF Next
  <1>2. pc[API] \in OpeningLabels \cup StoppedLabels
    BY <1>1 DEF Number, Opened, Closed, CloseTransport, At, OpeningLabels,
                StoppedLabels
  <1>3. eventThread = NoThread /\ fresh = NoThread
    BY <1>2 DEF BaseInv, ThreadInv, OpeningLabels, StoppedLabels
  <1> QED
    BY <1>3, ConstantsAssumption DEF BaseInv, ThreadInv, NoLiveWorker, Live

\* The session variables are written without transactionMutex, and safely.
THEOREM SessionWritesSafe == Spec => SessionWritesUncontended
  <1>1. BaseInv /\ [Next]_vars =>
          [\/ sessionVars' # sessionVars
           \/ transactionId' # transactionId /\ mutex' = mutex
           => NoLiveWorker]_vars
    BY SessionWriters
  <1> QED
    BY <1>1, Invariance, PTL DEF Spec, SessionWritesUncontended

\* A session that lost its transport stays lost.
THEOREM LostIsTerminal == Spec => LostSessionIsTerminal
  <1>1. ASSUME BaseInv, [Next]_vars, ~isOpen, isSessionOpen,
               pc[API] \notin {"closed", "dtorClosed"}
        PROVE  ~isOpen' /\ isSessionOpen'
    <2> DEFINE StillLost == isOpen' = FALSE /\ isSessionOpen' = TRUE
    <2>0. isOpen = FALSE /\ isSessionOpen = TRUE
      BY <1>1 DEF BaseInv, TypeOK
    <2> SUFFICES StillLost
      OBVIOUS
    <2>1. CASE CallStep
      <3>1. ~OpenTransport /\ ~OpenTransportFails /\ ~Closed /\ ~CloseTransport
        BY <1>1 DEF OpenTransport, OpenTransportFails, Closed, CloseTransport,
                    At, BaseInv, ThreadInv, OpeningLabels
      <3> QED
        BY <2>0, <2>1, <3>1
        DEF CallStep, ConnectStep, DisconnectStep, DestroyStep, ControlStep,
            Open, Number, Opened, CheckModel, Invalidate, Swap, SwapJoin,
            PushConnect, Spawn, StopEventThread, JoinEventThread, Close,
            PushDisconnect, DtorStop, DtorJoin, DtorClose, DtorTransport,
            ChooseRelease, SendProp, RefuseProp, Jump, RequestStop, Join,
            PushAndReturn
    <2>2. ASSUME NEW w \in Workers, WorkerStep(w)
          PROVE  StillLost
      BY <2>0, <2>2
      DEF WorkerStep, Loop, Check, ReportLoss, Poll, PropChanged, NoMoreProps,
          HandleException, Wake, WorkerJump, WorkerPush
    <2>3. ASSUME NEW p \in Procs, Transaction(p)
          PROVE  StillLost
      BY <2>0, <2>3 DEF Transaction, Begin, NotConnected, Finish
    <2>4. CASE \/ \E c \in Calls : Call(c)
               \/ CamRunsAhead \/ ConnectionDrops \/ Pop \/ UNCHANGED vars
      BY <2>0, <2>4 DEF Call, CamRunsAhead, ConnectionDrops, Pop, vars
    <2> QED
      BY <1>1, <2>1, <2>2, <2>3, <2>4 DEF Next
  <1>2. BaseInv /\ [Next]_vars =>
          [~isOpen /\ isSessionOpen /\ pc[API] \notin {"closed", "dtorClosed"}
           => ~isOpen' /\ isSessionOpen']_vars
    BY <1>1
  <1> QED
    BY <1>2, Invariance, PTL DEF Spec, LostSessionIsTerminal

-----------------------------------------------------------------------------
(* The calls: CallInv.                                                     *)

Methods == {"connect", "disconnect", "capture", "setProp", "destroy"}

\* No label belongs to two calls, but "idle", which belongs to none.
LEMMA LabelOfCall ==
    ASSUME TypeOK, CallInv, NEW c \in Methods, pc[API] \in CallLabels[c],
           pc[API] # "idle"
    PROVE  call = c
  <1>1. call \in Methods \cup {"none"}
    BY ConstantsAssumption DEF TypeOK, Methods
  <1>2. pc[API] \in CallLabels[call]
    BY DEF CallInv, At
  <1> QED
    BY <1>1, <1>2, SMTT(60)
    DEF CallLabels, Methods, OpeningLabels, ConnectingLabels, DisconnectLabels,
        DestructorLabels

\* A step of the caller from one label of its call to another, or to its end.
LEMMA ApiMoveCall ==
    ASSUME TypeOK, CallInv, NEW c \in Methods, pc[API] \in CallLabels[c],
           pc[API] # "idle", UNCHANGED call, pc'[API] \in CallLabels[c] \cup {"idle"}
    PROVE  CallInv'
  BY LabelOfCall DEF CallInv, At

\* A step that leaves the caller where it is.
LEMMA AsideCall ==
    ASSUME CallInv, UNCHANGED call, pc'[API] = pc[API]
    PROVE  CallInv'
  BY DEF CallInv, At

\* The caller's exception ends the call, or goes on in the destructor.
LEMMA ThrowCall ==
    ASSUME TypeOK, CallInv, Throw(API)
    PROVE  CallInv'
  <1>1. UNCHANGED call
    BY DEF Throw
  <1>2. CASE VendorDestroyed
    <2>1. pc'[API] = "dtorTransport"
      BY <1>2 DEF Throw, Goto, TypeOK
    <2> QED
      BY <1>1, <1>2, <2>1, ApiMoveCall
      DEF VendorDestroyed, CallLabels, DestructorLabels, Methods
  <1>3. CASE ~VendorDestroyed
    BY <1>3 DEF Throw, Goto, TypeOK, CallInv, At
  <1> QED
    BY <1>2, <1>3

\* The answer to a request leads to another label of the same call, or ends it.
LEMMA NextAtCall ==
    ASSUME NEW c \in Methods, NEW k \in CallLabels[c] \cap RequestLabels, NEW di,
           NEW l \in NextAt(k, di)
    PROVE  l \in CallLabels[c] \cup {"idle"}
  <1>1. CASE k \in InfoLabels \cup InfoExLabels
    <2>1. k \in {"eosInfo", "capInfo", "setInfo", "eosInfoEx", "capInfoEx", "setInfoEx"}
      BY <1>1 DEF InfoLabels, InfoExLabels
    <2>2. l = k \/ (k = "eosInfo" /\ l = "eosInfoEx") \/ (k = "capInfo" /\ l = "capInfoEx")
          \/ (k = "setInfo" /\ l = "setInfoEx") \/ (k = "eosInfoEx" /\ l = "eosInfo")
          \/ (k = "capInfoEx" /\ l = "capInfo") \/ (k = "setInfoEx" /\ l = "setInfo")
      BY <1>1, NextAtInfo, NextAtInfoEx
    <2>3. /\ "eosInfo" \in CallLabels[c] <=> "eosInfoEx" \in CallLabels[c]
          /\ "capInfo" \in CallLabels[c] <=> "capInfoEx" \in CallLabels[c]
          /\ "setInfo" \in CallLabels[c] <=> "setInfoEx" \in CallLabels[c]
      BY SMTT(40) DEF Methods, CallLabels, OpeningLabels, ConnectingLabels, DisconnectLabels,
             DestructorLabels
    <2> QED
      BY <2>1, <2>2, <2>3
  <1>2. CASE k \notin InfoLabels \cup InfoExLabels
    <2> USE <1>2, NextAtOther
    <2>1. CASE c = "connect"
      BY <2>1 DEF CallLabels, OpeningLabels, ConnectingLabels
    <2>2. CASE c = "disconnect"
      BY <2>2 DEF CallLabels, DisconnectLabels
    <2>3. CASE c = "capture"
      BY <2>3 DEF CallLabels
    <2>4. CASE c = "setProp"
      BY <2>4 DEF CallLabels
    <2>5. CASE c = "destroy"
      BY <2>5 DEF CallLabels, DestructorLabels
    <2> QED
      BY <2>1, <2>2, <2>3, <2>4, <2>5 DEF Methods
  <1> QED
    BY <1>1, <1>2

\* Every step keeps CallInv.
LEMMA CallNext == BaseInv /\ CallInv /\ [Next]_vars => CallInv'
  <1> SUFFICES ASSUME TypeOK, ThreadInv, TxnInv, CallInv, [Next]_vars PROVE CallInv'
    BY DEF BaseInv
  <1>1. ASSUME NEW c \in Calls, Call(c) PROVE CallInv'
    <2>1. pc'[API] = Entry(c) /\ call' = c /\ c \in Methods
      BY <1>1, ConstantsAssumption DEF Call, TypeOK, Goto, Methods
    <2>2. Entry(c) \in CallLabels[c] \cup {"idle"}
      BY <2>1, SMTT(30) DEF Entry, CallLabels, Methods, DisconnectLabels, DestructorLabels
    <2> QED
      BY <2>1, <2>2 DEF CallInv, At
  <1>2. CASE ConnectStep
    <2> USE DEF OpeningLabels, ConnectingLabels
    <2>1. CASE OpenTransportFails
      BY <2>1, ThrowCall DEF OpenTransportFails
    <2>2. CASE CheckModel /\ Throw(API)
      BY <2>2, ThrowCall
    <2>3. CASE ~OpenTransportFails /\ ~(CheckModel /\ Throw(API))
      <3>1. pc[API] \in {"open"} \cup OpeningLabels \cup ConnectingLabels /\ UNCHANGED call
        BY <1>2, <2>3
        DEF ConnectStep, Open, OpenTransport, Number, Opened, CheckModel, Invalidate,
            Swap, SwapJoin, PushConnect, Spawn, Jump, RequestStop, Join,
            PushAndReturn, At
      <3>2. pc'[API] \in {"idle"} \cup OpeningLabels \cup ConnectingLabels
        <4>1. CASE SwapJoin \/ \E w \in Workers : Spawn(w)
          BY <4>1, ConstantsAssumption DEF SwapJoin, Join, Spawn, TypeOK
        <4>2. CASE ~SwapJoin /\ ~\E w \in Workers : Spawn(w)
          <5>1. \E l \in {"idle"} \cup OpeningLabels \cup ConnectingLabels : Goto(API, l)
            BY <1>2, <2>3, <4>2
            DEF ConnectStep, Open, OpenTransport, Number, Opened, CheckModel,
                Invalidate, Swap, PushConnect, Jump, RequestStop, PushAndReturn,
                AfterOpenSession
          <5> QED
            BY <5>1 DEF Goto, TypeOK
        <4> QED
          BY <4>1, <4>2
      <3> HIDE DEF OpeningLabels, ConnectingLabels
      <3>3. CallLabels["connect"] = {"open"} \cup OpeningLabels \cup ConnectingLabels
            /\ "connect" \in Methods
        BY DEF CallLabels, Methods
      <3>4. pc[API] # "idle"
        BY <3>1 DEF OpeningLabels, ConnectingLabels
      <3> QED
        BY <3>1, <3>2, <3>3, <3>4, ApiMoveCall
    <2> QED
      BY <2>1, <2>2, <2>3
  <1>3. CASE DisconnectStep /\ ~At("dtorClosed")
    <2>1. pc[API] \in DisconnectLabels \ {"idle"} /\ UNCHANGED call
      BY <1>3
      DEF DisconnectStep, StopEventThread, JoinEventThread, Close, Closed,
          CloseTransport, PushDisconnect, Jump, RequestStop, Join, PushAndReturn,
          At, DisconnectLabels
    <2>2. pc'[API] \in DisconnectLabels
      <3>1. CASE JoinEventThread
        BY <3>1, ConstantsAssumption
        DEF JoinEventThread, Join, AfterStop, TypeOK, DisconnectLabels
      <3>2. CASE ~JoinEventThread
        <4>1. \E l \in DisconnectLabels : Goto(API, l)
          BY <1>3, <3>2
          DEF DisconnectStep, StopEventThread, Close, Closed, CloseTransport,
              PushDisconnect, Jump, RequestStop, PushAndReturn, AfterStop,
              DisconnectLabels
        <4> QED
          BY <4>1 DEF Goto, TypeOK
      <3> QED
        BY <3>1, <3>2
    <2> QED
      BY <2>1, <2>2, ApiMoveCall DEF CallLabels, Methods
  <1>4. CASE DestroyStep \/ (DisconnectStep /\ At("dtorClosed"))
    <2>0. DestroyStep \/ (Closed /\ At("dtorClosed"))
      BY <1>4 DEF DisconnectStep, StopEventThread, JoinEventThread, Close,
                  CloseTransport, PushDisconnect, Jump, RequestStop, Join,
                  PushAndReturn, At
    <2>1. pc[API] \in DestructorLabels /\ UNCHANGED call
      BY <2>0 DEF DestroyStep, DtorStop, DtorJoin, DtorClose, DtorTransport,
                  Closed, Join, Jump, At, DestructorLabels
    <2>2. pc'[API] \in DestructorLabels
      BY <2>0, ConstantsAssumption, SMTT(60)
      DEF DestroyStep, DtorStop, DtorJoin, DtorClose, DtorTransport, Closed,
          Join, Jump, Goto, At, DestructorLabels, TypeOK
    <2>3. pc[API] # "idle"
      BY <2>1 DEF DestructorLabels
    <2>4. CallLabels["destroy"] = DestructorLabels /\ "destroy" \in Methods
      BY DEF CallLabels, Methods
    <2> QED
      BY <2>1, <2>2, <2>3, <2>4, ApiMoveCall
  <1>5. CASE ControlStep
    <2>1. CASE ChooseRelease
      <3>1. pc[API] = "capInfo" /\ pc'[API] \in {"releaseOn", "release"}
            /\ UNCHANGED call
        BY <2>1 DEF ChooseRelease, Jump, At, Goto, TypeOK
      <3> QED
        BY <3>1, ApiMoveCall DEF CallLabels, Methods
    <2>2. CASE SendProp
      <3>1. pc[API] = "setInfo" /\ pc'[API] = "setTxn" /\ UNCHANGED call
        BY <2>2 DEF SendProp, Jump, At, Goto, TypeOK
      <3> QED
        BY <3>1, ApiMoveCall DEF CallLabels, Methods
    <2>3. CASE RefuseProp
      BY <2>3, ThrowCall DEF RefuseProp
    <2> QED
      BY <1>5, <2>1, <2>2, <2>3 DEF ControlStep
  <1>6. ASSUME NEW w \in Workers, WorkerStep(w) PROVE CallInv'
    <2>1. UNCHANGED call /\ \E l : Goto(w, l)
      BY <1>6 DEF WorkerStep, Loop, Check, ReportLoss, Poll, PropChanged,
                  NoMoreProps, HandleException, Wake, WorkerJump, WorkerPush
    <2> QED
      BY <2>1, AsideCall, ConstantsAssumption DEF Goto, TypeOK
  <1>7. ASSUME NEW p \in Procs, Transaction(p) PROVE CallInv'
    <2>1. CASE p = API /\ Throw(API)
      BY <2>1, ThrowCall
    <2>2. CASE p = API /\ ~Throw(API) /\ ~Begin(p)
      <3>1. PICK r \in Outcomes : Finish(API, r)
        BY <1>7, <2>2 DEF Transaction, NotConnected
      <3>2. UNCHANGED call /\ pc[API] \in RequestLabels
            /\ \E di : \E l \in NextAt(pc[API], di) : Goto(API, l)
        BY <2>2, <3>1, FinishApi
      <3>3. PICK di : \E l \in NextAt(pc[API], di) : Goto(API, l)
        BY <3>2
      <3>4. PICK l \in NextAt(pc[API], di) : Goto(API, l)
        BY <3>3
      <3>5. pc[API] # "idle"
        BY <3>2 DEF RequestLabels, InfoLabels, InfoExLabels
      <3>6. pc[API] \in CallLabels[call] /\ call \in Methods
        <4>1. call \in Methods \cup {"none"}
          BY ConstantsAssumption DEF TypeOK, Methods
        <4> QED
          BY <3>5, <4>1 DEF CallInv, At, CallLabels, Methods
      <3>7. l \in CallLabels[call] \cup {"idle"}
        BY <3>2, <3>4, <3>6, NextAtCall
      <3> QED
        BY <3>2, <3>4, <3>5, <3>6, <3>7, ApiMoveCall DEF Goto, TypeOK
    <2>3. CASE p # API \/ Begin(p)
      <3>1. CASE Begin(p)
        BY <3>1, AsideCall DEF Begin
      <3>2. CASE NotConnected(p) /\ p # API
        <4>1. Throw(p)
          BY <3>2 DEF NotConnected
        <4> QED
          BY <3>2, <4>1, AsideCall DEF Throw, Goto, TypeOK
      <3>3. CASE p \in Workers /\ \E r \in Outcomes : Finish(p, r)
        BY <3>3, FinishWorker, AsideCall
      <3> QED
        BY <1>7, <2>3, <3>1, <3>2, <3>3 DEF Transaction
    <2> QED
      BY <2>1, <2>2, <2>3
  <1>8. CASE CamRunsAhead \/ ConnectionDrops \/ Pop \/ UNCHANGED vars
    BY <1>8, AsideCall DEF CamRunsAhead, ConnectionDrops, Pop, vars
  <1> QED
    BY <1>1, <1>2, <1>3, <1>4, <1>5, <1>6, <1>7, <1>8 DEF Next, CallStep

-----------------------------------------------------------------------------
(* Steps that are neither a request nor an answer.                         *)

\* They send and number nothing, they leave a request under way and the session
\* it belongs to alone, and of the camera they change at most the session, which
\* ends with the connection and the replies that are left on it.
Aside ==
    /\ UNCHANGED <<mutex, transactionId, sessionId>>
    /\ wire' \in {wire, <<>>}
    /\ mutex # NoThread => /\ UNCHANGED <<wire, isSessionOpen>>
                           /\ pc'[mutex] = pc[mutex]
    /\ isOpen => UNCHANGED link
    /\ isSessionOpen' => isSessionOpen
    /\ cam' \in {cam, CamDisconnected(cam)}
    /\ isOpen' => cam' = cam
    /\ isOpen' /\ ~isOpen => ~isSessionOpen' /\ pc'[API] \in {"number", "idle"}
    /\ pc'[API] \in {"openTxn", "opened"} => pc'[API] = pc[API]
    /\ pc[API] \in {"closed", "dtorClosed"} =>
           ~isSessionOpen' \/ pc'[API] = pc[API]

\* Number and Opened apart, they are all such; those two happen while nobody has
\* a request under way.
LEMMA StepKinds ==
    ASSUME BaseInv, [Next]_vars
    PROVE  \/ \E p \in Procs : Begin(p)
           \/ \E p \in Procs, r \in Outcomes : Finish(p, r)
           \/ (Number \/ Opened) /\ mutex = NoThread
           \/ CamRunsAhead
           \/ Aside
  <1> USE DEF BaseInv
  <1>1. ASSUME pc[API] \in OpeningLabels \cup StoppedLabels, pc[API] \notin RequestLabels
        PROVE  mutex = NoThread
    <2>1. eventThread = NoThread /\ fresh = NoThread
      BY <1>1 DEF ThreadInv, OpeningLabels, StoppedLabels
    <2> QED
      BY <1>1, <2>1, NobodyWaits
  <1>2. ASSUME NEW c \in Calls, Call(c) PROVE Aside
    <2>1. pc'[API] = Entry(c) /\ pc[API] = "idle"
      BY <1>2 DEF Call, Goto, TypeOK, At
    <2>2. Entry(c) \notin {"openTxn", "opened"}
      BY ConstantsAssumption DEF Entry
    <2>3. mutex # NoThread => pc'[mutex] = pc[mutex]
      BY <1>2, AsideStep
    <2> QED
      BY <1>2, <2>1, <2>2, <2>3 DEF Call, Aside
  <1>0. ASSUME \/ UNCHANGED <<wire, link, isOpen>>
               \/ wire' = Dropped /\ UNCHANGED link /\ isOpen' = FALSE
               \/ mutex = NoThread /\ ~isOpen /\ UNCHANGED wire
        PROVE  /\ wire' \in {wire, <<>>}
               /\ mutex # NoThread => UNCHANGED wire
               /\ isOpen => UNCHANGED link
    BY <1>0 DEF Dropped
  <1>3. CASE CallStep /\ ~Number /\ ~Opened
    <2>1. UNCHANGED mutex /\ (mutex # NoThread => pc'[mutex] = pc[mutex])
          /\ wire' \in {wire, <<>>} /\ (mutex # NoThread => UNCHANGED wire)
          /\ (isOpen => UNCHANGED link)
      BY <1>0, <1>3, AsideStep
    <2>2. CASE OpenTransport \/ OpenTransportFails
      <3>1. pc[API] = "openTransport" /\ pc'[API] \in {"number", "idle"}
            /\ UNCHANGED <<transactionId, sessionVars, cam>>
        BY <2>2 DEF OpenTransport, OpenTransportFails, Throw, Goto, At, TypeOK,
                    VendorDestroyed, DestructorLabels
      <3>2. ~isSessionOpen
        BY <3>1 DEF ThreadInv, OpeningLabels
      <3> QED
        BY <2>1, <3>1, <3>2 DEF Aside
    <2>3. CASE Closed \/ CloseTransport
      <3>1. pc[API] \in {"closed", "dtorClosed", "closeTransport"}
            /\ pc'[API] \in {"closeTransport", "dtorTransport", "pushDisconnect"}
        BY <2>3 DEF Closed, CloseTransport, Goto, At, TypeOK
      <3>2. mutex = NoThread
        BY <1>1, <3>1 DEF StoppedLabels, RequestLabels, InfoLabels, InfoExLabels
      <3>3. isSessionOpen' = FALSE /\ (isOpen' => isOpen)
            /\ UNCHANGED <<transactionId, sessionId>>
            /\ cam' \in {cam, CamDisconnected(cam)} /\ (isOpen' => cam' = cam)
        BY <2>3 DEF Closed, CloseTransport
      <3> QED
        BY <2>1, <3>1, <3>2, <3>3 DEF Aside
    <2>4. CASE /\ ~OpenTransport /\ ~OpenTransportFails
               /\ ~Closed /\ ~CloseTransport
      <3>1. UNCHANGED <<transactionId, sessionVars>>
            /\ cam' \in {cam, CamDisconnected(cam)} /\ (isOpen' => cam' = cam)
            /\ (isOpen' => isOpen)
            /\ pc[API] \notin {"closed", "dtorClosed"}
        BY <1>3, <2>4
        DEF CallStep, ConnectStep, DisconnectStep, DestroyStep, ControlStep, Open,
            CheckModel, Invalidate, Swap, SwapJoin, PushConnect, Spawn,
            StopEventThread, JoinEventThread, Close, PushDisconnect, DtorStop,
            DtorJoin, DtorClose, DtorTransport, ChooseRelease, SendProp,
            RefuseProp, Jump, RequestStop, Join, PushAndReturn, At
      <3>2. pc'[API] \notin {"openTxn", "opened"}
        <4>1. CASE \/ SwapJoin \/ JoinEventThread \/ DtorJoin
                   \/ \E w \in Workers : Spawn(w)
          BY <4>1, ConstantsAssumption
          DEF SwapJoin, JoinEventThread, DtorJoin, Join, Spawn, TypeOK, AfterStop
        <4>2. CASE /\ ~SwapJoin /\ ~JoinEventThread /\ ~DtorJoin
                   /\ ~\E w \in Workers : Spawn(w)
          <5>1. \E l : l \notin {"openTxn", "opened"} /\ Goto(API, l)
            BY <1>3, <2>4, <4>2
            DEF CallStep, ConnectStep, DisconnectStep, DestroyStep, ControlStep,
                Open, CheckModel, Invalidate, Swap, PushConnect, StopEventThread,
                Close, PushDisconnect, DtorStop, DtorClose, DtorTransport,
                ChooseRelease, SendProp, RefuseProp, Jump, RequestStop,
                PushAndReturn, Throw, AfterOpenSession, AfterStop
          <5> QED
            BY <5>1 DEF Goto, TypeOK
        <4> QED
          BY <4>1, <4>2
      <3> QED
        BY <2>1, <3>1, <3>2 DEF Aside
    <2> QED
      BY <2>2, <2>3, <2>4
  <1>4. CASE Number \/ Opened
    <2>1. pc[API] \in {"number", "opened"}
      BY <1>4 DEF Number, Opened, At
    <2>2. mutex = NoThread
      BY <1>1, <2>1 DEF OpeningLabels, RequestLabels, InfoLabels, InfoExLabels
    <2> QED
      BY <1>4, <2>2
  <1>5. ASSUME NEW w \in Workers, WorkerStep(w) PROVE Aside
    <2>1. UNCHANGED <<transactionId, sessionVars, cam, isOpen>> /\ \E l : Goto(w, l)
      BY <1>5 DEF WorkerStep, Loop, Check, ReportLoss, Poll, PropChanged,
                  NoMoreProps, HandleException, Wake, WorkerJump, WorkerPush
    <2>2. pc'[API] = pc[API]
      BY <2>1, ConstantsAssumption DEF Goto, TypeOK
    <2>3. UNCHANGED mutex /\ (mutex # NoThread => pc'[mutex] = pc[mutex])
          /\ wire' \in {wire, <<>>} /\ (mutex # NoThread => UNCHANGED wire)
          /\ (isOpen => UNCHANGED link)
      BY <1>0, <1>5, AsideStep
    <2> QED
      BY <2>1, <2>2, <2>3 DEF Aside
  <1>6. ASSUME NEW p \in Procs, NotConnected(p) PROVE Aside
    <2>1. UNCHANGED <<mutex, wire, transactionId, link, sessionVars, cam, isOpen>>
          /\ mutex = NoThread
      BY <1>6 DEF NotConnected
    <2>2. pc'[API] \in {pc[API], "idle", "dtorTransport"}
      BY <1>6, ConstantsAssumption DEF NotConnected, Throw, Goto, TypeOK
    <2>3. pc[API] \in {"closed", "dtorClosed"} => pc'[API] = pc[API]
      BY <1>6, ConstantsAssumption
      DEF NotConnected, Requesting, Throw, Goto, TypeOK, RequestLabels,
          InfoLabels, InfoExLabels
    <2> QED
      BY <2>1, <2>2, <2>3 DEF Aside
  <1>7. CASE ConnectionDrops \/ Pop \/ UNCHANGED vars
    BY <1>7 DEF ConnectionDrops, Dropped, Pop, vars, Aside
  <1> QED
    BY <1>2, <1>3, <1>4, <1>5, <1>6, <1>7 DEF Next, Transaction

-----------------------------------------------------------------------------
(* The request under way and the session's numbers: RequestInv, TidInv.    *)

\* Who finishes holds the mutex, and its request is the last; on a connection in
\* step it is the only one, and unanswered.
LEMMA FinishHolds ==
    ASSUME TypeOK, TxnInv, NEW p \in Procs, NEW r \in Outcomes, Finish(p, r)
    PROVE  /\ mutex = p /\ mutex # NoThread /\ mutex' = NoThread
           /\ pc[p] \in RequestLabels
           /\ Head(wire) \in Request /\ CamAnswers(Head(wire), r)
           /\ link # "outOfStep" => /\ Head(wire) = wire[Len(wire)]
                                    /\ Head(wire).by = p /\ Head(wire).reply = "none"
  <1>1. /\ mutex = p /\ mutex # NoThread /\ wire # <<>> /\ wire[Len(wire)].by = p
        /\ \A i \in 1..Len(wire) - 1 : wire[i].by = NoThread
        /\ pc[p] \in RequestLabels
    BY Waiter DEF Finish
  <1>2. /\ wire \in Seq(Request) /\ Len(wire) \in Nat /\ Len(wire) # 0
        /\ DOMAIN wire = 1..Len(wire) /\ Head(wire) = wire[1]
    BY <1>1, EmptySeq DEF TypeOK
  <1>3. link # "outOfStep" => Len(wire) = 1 /\ wire[1].reply = "none"
    BY <1>1, <1>2 DEF TxnInv
  <1>4. mutex' = NoThread /\ CamAnswers(Head(wire), r)
    BY DEF Finish
  <1> QED
    BY <1>1, <1>2, <1>3, <1>4

\* Who begins has the mutex for itself, and its request is the last.
LEMMA BeginHolds ==
    ASSUME TypeOK, TxnInv, NEW p \in Procs, Begin(p)
    PROVE  /\ mutex = NoThread /\ mutex' = p /\ p # NoThread /\ pc' = pc
           /\ wire'[Len(wire')] = RequestOf(p)
           /\ RequestOf(p).op = OpAt(pc[p])
           /\ RequestOf(p).op = "OpenSession" => RequestOf(p).session = sessionId
  <1>1. mutex = NoThread /\ mutex' = p /\ p # NoThread /\ pc' = pc
        /\ wire' = Append(wire, RequestOf(p))
    BY ConstantsAssumption DEF Begin
  <1>2. wire'[Len(wire')] = RequestOf(p)
    BY <1>1, BeginType DEF TypeOK
  <1>3. /\ RequestOf(p).op = OpAt(pc[p])
        /\ OpAt(pc[p]) = "OpenSession" => RequestOf(p).session = sessionId
    BY DEF RequestOf
  <1> QED
    BY <1>1, <1>2, <1>3

\* Every step keeps RequestInv.
LEMMA RequestNext == BaseInv /\ RequestInv /\ [Next]_vars => RequestInv'
  <1> SUFFICES ASSUME BaseInv, RequestInv, [Next]_vars PROVE RequestInv'
    OBVIOUS
  <1>1. ASSUME NEW p \in Procs, Begin(p) PROVE RequestInv'
    <2>1. UNCHANGED <<sessionId, pc>>
      BY <1>1 DEF Begin
    <2> QED
      BY <1>1, <2>1, BeginHolds DEF BaseInv, RequestInv
  <1>2. ASSUME NEW p \in Procs, NEW r \in Outcomes, Finish(p, r) PROVE RequestInv'
    BY <1>2 DEF Finish, RequestInv
  <1>3. CASE (Number \/ Opened) /\ mutex = NoThread
    BY <1>3 DEF Number, Opened, RequestInv
  <1>4. CASE CamRunsAhead
    <2>1. PICK i \in DOMAIN wire, r \in {"ok", "refused"} \cap Outcomes :
              wire' = [wire EXCEPT ![i] = [by |-> wire[i].by, op |-> "replied",
                                           session |-> NoSession, reply |-> r]]
      BY <1>4 DEF CamRunsAhead
    <2>2. UNCHANGED <<mutex, pc, sessionId>>
      BY <1>4 DEF CamRunsAhead
    <2>3. wire \in Seq(Request) /\ Len(wire') = Len(wire) /\ DOMAIN wire = 1..Len(wire)
          /\ Len(wire) \in Nat
      BY <2>1 DEF BaseInv, TypeOK
    <2>4. CASE i = Len(wire)
      <3>1. wire'[Len(wire')].reply # "none"
        BY <2>1, <2>3, <2>4
      <3> QED
        BY <3>1 DEF RequestInv
    <2>5. CASE i # Len(wire)
      <3>1. wire'[Len(wire')] = wire[Len(wire)]
        BY <2>1, <2>3, <2>5
      <3> QED
        BY <2>2, <3>1 DEF RequestInv
    <2> QED
      BY <2>4, <2>5
  <1>5. CASE Aside
    <2>1. mutex # NoThread => UNCHANGED <<mutex, wire, sessionId>> /\ pc'[mutex] = pc[mutex]
      BY <1>5 DEF Aside
    <2>2. UNCHANGED mutex
      BY <1>5 DEF Aside
    <2> QED
      BY <2>1, <2>2 DEF RequestInv
  <1> QED
    BY <1>1, <1>2, <1>3, <1>4, <1>5, StepKinds

\* Only one label sends OpenSession, and only its answer leads to "opened".
LEMMA OpensAt ==
    ASSUME NEW k \in RequestLabels
    PROVE  /\ OpAt(k) = "OpenSession" <=> k = "openTxn"
           /\ \A di : \A l \in NextAt(k, di) :
                (l = "opened" <=> k = "openTxn") /\ l # "openTxn"
  <1>1. OpAt(k) = "OpenSession" <=> k = "openTxn"
    BY SMTT(60) DEF OpAt, InfoLabels, InfoExLabels
  <1>2. ASSUME NEW di, NEW l \in NextAt(k, di)
        PROVE  (l = "opened" <=> k = "openTxn") /\ l # "openTxn"
    <2>1. CASE k \in InfoLabels
      BY <1>2, <2>1, NextAtInfo DEF InfoLabels
    <2>2. CASE k \in InfoExLabels
      BY <1>2, <2>2, NextAtInfoEx
    <2>3. CASE k \notin InfoLabels \cup InfoExLabels
      BY <1>2, <2>3, NextAtOther
    <2> QED
      BY <2>1, <2>2, <2>3
  <1> QED
    BY <1>1, <1>2

\* An answer changes nothing of the transaction id the camera was sent last.
LEMMA AnswersTid ==
    ASSUME TypeOK, NEW req, NEW r, CamAnswers(req, r)
    PROVE  cam'.tid = cam.tid
  <1>1. CamExecute(req).tid = cam.tid
    BY DEF CamExecute, TypeOK
  <1>2. CamDisconnected(cam).tid = cam.tid /\ CamDisconnected(CamExecute(req)).tid = cam.tid
    BY DEF CamDisconnected, CamExecute, TypeOK
  <1>3. \/ cam' = cam \/ cam' = CamDisconnected(cam) \/ cam' = CamExecute(req)
        \/ cam' = CamDisconnected(CamExecute(req))
    BY DEF CamAnswers
  <1> QED
    BY <1>1, <1>2, <1>3

\* Where an answer takes the caller: to "opened" from openTxn with OK only.
LEMMA FinishOpens ==
    ASSUME TypeOK, TxnInv, NEW p \in Procs, NEW r \in Outcomes, Finish(p, r)
    PROVE  /\ pc'[API] = "opened" => \/ pc[API] = "opened"
                                     \/ p = API /\ pc[API] = "openTxn" /\ r = "ok"
           /\ pc'[API] = "openTxn" => pc[API] = "openTxn"
           /\ p # API => pc'[API] = pc[API]
           /\ p = API /\ r # "ok" => pc'[API] \in {"idle", "dtorTransport"}
  <1>1. CASE p \in Workers
    BY <1>1, FinishWorker, ConstantsAssumption
  <1>2. CASE p = API /\ r = "ok"
    <2>1. Finish(API, r)
      BY <1>2
    <2>2. pc[API] \in RequestLabels /\ \E di : \E l \in NextAt(pc[API], di) : Goto(API, l)
      BY <1>2, <2>1, FinishApi
    <2>3. PICK di : \E l \in NextAt(pc[API], di) : Goto(API, l)
      BY <2>2
    <2>4. PICK l \in NextAt(pc[API], di) : Goto(API, l)
      BY <2>3
    <2>5. pc'[API] = l
      BY <2>4 DEF Goto, TypeOK
    <2> QED
      BY <1>2, <2>2, <2>4, <2>5, OpensAt
  <1>3. CASE p = API /\ r # "ok"
    <2>1. Throw(API)
      BY <1>3, FinishApi
    <2>2. pc'[API] \in {"idle", "dtorTransport"}
      BY <2>1 DEF Throw, Goto, TypeOK
    <2> QED
      BY <1>3, <2>2
  <1> QED
    BY <1>1, <1>2, <1>3

\* What a step of one kind or another does to the transaction ids: only a request
\* that is sent uses one.
LEMMA TidsStay ==
    ASSUME BaseInv, [Next]_vars, ~\E p \in Procs : Begin(p)
    PROVE  cam'.tid = cam.tid /\ Len(wire') <= Len(wire)
  <1> USE DEF BaseInv
  <1>0. wire \in Seq(Request) /\ Len(wire) \in Nat
    BY DEF TypeOK
  <1>1. ASSUME NEW p \in Procs, NEW r \in Outcomes, Finish(p, r)
        PROVE  cam'.tid = cam.tid /\ Len(wire') <= Len(wire)
    <2>1. cam'.tid = cam.tid
      BY <1>1, FinishHolds, AnswersTid
    <2>2. Left(p) \in Seq(Request) /\ Len(Left(p)) = Len(wire) /\ Len(wire) # 0
      BY <1>0, <1>1, LeftType, Waiter, EmptySeq DEF Finish
    <2>3. Len(Tail(Left(p))) = Len(wire) - 1
      BY <1>0, <2>2, EmptySeq, HeadTailProperties
    <2>4. wire' \in {<<>>, Left(p), Tail(Left(p))}
      BY <1>1 DEF Finish
    <2> QED
      BY <1>0, <2>1, <2>2, <2>3, <2>4
  <1>2. CASE Number \/ Opened
    BY <1>0, <1>2 DEF Number, Opened
  <1>3. CASE CamRunsAhead
    <2>1. PICK i \in DOMAIN wire, r \in {"ok", "refused"} \cap Outcomes :
              /\ CamAnswers(wire[i], r)
              /\ wire' = [wire EXCEPT ![i] = [by |-> wire[i].by, op |-> "replied",
                                              session |-> NoSession, reply |-> r]]
      BY <1>3 DEF CamRunsAhead
    <2>2. Len(wire') = Len(wire)
      BY <1>0, <2>1
    <2>3. cam'.tid = cam.tid
      BY <2>1, AnswersTid
    <2> QED
      BY <1>0, <2>2, <2>3
  <1>4. CASE Aside
    <2>1. cam'.tid = cam.tid
      BY <1>4 DEF Aside, CamDisconnected, TypeOK
    <2>2. wire' \in {wire, <<>>}
      BY <1>4 DEF Aside
    <2> QED
      BY <1>0, <2>1, <2>2
  <1> QED
    BY <1>1, <1>2, <1>3, <1>4, StepKinds

\* Every step keeps TidInv.
LEMMA TidNext == BaseInv /\ TidInv /\ [Next]_vars => TidInv'
  <1> SUFFICES ASSUME BaseInv, TidInv, [Next]_vars PROVE TidInv'
    OBVIOUS
  <1> USE DEF BaseInv
  <1>0. 1 % TidModulus = 1 /\ TidModulus \in Nat \ {0}
    <2>1. TidModulus \in Nat \ {0, 1}
      BY ConstantsAssumption
    <2>2. 1 % TidModulus = 1
      BY ONLY <2>1
    <2> QED
      BY <2>1, <2>2
  <1>1. pc[API] \in {"openTxn", "opened"} => ~isSessionOpen /\ eventThread = NoThread
                                             /\ fresh = NoThread
    BY DEF ThreadInv, OpeningLabels
  <1>2. pc[API] = "opened" => mutex = NoThread
    BY <1>1, NobodyWaits DEF RequestLabels, InfoLabels, InfoExLabels
  <1>3. ASSUME NEW p \in Procs, Begin(p) PROVE TidInv'
    <2>1. UNCHANGED <<isSessionOpen, pc>>
          /\ transactionId' = IF isSessionOpen THEN (transactionId + 1) % TidModulus
                              ELSE transactionId
      BY <1>3 DEF Begin
    <2>2. cam'.tid = IF isSessionOpen THEN transactionId ELSE 0
      BY <1>3 DEF Begin, TidToSend, TypeOK
    <2>3. pc[API] # "opened"
      <3>1. pc[API] = "opened" => \A w \in Workers : pc[w] = "none"
        BY <1>1, ConstantsAssumption DEF ThreadInv
      <3> QED
        BY <1>3, <3>1 DEF Begin, Requesting, RequestLabels, InfoLabels, InfoExLabels
    <2> QED
      BY <1>0, <1>1, <2>1, <2>2, <2>3 DEF TidInv, At
  <1>5. ASSUME NEW p \in Procs, NEW r \in Outcomes, Finish(p, r) PROVE TidInv'
    <2>1. UNCHANGED <<isSessionOpen, transactionId>>
      BY <1>5 DEF Finish
    <2>2. mutex = p /\ mutex # NoThread /\ mutex' = NoThread /\ cam'.tid = cam.tid
      BY <1>5, FinishHolds, AnswersTid
    <2>3. pc[API] # "opened"
      BY <1>2, <2>2
    <2>4. /\ pc'[API] = "opened" => p = API /\ pc[API] = "openTxn"
          /\ pc'[API] = "openTxn" => pc[API] = "openTxn"
      BY <1>5, <2>3, FinishOpens
    <2> QED
      BY <2>1, <2>2, <2>4, ConstantsAssumption DEF TidInv, At
  <1>6. CASE Number /\ mutex = NoThread
    <2>1. pc'[API] = "openTxn" /\ transactionId' = 1 /\ isSessionOpen' = isSessionOpen
          /\ pc[API] = "number" /\ mutex' = NoThread
      BY <1>6 DEF Number, Goto, At, TypeOK
    <2>2. ~isSessionOpen
      BY <2>1 DEF ThreadInv, OpeningLabels
    <2> QED
      BY <2>1, <2>2, ConstantsAssumption DEF TidInv, At
  <1>7. CASE Opened
    <2>1. pc[API] = "opened" /\ pc'[API] = AfterOpenSession
          /\ UNCHANGED <<transactionId, cam>>
      BY <1>7 DEF Opened, Goto, At, TypeOK
    <2>2. pc'[API] \notin {"openTxn", "opened"}
      BY <2>1 DEF AfterOpenSession
    <2> QED
      BY <2>1, <2>2 DEF TidInv, At
  <1>8. CASE CamRunsAhead
    <2>1. UNCHANGED <<pc, isSessionOpen, mutex, transactionId>>
      BY <1>8 DEF CamRunsAhead
    <2>2. cam'.tid = cam.tid
      BY <1>8, AnswersTid DEF CamRunsAhead
    <2> QED
      BY <2>1, <2>2 DEF TidInv, At
  <1>9. CASE Aside
    <2>1. cam'.tid = cam.tid
      BY <1>9 DEF Aside, CamDisconnected, TypeOK
    <2>2. /\ UNCHANGED <<transactionId, mutex>> /\ (isSessionOpen' => isSessionOpen)
          /\ pc'[API] \in {"openTxn", "opened"} => pc'[API] = pc[API]
      BY <1>9 DEF Aside
    <2> QED
      BY <2>1, <2>2 DEF TidInv, At
  <1> QED
    BY <1>3, <1>5, <1>6, <1>7, <1>8, <1>9, StepKinds

-----------------------------------------------------------------------------
(* The shutter: CaptureInv.                                                *)

\* Only a request for it presses the shutter, on a camera that has it; one to
\* release it, executed, releases it.
LEMMA AnswersShutter ==
    ASSUME TypeOK, NEW req, NEW r, CamAnswers(req, r)
    PROVE  /\ cam'.shutter => cam.shutter \/ (req.op = "EOSRemoteReleaseOn" /\ HoldsShutter)
           /\ r = "ok" /\ req.reply = "none" /\ req.op = "EOSRemoteReleaseOff"
                => ~cam'.shutter
  <1>1. /\ CamExecute(req).shutter => cam.shutter \/ req.op = "EOSRemoteReleaseOn"
        /\ req.op = "EOSRemoteReleaseOff" => ~CamExecute(req).shutter
    BY DEF CamExecute, TypeOK
  <1>2. /\ CamDisconnected(cam).shutter = cam.shutter
        /\ CamDisconnected(CamExecute(req)).shutter = CamExecute(req).shutter
    BY DEF CamDisconnected, CamExecute, TypeOK
  <1>3. \/ cam' = cam \/ cam' = CamDisconnected(cam)
        \/ /\ CamAccepts(req)
           /\ cam' \in {CamExecute(req), CamDisconnected(CamExecute(req))}
    BY DEF CamAnswers
  <1>4. CamAccepts(req) /\ req.op = "EOSRemoteReleaseOn" => HoldsShutter
    BY DEF CamAccepts, HoldsShutter
  <1>5. r = "ok" /\ req.reply = "none" => cam' = CamExecute(req)
    BY DEF CamAnswers
  <1> QED
    BY <1>1, <1>2, <1>3, <1>4, <1>5

\* On a connection in step the request is that of releaseOn, or of releaseOff.
LEMMA FinishShutter ==
    ASSUME TypeOK, TxnInv, RequestInv, cam.shutter => HoldsShutter,
           NEW p \in Procs, NEW r \in Outcomes, Finish(p, r)
    PROVE  /\ cam'.shutter => HoldsShutter
           /\ link' # "outOfStep" =>
                /\ link # "outOfStep"
                /\ cam'.shutter => cam.shutter \/ pc[p] = "releaseOn"
                /\ r = "ok" /\ pc[p] = "releaseOff" => ~cam'.shutter
  <1>1. CamAnswers(Head(wire), r) /\ mutex = p /\ mutex # NoThread
        /\ pc[p] \in RequestLabels
        /\ (link # "outOfStep" => Head(wire) = wire[Len(wire)] /\ Head(wire).reply = "none")
    BY FinishHolds
  <1>2. /\ OpAt(pc[p]) = "EOSRemoteReleaseOn" => pc[p] = "releaseOn"
        /\ pc[p] = "releaseOff" => OpAt(pc[p]) = "EOSRemoteReleaseOff"
    BY SMTT(60) DEF OpAt, InfoLabels, InfoExLabels
  <1>3. link # "outOfStep" => Head(wire).op = OpAt(pc[p])
    BY <1>1 DEF RequestInv
  <1>4. link' # "outOfStep" => link # "outOfStep"
    BY DEF Finish
  <1> QED
    BY <1>1, <1>2, <1>3, <1>4, AnswersShutter

\* Which steps of a call lead to the release labels, and which end it.
LEMMA CallStepCapture ==
    ASSUME TypeOK, CallStep
    PROVE  /\ pc'[API] # "releaseOff"
           /\ pc'[API] \in {"releaseOn", "release"} => ChooseRelease
           /\ pc'[API] = "idle" => threw' \/ pc[API] \in {"pushConnect", "pushDisconnect"}
           /\ UNCHANGED call /\ cam'.shutter = cam.shutter
  <1>1. UNCHANGED call /\ cam'.shutter = cam.shutter
    BY DEF CallStep, ConnectStep, DisconnectStep, DestroyStep, ControlStep, Open,
           OpenTransport, OpenTransportFails, Number, Opened, CheckModel,
           Invalidate, Swap, SwapJoin, PushConnect, Spawn, StopEventThread,
           JoinEventThread, Close, Closed, CloseTransport, PushDisconnect,
           DtorStop, DtorJoin, DtorClose, DtorTransport, ChooseRelease, SendProp,
           RefuseProp, Jump, RequestStop, Join, PushAndReturn, Throw,
           CamDisconnected, TypeOK
  <1>2. CASE \/ SwapJoin \/ JoinEventThread \/ DtorJoin
             \/ \E w \in Workers : Spawn(w)
    BY <1>1, <1>2, ConstantsAssumption
    DEF SwapJoin, JoinEventThread, DtorJoin, Join, Spawn, TypeOK, AfterStop
  <1>3. CASE PushConnect \/ PushDisconnect
    BY <1>1, <1>3 DEF PushConnect, PushDisconnect, PushAndReturn, At, Goto, TypeOK
  <1>4. CASE ChooseRelease
    BY <1>1, <1>4 DEF ChooseRelease, Jump, Goto, TypeOK
  <1>5. CASE Throw(API)
    BY <1>1, <1>5 DEF Throw, Goto, TypeOK
  <1>6. CASE /\ ~SwapJoin /\ ~JoinEventThread /\ ~DtorJoin /\ ~PushConnect
             /\ ~PushDisconnect /\ ~ChooseRelease /\ ~Throw(API)
             /\ ~\E w \in Workers : Spawn(w)
    <2>1. \E l : l \notin {"releaseOn", "releaseOff", "release", "idle"} /\ Goto(API, l)
      BY <1>6
      DEF CallStep, ConnectStep, DisconnectStep, DestroyStep, ControlStep, Open,
          OpenTransport, OpenTransportFails, Number, Opened, CheckModel,
          Invalidate, Swap, StopEventThread, Close, Closed, CloseTransport,
          DtorStop, DtorClose, DtorTransport, SendProp, RefuseProp, Jump,
          RequestStop, AfterOpenSession, AfterStop
    <2> QED
      BY <1>1, <2>1 DEF Goto, TypeOK
  <1> QED
    BY <1>2, <1>3, <1>4, <1>5, <1>6

\* Every step keeps CaptureInv.
LEMMA CaptureNext ==
    BaseInv /\ CallInv /\ RequestInv /\ CaptureInv /\ [Next]_vars => CaptureInv'
  <1> SUFFICES ASSUME BaseInv, CallInv, RequestInv, CaptureInv, [Next]_vars
               PROVE  CaptureInv'
    OBVIOUS
  <1> USE DEF BaseInv
  <1>1. ASSUME NEW c \in Calls, Call(c) PROVE CaptureInv'
    <2>1. pc'[API] = Entry(c) /\ call' = c /\ UNCHANGED <<cam, cachedDI>>
      BY <1>1 DEF Call, Goto, TypeOK
    <2>2. /\ Entry(c) \notin {"releaseOn", "releaseOff", "release"}
          /\ c = "capture" /\ IsCanon => Entry(c) = "capInfo"
      BY ConstantsAssumption DEF Entry
    <2> QED
      BY <2>1, <2>2 DEF CaptureInv, CaptureReleases, At
  <1>2. CASE CallStep
    <2>1. CASE ChooseRelease
      <3>1. PICK on \in Lists(cachedDI, HoldsShutter) :
                pc'[API] = IF on THEN "releaseOn" ELSE "release"
        BY <2>1 DEF ChooseRelease, Jump, Goto, TypeOK
      <3>2. cachedDI = "own" => on = HoldsShutter
        BY <3>1 DEF Lists
      <3>3. UNCHANGED <<cachedDI, cam>>
        BY <2>1 DEF ChooseRelease, Jump
      <3> QED
        BY <3>1, <3>2, <3>3 DEF CaptureInv, CaptureReleases, At
    <2>2. CASE ~ChooseRelease
      <3>1. pc[API] \in {"pushConnect", "pushDisconnect"} => call # "capture"
        BY DEF CallInv, CallLabels, At
      <3> QED
        BY <1>2, <2>2, <3>1, CallStepCapture DEF CaptureInv, CaptureReleases, At
    <2> QED
      BY <2>1, <2>2
  <1>3. ASSUME NEW w \in Workers, WorkerStep(w) PROVE CaptureInv'
    <2>1. UNCHANGED <<call, threw, cam, link, cachedDI>> /\ \E l : Goto(w, l)
      BY <1>3 DEF WorkerStep, Loop, Check, ReportLoss, Poll, PropChanged,
                  NoMoreProps, HandleException, Wake, WorkerJump, WorkerPush
    <2>2. pc'[API] = pc[API]
      BY <2>1, ConstantsAssumption DEF Goto, TypeOK
    <2> QED
      BY <2>1, <2>2 DEF CaptureInv, CaptureReleases, At
  <1>4. ASSUME NEW p \in Procs, Begin(p) PROVE CaptureInv'
    <2>1. UNCHANGED <<pc, call, threw, link, cachedDI>> /\ cam'.shutter = cam.shutter
      BY <1>4 DEF Begin, TypeOK
    <2> QED
      BY <2>1 DEF CaptureInv, CaptureReleases, At
  <1>5. ASSUME NEW p \in Procs, NotConnected(p) PROVE CaptureInv'
    <2>1. Throw(p) /\ UNCHANGED <<cam, link, cachedDI>>
      BY <1>5 DEF NotConnected
    <2>2. CASE p = API
      BY <2>1, <2>2 DEF Throw, Goto, TypeOK, CaptureInv, CaptureReleases, At
    <2>3. CASE p \in Workers
      <3>1. pc'[API] = pc[API] /\ threw' = threw /\ call' = call
        BY <2>1, <2>3, ConstantsAssumption DEF Throw, Goto, TypeOK
      <3> QED
        BY <2>1, <3>1 DEF CaptureInv, CaptureReleases, At
    <2> QED
      BY <2>2, <2>3
  <1>6. ASSUME NEW p \in Procs, NEW r \in Outcomes, Finish(p, r) PROVE CaptureInv'
    <2>1. /\ pc[p] \in RequestLabels
          /\ cam'.shutter => HoldsShutter
          /\ link' # "outOfStep" =>
                /\ link # "outOfStep"
                /\ cam'.shutter => cam.shutter \/ pc[p] = "releaseOn"
                /\ r = "ok" /\ pc[p] = "releaseOff" => ~cam'.shutter
      BY <1>6, FinishHolds, FinishShutter DEF CaptureInv
    <2>2. CASE p \in Workers
      <3>1. pc[p] # "releaseOn"
        BY <2>2 DEF TypeOK, WorkerLabels
      <3>2. pc'[API] = pc[API] /\ UNCHANGED <<callVars, cachedDI>>
        BY <1>6, <2>2, FinishWorker
      <3> QED
        BY <2>1, <3>1, <3>2 DEF CaptureInv, CaptureReleases, At
    <2>3. CASE p = API /\ r = "ok"
      <3>0. PICK di \in {"none", "own", "other"} : \E l \in NextAt(pc[API], di) :
                /\ Goto(API, l)
                /\ di = cachedDI \/ pc[API] \in InfoLabels \cup InfoExLabels
                /\ cachedDI' = IF l \in InfoExLabels THEN cachedDI ELSE di
        BY <1>6, <2>3, FinishMoves
      <3>1. PICK l \in NextAt(pc[API], di) :
                /\ Goto(API, l)
                /\ di = cachedDI \/ pc[API] \in InfoLabels \cup InfoExLabels
                /\ cachedDI' = IF l \in InfoExLabels THEN cachedDI ELSE di
        BY <3>0
      <3>2. /\ l \notin {"releaseOn", "release"}
            /\ l = "releaseOff" => pc[API] = "releaseOn"
            /\ l = "idle" /\ pc[API] \in CallLabels["capture"]
                 => pc[API] \in {"releaseOff", "release"}
        <4>1. CASE pc[API] \in InfoLabels
          BY <3>1, <4>1, NextAtInfo DEF InfoLabels
        <4>2. CASE pc[API] \in InfoExLabels
          BY <3>1, <4>2, NextAtInfoEx
        <4>3. CASE pc[API] \notin InfoLabels \cup InfoExLabels
          BY <2>1, <2>3, <3>1, <4>3, NextAtOther DEF CallLabels
        <4> QED
          BY <4>1, <4>2, <4>3
      <3>3. call = "capture" => pc[API] \in CallLabels["capture"]
        BY <2>1, <2>3 DEF CallInv, At, RequestLabels, InfoLabels, InfoExLabels
      <3>4. pc'[API] = l /\ UNCHANGED <<call, threw>>
        BY <1>6, <2>3, <3>1, FinishMoves DEF Goto, TypeOK
      <3>5. pc[API] = "release" => cachedDI' = cachedDI
        BY <3>1 DEF InfoLabels, InfoExLabels
      <3>6. CaptureReleases'
        <4> SUFFICES ASSUME l = "idle", call = "capture", link' # "outOfStep",
                            cachedDI' = "own"
                     PROVE  ~cam'.shutter
          BY <3>4 DEF CaptureReleases, At
        <4> QED
          BY <2>1, <2>3, <3>2, <3>3, <3>5 DEF CaptureInv, At
      <3> QED
        BY <2>1, <3>2, <3>4, <3>6 DEF CaptureInv, At
    <2>4. CASE p = API /\ r # "ok"
      <3>1. Throw(API)
        BY <1>6, <2>4, FinishMoves
      <3>2. /\ pc'[API] = "dtorTransport" \/ (pc'[API] = "idle" /\ threw')
        BY <3>1 DEF Throw, Goto, TypeOK
      <3> QED
        BY <2>1, <3>2 DEF CaptureInv, CaptureReleases, At
    <2> QED
      BY <2>2, <2>3, <2>4
  <1>7. CASE ConnectionDrops \/ Pop \/ UNCHANGED vars
    <2>1. UNCHANGED <<pc, call, threw, link, cachedDI>> /\ cam'.shutter = cam.shutter
      BY <1>7 DEF ConnectionDrops, Pop, vars, CamDisconnected, TypeOK
    <2> QED
      BY <2>1 DEF CaptureInv, CaptureReleases, At
  <1>8. CASE CamRunsAhead
    <2>1. wire # <<>> /\ Head(wire).by = NoThread /\ wire \in Seq(Request)
          /\ UNCHANGED <<pc, call, threw, link, cachedDI>>
      BY <1>8 DEF CamRunsAhead, TypeOK
    <2>2. link = "outOfStep"
      <3>1. Head(wire) = wire[1] /\ 1 \in DOMAIN wire
        BY <2>1, EmptySeq
      <3> QED
        BY <2>1, <3>1 DEF TxnInv
    <2>3. cam'.shutter => HoldsShutter
      BY <1>8, AnswersShutter DEF CamRunsAhead, CaptureInv
    <2> QED
      BY <2>1, <2>2, <2>3 DEF CaptureInv, CaptureReleases, At
  <1> QED
    BY <1>1, <1>2, <1>3, <1>4, <1>5, <1>6, <1>7, <1>8 DEF Next, Transaction

-----------------------------------------------------------------------------
(* The session on both sides: AgreementInv.                                *)

\* While the connection stays in step, and no CloseSession was done whose answer
\* failed, the camera's session changes where the object learns of it, or the
\* connection is lost, or the object throws before it takes the session for open.
LEMMA FinishSession ==
    ASSUME BaseInv, RequestInv, NEW p \in Procs, NEW r \in Outcomes, Finish(p, r),
           link' = "inStep"
    PROVE  \/ ~isOpen'
           \/ pc'[API] = "opened" /\ cam'.session = sessionId
           \/ pc'[API] \in {"closed", "dtorClosed"}
           \/ cam'.session = cam.session /\ pc'[API] # "opened"
           \/ ~isSessionOpen /\ pc'[API] # "opened"
  <1> USE DEF BaseInv
  <1>1. link = "inStep" /\ r # "unexpected"
        /\ ~(r = "garbled" /\ pc[p] \in {"closeTxn", "dtorCloseTxn"})
    BY DEF Finish
  <1>2. /\ pc[p] \in RequestLabels /\ CamAnswers(Head(wire), r)
        /\ Head(wire).op = OpAt(pc[p]) /\ Head(wire).reply = "none"
        /\ Head(wire).op = "OpenSession" => Head(wire).session = sessionId
    BY <1>1, FinishHolds DEF RequestInv
  <1>3. pc[p] # "recv" => p = API
    BY <1>2, LabelsOfThreads DEF TypeOK
  <1>4. pc[API] # "opened"
    <2>1. pc[API] = "opened" => eventThread = NoThread /\ fresh = NoThread
      BY DEF ThreadInv, OpeningLabels
    <2> QED
      BY <2>1, NobodyWaits, FinishHolds DEF RequestLabels, InfoLabels, InfoExLabels
  <1>5. pc'[API] = "opened" => p = API /\ pc[API] = "openTxn" /\ r = "ok"
    BY <1>4, FinishOpens
  <1>6. CASE r = "lost"
    BY <1>6 DEF Finish
  <1>7. CASE r = "refused"
    <2>1. cam'.session = cam.session
      BY <1>2, <1>7 DEF CamAnswers
    <2> QED
      BY <1>5, <1>7, <2>1
  <1>8. CASE r \in {"ok", "garbled"}
    <2>1. cam' = CamExecute(Head(wire))
      BY <1>2, <1>8 DEF CamAnswers
    <2>2. CASE pc[p] = "openTxn"
      <3>1. OpAt(pc[p]) = "OpenSession" /\ ~isSessionOpen
        BY <1>2, <1>3, <2>2, OpensAt DEF ThreadInv, OpeningLabels
      <3>2. cam'.session = sessionId
        BY <1>2, <2>1, <3>1 DEF CamExecute, TypeOK
      <3> QED
        BY <3>1, <3>2
    <2>3. CASE pc[p] \in {"closeTxn", "dtorCloseTxn"}
      <3>1. Finish(API, r) /\ r = "ok" /\ p = API
        BY <1>1, <1>3, <1>8, <2>3
      <3>2. \E di : \E l \in NextAt(pc[API], di) : Goto(API, l)
        BY <3>1, FinishApi
      <3>3. PICK di : \E l \in NextAt(pc[API], di) : Goto(API, l)
        BY <3>2
      <3>4. PICK l \in NextAt(pc[API], di) : Goto(API, l)
        BY <3>3
      <3>5. l \in {"closed", "dtorClosed"}
        BY <1>2, <2>3, <3>1, <3>4, NextAtOther DEF InfoLabels, InfoExLabels
      <3> QED
        BY <3>4, <3>5 DEF Goto, TypeOK
    <2>4. CASE pc[p] \notin {"openTxn", "closeTxn", "dtorCloseTxn"}
      <3>1. OpAt(pc[p]) \notin {"OpenSession", "CloseSession"}
        BY <2>4, SMTT(60) DEF OpAt
      <3>2. cam'.session = cam.session
        BY <1>2, <2>1, <3>1 DEF CamExecute, TypeOK
      <3> QED
        BY <1>3, <1>5, <2>4, <3>2
    <2> QED
      BY <2>2, <2>3, <2>4
  <1> QED
    BY <1>1, <1>6, <1>7, <1>8, ConstantsAssumption

\* Every step keeps AgreementInv.
LEMMA AgreementNext ==
    BaseInv /\ RequestInv /\ AgreementInv /\ [Next]_vars => AgreementInv'
  <1> SUFFICES ASSUME BaseInv, RequestInv, AgreementInv, [Next]_vars PROVE AgreementInv'
    OBVIOUS
  <1> USE DEF BaseInv
  <1>1. ASSUME NEW p \in Procs, Begin(p) PROVE AgreementInv'
    <2>1. UNCHANGED <<pc, link, isOpen, sessionVars>> /\ cam'.session = cam.session
      BY <1>1 DEF Begin, TypeOK
    <2> QED
      BY <2>1 DEF AgreementInv, SessionAgreement, At
  <1>2. ASSUME NEW p \in Procs, NEW r \in Outcomes, Finish(p, r) PROVE AgreementInv'
    <2>1. UNCHANGED sessionVars /\ (isOpen' => isOpen) /\ (link' = "inStep" => link = "inStep")
      BY <1>2 DEF Finish
    <2>2. pc[API] \notin {"closed", "dtorClosed"}
      <3>1. pc[API] \in {"closed", "dtorClosed"} => eventThread = NoThread /\ fresh = NoThread
        BY DEF ThreadInv, StoppedLabels
      <3> QED
        BY <1>2, <3>1, NobodyWaits, FinishHolds DEF RequestLabels, InfoLabels, InfoExLabels
    <2>3. link' = "inStep" =>
           \/ ~isOpen'
           \/ pc'[API] = "opened" /\ cam'.session = sessionId
           \/ pc'[API] \in {"closed", "dtorClosed"}
           \/ cam'.session = cam.session /\ pc'[API] # "opened"
           \/ ~isSessionOpen /\ pc'[API] # "opened"
      BY <1>2, FinishSession
    <2> QED
      BY <2>1, <2>2, <2>3 DEF AgreementInv, SessionAgreement, At
  <1>3. CASE Number
    <2>1. pc[API] = "number" /\ pc'[API] = "openTxn" /\ isSessionOpen' = isSessionOpen
      BY <1>3 DEF Number, Goto, At, TypeOK
    <2> QED
      BY <2>1 DEF ThreadInv, OpeningLabels, AgreementInv, SessionAgreement, At
  <1>4. CASE Opened
    <2>1. pc[API] = "opened" /\ pc'[API] = AfterOpenSession
          /\ UNCHANGED <<isOpen, sessionId, cam, link>>
      BY <1>4 DEF Opened, Goto, At, TypeOK
    <2> QED
      BY <2>1 DEF AfterOpenSession, AgreementInv, SessionAgreement, At
  <1>5. CASE CamRunsAhead
    <2>1. wire # <<>> /\ Head(wire).by = NoThread /\ wire \in Seq(Request) /\ UNCHANGED link
      BY <1>5 DEF CamRunsAhead, TypeOK
    <2>2. link = "outOfStep"
      <3>1. Head(wire) = wire[1] /\ 1 \in DOMAIN wire
        BY <2>1, EmptySeq
      <3> QED
        BY <2>1, <3>1 DEF TxnInv
    <2> QED
      BY <2>1, <2>2 DEF AgreementInv, SessionAgreement
  <1>6. CASE Aside
    BY <1>6 DEF Aside, AgreementInv, SessionAgreement, At
  <1> QED
    BY <1>1, <1>2, <1>3, <1>4, <1>5, <1>6, StepKinds

-----------------------------------------------------------------------------
(* The polling of an open connection: PollInv.                             *)

Joins == {"swapJoin", "join", "dtorJoin"}

\* A step of the caller that tells no thread to stop and opens no transport.
LEMMA ApiPoll ==
    ASSUME TypeOK, PollInv, NEW l, Goto(API, l), UNCHANGED threadVars,
           isOpen' => isOpen, pc[API] \notin Joins,
           l = "idle" => call' # "connect" \/ threw' \/ pc[API] = "pushConnect",
           l # "pushConnect"
    PROVE  PollInv'
  <1>1. pc'[API] = l /\ \A w \in Workers : pc'[w] = pc[w]
    BY ConstantsAssumption DEF Goto, TypeOK
  <1> QED
    BY <1>1 DEF PollInv, At, Joins

\* The caller's exception, wherever it waits for no thread to end.
LEMMA ThrowPoll ==
    ASSUME TypeOK, PollInv, Throw(API), UNCHANGED threadVars, isOpen' => isOpen,
           pc[API] \notin Joins
    PROVE  PollInv'
  <1>1. CASE VendorDestroyed
    BY <1>1, ApiPoll DEF Throw
  <1>2. CASE ~VendorDestroyed
    BY <1>2, ApiPoll DEF Throw
  <1> QED
    BY <1>1, <1>2

\* A step of an event thread: it ends when it is told to, or after a loss.
LEMMA WorkerPoll ==
    ASSUME TypeOK, PollInv, NEW w \in Workers, NEW l, Goto(w, l),
           UNCHANGED <<threadVars, call, threw>>, isOpen' => isOpen,
           l = "lost" => ~isOpen,
           l = "done" => stop[w] \/ ~isOpen
    PROVE  PollInv'
  <1>1. pc'[API] = pc[API] /\ \A v \in Workers : pc'[v] = IF v = w THEN l ELSE pc[v]
    BY ConstantsAssumption DEF Goto, TypeOK
  <1> QED
    BY <1>1 DEF PollInv, At

\* A step that opens no transport and moves nobody.
LEMMA StillPoll ==
    ASSUME PollInv, UNCHANGED <<pc, threadVars, call, threw>>, isOpen' => isOpen
    PROVE  PollInv'
  BY DEF PollInv, At

\* The steps of connect() that make, replace and join event threads.
LEMMA ThreadStepsPoll ==
    ASSUME TypeOK, ThreadInv, PollInv,
           \/ \E w \in Workers : Spawn(w)
           \/ Swap \/ SwapJoin \/ StopEventThread \/ JoinEventThread
           \/ DtorStop \/ DtorJoin
    PROVE  PollInv'
  <1>1. ASSUME NEW w \in Workers, Spawn(w) PROVE PollInv'
    <2>1. pc[API] = "spawn" /\ pc[w] = "none" /\ fresh = NoThread
          /\ stop' = [stop EXCEPT ![w] = FALSE] /\ isOpen' = isOpen
      BY <1>1 DEF Spawn, At, ThreadInv
    <2>6. \E l \in {"pushConnect", "swap"} : pc' = [pc EXCEPT ![w] = "loop", ![API] = l]
      BY <1>1 DEF Spawn
    <2>7. /\ pc'[API] \in {"pushConnect", "swap"} /\ pc'[w] = "loop"
          /\ \A v \in Workers \ {w} : pc'[v] = pc[v]
      BY <2>6, ConstantsAssumption DEF TypeOK
    <2>8. stop'[w] = FALSE /\ \A v \in Workers \ {w} : stop'[v] = stop[v]
      BY <2>1 DEF TypeOK
    <2>2. /\ pc'[API] \in {"pushConnect", "swap"} /\ pc'[w] = "loop"
          /\ \A v \in Workers \ {w} : pc'[v] = pc[v] /\ stop'[v] = stop[v]
          /\ stop'[w] = FALSE
      BY <2>7, <2>8
    <2>3. \/ eventThread = NoThread /\ eventThread' = w /\ fresh' = NoThread
          \/ eventThread # NoThread /\ eventThread' = eventThread /\ fresh' = w
             /\ pc'[API] = "swap"
      BY <1>1, <2>1, ConstantsAssumption DEF Spawn, TypeOK
    <2>4. eventThread' # NoThread /\ ~stop'[eventThread'] /\ (fresh' # NoThread => ~stop'[fresh'])
      BY <2>1, <2>2, <2>3, ConstantsAssumption DEF PollInv, TypeOK
    <2>5. \A v \in Workers : pc'[v] = "lost" \/ (pc'[v] = "done" /\ ~stop'[v]) => ~isOpen'
      BY <2>1, <2>2 DEF PollInv
    <2> QED
      BY <2>4, <2>5 DEF PollInv
  <1>2. ASSUME NEW k, NEW l \in {"swapJoin", "join"}, RequestStop(k, l) PROVE PollInv'
    <2>1. /\ pc'[API] = l /\ \A w \in Workers : pc'[w] = pc[w]
          /\ UNCHANGED <<eventThread, fresh, isOpen>> /\ eventThread \in Workers
          /\ stop' = [stop EXCEPT ![eventThread] = TRUE]
      BY <1>2, ConstantsAssumption DEF RequestStop, Goto, TypeOK
    <2>2. \A w \in Workers : stop'[w] = (stop[w] \/ w = eventThread)
      BY <2>1 DEF TypeOK
    <2>3. fresh # NoThread => fresh # eventThread /\ fresh \in Workers
      BY DEF ThreadInv, TypeOK
    <2> QED
      BY <2>1, <2>2, <2>3 DEF PollInv, At
  <1>3. ASSUME NEW k \in Joins, NEW l, Join(k, l),
               l = "pushConnect" => k = "swapJoin", l # "idle"
        PROVE  PollInv'
    <2>1. pc[API] = k /\ eventThread \in Workers /\ eventThread' = fresh /\ fresh' = NoThread
          /\ UNCHANGED <<stop, isOpen>>
      BY <1>3 DEF Join, At, ThreadInv, TypeOK, Joins
    <2>2. pc'[API] = l /\ \A w \in Workers : pc'[w] = IF w = eventThread THEN "none" ELSE pc[w]
      BY <1>3, <2>1, ConstantsAssumption DEF Join, TypeOK
    <2>3. l = "pushConnect" => fresh # NoThread
      BY <1>3, <2>1 DEF ThreadInv
    <2> QED
      BY <1>3, <2>1, <2>2, <2>3 DEF PollInv, At
  <1>4. CASE StopEventThread /\ eventThread = NoThread
    <2>1. At("stop") /\ Goto(API, AfterStop) /\ UNCHANGED <<threadVars, isOpen>>
      BY <1>4 DEF StopEventThread, Jump
    <2>2. AfterStop \in {"remoteOff", "close"}
      BY DEF AfterStop
    <2> QED
      BY <2>1, <2>2, ApiPoll DEF At, Joins
  <1>5. CASE DtorStop
    <2>1. /\ pc[API] = "dtorStop" /\ UNCHANGED <<eventThread, fresh, isOpen>>
          /\ pc'[API] = IF eventThread = NoThread THEN "dtorClose" ELSE "dtorJoin"
          /\ \A w \in Workers : pc'[w] = pc[w]
          /\ stop' = IF eventThread = NoThread THEN stop
                     ELSE [stop EXCEPT ![eventThread] = TRUE]
      BY <1>5, ConstantsAssumption DEF DtorStop, At, Goto, TypeOK
    <2>2. \A w \in Workers : w # eventThread => stop'[w] = stop[w]
      BY <2>1 DEF TypeOK
    <2>3. eventThread # NoThread => stop'[eventThread]
      BY <2>1 DEF TypeOK
    <2>4. fresh = NoThread
      BY <2>1 DEF ThreadInv
    <2> QED
      BY <2>1, <2>2, <2>3, <2>4, ConstantsAssumption DEF PollInv, At
  <1>6. CASE StopEventThread /\ eventThread # NoThread
    BY <1>2, <1>6 DEF StopEventThread
  <1>7. CASE Swap
    BY <1>2, <1>7 DEF Swap
  <1>8. CASE SwapJoin
    BY <1>3, <1>8 DEF SwapJoin, Joins
  <1>9. CASE JoinEventThread
    BY <1>3, <1>9 DEF JoinEventThread, Joins, AfterStop
  <1>10. CASE DtorJoin
    BY <1>3, <1>10 DEF DtorJoin, Joins
  <1> QED
    BY <1>1, <1>4, <1>5, <1>6, <1>7, <1>8, <1>9, <1>10

\* Every step keeps PollInv.
LEMMA PollNext == BaseInv /\ CallInv /\ PollInv /\ [Next]_vars => PollInv'
  <1> SUFFICES ASSUME BaseInv, CallInv, PollInv, [Next]_vars PROVE PollInv'
    OBVIOUS
  <1> USE DEF BaseInv
  <1>1. ASSUME NEW c \in Calls, Call(c) PROVE PollInv'
    <2>1. Goto(API, Entry(c)) /\ pc[API] = "idle" /\ call' = c
          /\ UNCHANGED <<threadVars, isOpen>>
      BY <1>1 DEF Call, At
    <2>2. Entry(c) # "pushConnect" /\ (Entry(c) = "idle" => c # "connect")
      BY ConstantsAssumption DEF Entry
    <2> QED
      BY <2>1, <2>2, ApiPoll DEF Joins
  <1>2. CASE CallStep
    <2>1. CASE OpenTransport \/ OpenTransportFails
      <3>1. pc[API] = "openTransport" /\ UNCHANGED <<threadVars, call>>
            /\ (Goto(API, "number") \/ Throw(API))
        BY <2>1 DEF OpenTransport, OpenTransportFails, At, Throw
      <3>2. eventThread = NoThread /\ fresh = NoThread /\ \A w \in Workers : pc[w] = "none"
        BY <3>1, ConstantsAssumption DEF ThreadInv, OpeningLabels
      <3>3. /\ pc'[API] = "number" \/ (pc'[API] = "idle" /\ threw') \/ pc'[API] = "dtorTransport"
            /\ \A w \in Workers : pc'[w] = pc[w]
        BY <3>1, ConstantsAssumption DEF Throw, Goto, TypeOK
      <3> QED
        BY <3>1, <3>2, <3>3 DEF PollInv, At
    <2>2. CASE \/ \E w \in Workers : Spawn(w)
               \/ Swap \/ SwapJoin \/ StopEventThread \/ JoinEventThread
               \/ DtorStop \/ DtorJoin
      BY <2>2, ThreadStepsPoll
    <2>3. CASE PushConnect \/ PushDisconnect
      <3>1. pc[API] \in {"pushConnect", "pushDisconnect"} /\ Goto(API, "idle")
            /\ UNCHANGED <<threadVars, isOpen, call>>
        BY <2>3 DEF PushConnect, PushDisconnect, PushAndReturn, At
      <3>2. pc[API] = "pushDisconnect" => call = "disconnect"
        BY LabelOfCall DEF CallLabels, Methods, DisconnectLabels
      <3> QED
        BY <3>1, <3>2, ApiPoll DEF Joins
    <2>4. CASE RefuseProp \/ (CheckModel /\ ~Jump("eosInfo", "remoteOn"))
      <3>1. pc[API] \in {"eosInfo", "setInfo"} /\ UNCHANGED <<threadVars, isOpen>> /\ Throw(API)
        BY <2>4 DEF CheckModel, RefuseProp, At
      <3> QED
        BY <3>1, ThrowPoll DEF Joins
    <2>5. CASE /\ ~OpenTransport /\ ~OpenTransportFails /\ ~RefuseProp
               /\ ~(CheckModel /\ ~Jump("eosInfo", "remoteOn"))
               /\ ~Swap /\ ~SwapJoin /\ ~StopEventThread /\ ~JoinEventThread
               /\ ~DtorStop /\ ~DtorJoin
               /\ ~PushConnect /\ ~PushDisconnect
               /\ ~\E w \in Workers : Spawn(w)
      <3>1. pc[API] \notin Joins /\ UNCHANGED threadVars /\ (isOpen' => isOpen)
        BY <1>2, <2>5
        DEF CallStep, ConnectStep, DisconnectStep, DestroyStep, ControlStep, Open,
            Number, Opened, CheckModel, Invalidate, Close, Closed, CloseTransport,
            DtorClose, DtorTransport, ChooseRelease, SendProp, Jump, At, Joins
      <3>2. \E l : l \notin {"idle", "pushConnect"} /\ Goto(API, l)
        BY <1>2, <2>5
        DEF CallStep, ConnectStep, DisconnectStep, DestroyStep, ControlStep, Open,
            Number, Opened, CheckModel, Invalidate, Close, Closed, CloseTransport,
            DtorClose, DtorTransport, ChooseRelease, SendProp, Jump,
            AfterOpenSession
      <3> QED
        BY <3>1, <3>2, ApiPoll
    <2> QED
      BY <2>1, <2>2, <2>3, <2>4, <2>5
  <1>3. ASSUME NEW w \in Workers, WorkerStep(w) PROVE PollInv'
    <2>1. UNCHANGED <<threadVars, call, threw, isOpen>>
          /\ \E l : /\ Goto(w, l)
                    /\ l = "lost" => ~isOpen
                    /\ l = "done" => stop[w] \/ pc[w] = "lost"
      BY <1>3 DEF WorkerStep, Loop, Check, ReportLoss, Poll, PropChanged,
                  NoMoreProps, HandleException, Wake, WorkerJump, WorkerPush
    <2>2. PICK l : /\ Goto(w, l)
                   /\ l = "lost" => ~isOpen
                   /\ l = "done" => stop[w] \/ pc[w] = "lost"
      BY <2>1
    <2>3. l = "done" => stop[w] \/ ~isOpen
      BY <2>2 DEF PollInv
    <2> QED
      BY <2>1, <2>2, <2>3, WorkerPoll
  <1>4. ASSUME NEW p \in Procs, NotConnected(p) PROVE PollInv'
    <2>1. Throw(p) /\ UNCHANGED <<threadVars, isOpen>> /\ pc[p] \in RequestLabels
      BY <1>4 DEF NotConnected, Requesting
    <2>2. CASE p = API
      <3>1. pc[API] \notin Joins
        BY <2>1, <2>2 DEF Joins, RequestLabels, InfoLabels, InfoExLabels
      <3> QED
        BY <2>1, <2>2, <3>1, ThrowPoll
    <2>3. CASE p \in Workers
      <3>1. Goto(p, "except") /\ UNCHANGED <<call, threw>>
        BY <2>1, <2>3, ConstantsAssumption DEF Throw, TypeOK
      <3> QED
        BY <2>1, <2>3, <3>1, WorkerPoll
    <2> QED
      BY <2>2, <2>3
  <1>5. ASSUME NEW p \in Procs, NEW r \in Outcomes, Finish(p, r) PROVE PollInv'
    <2>1. UNCHANGED threadVars /\ (isOpen' => isOpen)
      BY <1>5 DEF Finish
    <2>2. CASE p = API
      <3>1. /\ pc[API] \in RequestLabels \ {"recv"}
            /\ \/ UNCHANGED callVars /\ \E di : \E l \in NextAt(pc[API], di) : Goto(API, l)
               \/ Throw(API)
        BY <1>5, <2>2, FinishApi
      <3>2. pc[API] \notin Joins
        BY <3>1 DEF Joins, RequestLabels, InfoLabels, InfoExLabels
      <3>3. CASE Throw(API)
        BY <2>1, <3>2, <3>3, ThrowPoll
      <3>4. CASE ~Throw(API)
        <4>1. UNCHANGED callVars /\ \E di : \E l \in NextAt(pc[API], di) : Goto(API, l)
          BY <3>1, <3>4
        <4>2. PICK di : \E l \in NextAt(pc[API], di) : Goto(API, l)
          BY <4>1
        <4>3. PICK l \in NextAt(pc[API], di) : Goto(API, l)
          BY <4>2
        <4>4. l # "pushConnect" /\ (l = "idle" => pc[API] \in {"releaseOff", "release", "setTxn"})
          <5>1. CASE pc[API] \in InfoLabels
            BY <4>3, <5>1, NextAtInfo DEF InfoLabels
          <5>2. CASE pc[API] \in InfoExLabels
            BY <4>3, <5>2, NextAtInfoEx
          <5>3. CASE pc[API] \notin InfoLabels \cup InfoExLabels
            BY <3>1, <4>3, <5>3, NextAtOther
          <5> QED
            BY <5>1, <5>2, <5>3
        <4>5. pc[API] \in {"releaseOff", "release", "setTxn"} => call # "connect"
          BY DEF CallInv, CallLabels, At, OpeningLabels, ConnectingLabels
        <4> QED
          BY <2>1, <3>2, <4>1, <4>3, <4>4, <4>5, ApiPoll
      <3> QED
        BY <3>3, <3>4
    <2>3. CASE p \in Workers
      <3>1. UNCHANGED callVars /\ \E l \in {"props", "sleep", "except"} : Goto(p, l)
        BY <1>5, <2>3, FinishWorker
      <3> QED
        BY <2>1, <2>3, <3>1, WorkerPoll
    <2> QED
      BY <2>2, <2>3
  <1>6. CASE \/ \E p \in Procs : Begin(p)
             \/ CamRunsAhead \/ ConnectionDrops \/ Pop \/ UNCHANGED vars
    BY <1>6, StillPoll DEF Begin, CamRunsAhead, ConnectionDrops, Pop, vars
  <1> QED
    BY <1>1, <1>2, <1>3, <1>4, <1>5, <1>6 DEF Next, Transaction

-----------------------------------------------------------------------------
(* The theorems about the session.                                         *)

\* The inductive invariant holds at first.
LEMMA IInvInit == Init => IInv
  <1> SUFFICES ASSUME Init PROVE IInv
    OBVIOUS
  <1>1. pc[API] = "idle" /\ mutex = NoThread /\ ~isSessionOpen
        /\ cam.shutter = FALSE /\ call = "none"
    BY ConstantsAssumption DEF Init, CamInit
  <1>2. CallInv /\ RequestInv
    BY <1>1 DEF CallInv, RequestInv, At
  <1>3. TidInv
    BY <1>1 DEF TidInv, At
  <1>4. CaptureInv
    BY <1>1 DEF CaptureInv, CaptureReleases, At
  <1>5. AgreementInv
    BY <1>1 DEF AgreementInv, SessionAgreement, At
  <1>6. PollInv
    BY <1>1, ConstantsAssumption DEF Init, PollInv, At
  <1> QED
    BY <1>2, <1>3, <1>4, <1>5, <1>6, InvInit DEF IInv

\* Every step keeps the inductive invariant.
LEMMA IInvNext == IInv /\ [Next]_vars => IInv'
  BY InvNext, CallNext, RequestNext, TidNext, CaptureNext, AgreementNext, PollNext DEF IInv

\* The whole inductive invariant, with what the two sides know of the session,
\* holds for any number of event threads, any camera and any way transactions end.
THEOREM SessionInvariance == Spec => []IInv
  BY IInvInit, IInvNext, PTL DEF Spec

\* Whoever sends, the camera is sent the transaction ids of a session in order:
\* no gap and no repetition, over failed transactions, wrong answers and 2^32 of
\* them.
THEOREM TidsConsecutive == Spec => TidConsecutive
  <1>1. ASSUME IInv, [Next]_vars, isSessionOpen, Len(wire') > Len(wire)
        PROVE  cam'.tid = (cam.tid + 1) % TidModulus
    <2>1. wire \in Seq(Request) /\ wire' \in Seq(Request)
      BY <1>1, TypeNext DEF IInv, BaseInv, TypeOK
    <2>2. PICK p \in Procs : Begin(p)
      BY <1>1, <2>1, TidsStay DEF IInv
    <2>3. cam'.tid = transactionId
      BY <1>1, <2>2 DEF Begin, TidToSend, IInv, BaseInv, TypeOK
    <2> QED
      BY <1>1, <2>3 DEF IInv, TidInv
  <1>2. IInv /\ [Next]_vars =>
          [isSessionOpen /\ Len(wire') > Len(wire)
           => cam'.tid = (cam.tid + 1) % TidModulus]_vars
    BY <1>1
  <1> QED
    BY <1>2, SessionInvariance, PTL DEF Spec, TidConsecutive

\* On a connection that is not out of step, with the camera's own DeviceInfo, a
\* capture() that returned has released the shutter: on every model of camera,
\* however earlier ones failed, and also after a connection that was out of step.
THEOREM ShutterReleased == Spec => []CaptureReleases
  <1>1. IInv => CaptureReleases
    BY DEF IInv, CaptureInv
  <1> QED
    BY <1>1, SessionInvariance, PTL

\* While the connection is in step, and no CloseSession was done whose answer
\* failed, the session flag and the camera agree.
THEOREM SessionsAgree == Spec => []SessionAgreement
  <1>1. IInv => SessionAgreement
    BY DEF IInv, AgreementInv
  <1> QED
    BY <1>1, SessionInvariance, PTL

\* As long as the transport is open nothing that is thrown ends the polling.
THEOREM ConnectionPolled == Spec => []ConnectedIsPolled
  <1>1. IInv => ConnectedIsPolled
    <2> SUFFICES ASSUME IInv PROVE ConnectedIsPolled
      OBVIOUS
    <2>1. At("idle") /\ call = "connect" /\ ~threw => eventThread # NoThread
      BY DEF IInv, PollInv
    <2>2. ASSUME isOpen, eventThread # NoThread, pc[API] \notin {"swapJoin", "join", "dtorJoin"}
          PROVE  Live(eventThread)
      <3>1. eventThread \in Workers /\ pc[eventThread] # "none"
        BY <2>2 DEF IInv, BaseInv, TypeOK, ThreadInv
      <3>2. pc[eventThread] # "done"
        BY <2>2, <3>1 DEF IInv, PollInv
      <3> QED
        BY <3>1, <3>2 DEF Live
    <2> QED
      BY <2>1, <2>2 DEF ConnectedIsPolled
  <1> QED
    BY <1>1, SessionInvariance, PTL

-----------------------------------------------------------------------------
(* The events of a disconnected object.                                    *)

\* Nobody but disconnect()'s last step pushes once disconnect() was called.
THEOREM DisconnectSilences == Spec => SilentAfterDisconnect
  <1>1. ASSUME BaseInv, [Next]_vars, detached,
               pc[API] \notin {"stop", "join", "pushDisconnect"}
        PROVE  Len(events') <= Len(events)
    <2> USE DEF BaseInv
    <2>1. eventThread = NoThread /\ pc[API] \notin ConnectingLabels
      BY <1>1 DEF DetachInv
    <2>2. \A w \in Workers : pc[w] = "none"
      BY <1>1, <2>1, ConstantsAssumption DEF ThreadInv, ConnectingLabels
    <2>3. Len(events) \in Nat /\ events \in Seq(Events)
      BY <1>1 DEF TypeOK, Events
    <2>4. CASE Pop
      <3>1. events # <<>> /\ events' = Tail(events)
        BY <2>4 DEF Pop
      <3> QED
        BY <2>3, <3>1, HeadTailProperties
    <2>5. ASSUME NEW w \in Workers, WorkerStep(w) PROVE FALSE
      BY <2>2, <2>5
      DEF WorkerStep, Loop, Check, ReportLoss, Poll, PropChanged, NoMoreProps,
          HandleException, Wake, WorkerJump, WorkerPush
    <2>6. CASE CallStep
      <3>1. ~PushConnect /\ ~PushDisconnect
        BY <1>1, <2>1 DEF PushConnect, PushDisconnect, PushAndReturn, At, ConnectingLabels
      <3>2. UNCHANGED events
        BY <2>6, <3>1
        DEF CallStep, ConnectStep, DisconnectStep, DestroyStep, ControlStep, Open,
            OpenTransport, OpenTransportFails, Number, Opened, CheckModel,
            Invalidate, Swap, SwapJoin, Spawn, StopEventThread, JoinEventThread,
            Close, Closed, CloseTransport, DtorStop, DtorJoin, DtorClose,
            DtorTransport, ChooseRelease, SendProp, RefuseProp, Jump, RequestStop,
            Join
      <3> QED
        BY <2>3, <3>2
    <2>7. CASE \/ \E c \in Calls : Call(c)
               \/ \E p \in Procs : Transaction(p)
               \/ CamRunsAhead \/ ConnectionDrops \/ UNCHANGED vars
      <3>1. UNCHANGED events
        BY <2>7 DEF Call, Transaction, Begin, NotConnected, Finish, CamRunsAhead,
                    ConnectionDrops, vars
      <3> QED
        BY <2>3, <3>1
    <2> QED
      BY <1>1, <2>4, <2>5, <2>6, <2>7 DEF Next
  <1>2. BaseInv /\ [Next]_vars =>
          [detached /\ pc[API] \notin {"stop", "join", "pushDisconnect"}
           => Len(events') <= Len(events)]_vars
    BY <1>1
  <1> QED
    BY <1>2, Invariance, PTL DEF Spec, SilentAfterDisconnect

-----------------------------------------------------------------------------
(* The contract of a Camera: every step is a step of the contract, or none. *)

busyOf == IF At("idle") THEN "none" ELSE call

\* The call under way has a name.
LEMMA CallNamed ==
    ASSUME TypeOK, CallInv, pc[API] # "idle"
    PROVE  call \in Methods /\ call # "none" /\ pc[API] \in CallLabels[call]
  <1>1. call \in Methods \cup {"none"}
    BY ConstantsAssumption DEF TypeOK, Methods
  <1> QED
    BY <1>1 DEF CallInv, At, CallLabels, Methods

\* Where a disconnect() may end, no event thread is left.
LEMMA StoppedNobody ==
    ASSUME TypeOK, ThreadInv, pc[API] \in StoppedLabels
    PROVE  NoLiveWorker
  BY ConstantsAssumption DEF ThreadInv, NoLiveWorker, Live, StoppedLabels

\* A step of the caller within its call, of which the wrapper sees nothing.
LEMMA InnerStep ==
    ASSUME pc[API] # "idle", pc'[API] # "idle", UNCHANGED <<call, events>>,
           \A w \in Workers : Live(w)' = Live(w)
    PROVE  UNCHANGED <<busyOf, ~NoLiveWorker, events>>
  BY DEF busyOf, At, NoLiveWorker

\* The end of a call that pushes nothing.
LEMMA EndStep ==
    ASSUME TypeOK, ThreadInv, CallInv, pc[API] # "idle", pc'[API] = "idle",
           UNCHANGED <<call, events>>, \A w \in Workers : Live(w)' = Live(w),
           pc[API] \in CallLabels["disconnect"] => pc[API] \in StoppedLabels
    PROVE  Contract!Throw
  <1>1. call \in Methods /\ call # "none" /\ pc[API] \in CallLabels[call]
    BY CallNamed
  <1>2. call = "disconnect" => NoLiveWorker
    BY <1>1, StoppedNobody
  <1>3. NoLiveWorker' = NoLiveWorker
    BY DEF NoLiveWorker
  <1>4. busyOf = call /\ busyOf' = "none"
    BY DEF busyOf, At
  <1> QED
    BY <1>1, <1>2, <1>3, <1>4 DEF Contract!Throw, Contract!CallEnds, busyOf

\* A step of an event thread that pushes nothing.
LEMMA WorkerQuiet ==
    ASSUME NEW w \in Workers, Live(w), \A v \in Workers \ {w} : Live(v)' = Live(v),
           UNCHANGED <<call, events>>, pc'[API] = pc[API]
    PROVE  Contract!StopPolling \/ UNCHANGED <<busyOf, ~NoLiveWorker, events>>
  <1>1. UNCHANGED busyOf /\ ~NoLiveWorker
    BY DEF busyOf, At, NoLiveWorker
  <1> QED
    BY <1>1 DEF Contract!StopPolling, busyOf

\* An event thread that moves leaves the others alone.
LEMMA WorkerOthers ==
    ASSUME TypeOK, NEW w \in Workers, NEW l, Goto(w, l)
    PROVE  /\ pc'[w] = l /\ pc'[API] = pc[API]
           /\ \A v \in Workers \ {w} : Live(v)' = Live(v)
  BY ConstantsAssumption DEF TypeOK, Goto, Live

\* The caller that moves leaves the event threads alone.
LEMMA ApiOthers ==
    ASSUME TypeOK, NEW l, Goto(API, l)
    PROVE  pc'[API] = l /\ \A w \in Workers : Live(w)' = Live(w)
  BY ConstantsAssumption DEF TypeOK, Goto, Live

\* Every step maps to a step of the contract.
LEMMA ContractNext ==
    ASSUME BaseInv, CallInv, [Next]_vars
    PROVE  Contract!Next \/ UNCHANGED <<busyOf, ~NoLiveWorker, events>>
  <1> DEFINE Maps == Contract!Next \/ UNCHANGED <<busyOf, ~NoLiveWorker, events>>
  <1> SUFFICES Maps
    OBVIOUS
  <1> USE DEF BaseInv
  <1>1. ASSUME NEW c \in Calls, Call(c) PROVE Maps
    <2>1. pc[API] = "idle" /\ call' = c /\ UNCHANGED events /\ c \in Contract!Methods
      BY <1>1, ConstantsAssumption DEF Call, At, Contract!Methods
    <2>2. pc'[API] = Entry(c) /\ \A w \in Workers : Live(w)' = Live(w)
      BY <1>1, ApiOthers DEF Call
    <2>3. UNCHANGED NoLiveWorker
      BY <2>2 DEF NoLiveWorker
    <2>4. CASE Entry(c) = "idle"
      BY <2>1, <2>2, <2>3, <2>4 DEF busyOf, At
    <2>5. CASE Entry(c) # "idle"
      <3>1. Contract!Begin(c)
        BY <2>1, <2>2, <2>3, <2>5 DEF Contract!Begin, At
      <3> QED
        BY <2>1, <3>1 DEF Contract!Next
    <2> QED
      BY <2>4, <2>5
  <1>2. ASSUME Throw(API), UNCHANGED events, pc[API] # "idle",
               pc[API] \in CallLabels["disconnect"] => pc[API] \in StoppedLabels
        PROVE  Maps
    <2>1. UNCHANGED call
      BY <1>2 DEF Throw
    <2>2. PICK l \in {"idle", "dtorTransport"} : Goto(API, l)
      BY <1>2 DEF Throw
    <2> QED
      BY <1>2, <2>1, <2>2, ApiOthers, InnerStep, EndStep DEF Contract!Next
  <1>3. CASE CallStep
    <2>1. ASSUME NEW w \in Workers, Spawn(w) PROVE Maps
      <3>1. pc[API] = "spawn" /\ pc'[API] # "idle" /\ pc'[w] = "loop"
            /\ UNCHANGED <<call, events>>
        BY <2>1, ConstantsAssumption DEF Spawn, At, TypeOK
      <3>2. call = "connect"
        BY <3>1, LabelOfCall DEF CallLabels, Methods, ConnectingLabels
      <3>3. NoLiveWorker' = FALSE
        BY <3>1 DEF NoLiveWorker, Live
      <3>4. Contract!StartPolling
        BY <3>1, <3>2, <3>3 DEF Contract!StartPolling, At
      <3> QED
        BY <3>4 DEF Contract!Next
    <2>2. CASE SwapJoin \/ JoinEventThread \/ DtorJoin
      <3>1. PICK k \in {"swapJoin", "join", "dtorJoin"},
                 l \in {"pushConnect", "remoteOff", "close", "dtorClose"} : Join(k, l)
        BY <2>2 DEF SwapJoin, JoinEventThread, DtorJoin, AfterStop
      <3>2. pc[API] = k /\ pc'[API] = l /\ UNCHANGED <<call, events>>
            /\ \A w \in Workers : Live(w)' = Live(w)
        BY <3>1, ConstantsAssumption DEF Join, At, TypeOK, Live
      <3> QED
        BY <3>2, InnerStep
    <2>3. CASE PushConnect \/ PushDisconnect
      <3>1. PICK k \in {"pushConnect", "pushDisconnect"}, e \in {"Connect", "Disconnect"} :
                /\ PushAndReturn(k, e)
                /\ k = "pushConnect" <=> e = "Connect"
        BY <2>3 DEF PushConnect, PushDisconnect
      <3>2. pc[API] = k /\ pc'[API] = "idle" /\ UNCHANGED call
            /\ events' = Append(events, e)
        BY <3>1, ApiOthers DEF PushAndReturn, Push, At
      <3>3. UNCHANGED NoLiveWorker
        BY <3>1, ApiOthers DEF PushAndReturn, NoLiveWorker
      <3>4. call = IF k = "pushConnect" THEN "connect" ELSE "disconnect"
        BY <3>1, <3>2, LabelOfCall
        DEF CallLabels, Methods, ConnectingLabels, DisconnectLabels
      <3>5. k = "pushDisconnect" => NoLiveWorker
        BY <3>2, StoppedNobody DEF StoppedLabels
      <3>6. Contract!CallEnds
        BY <3>1, <3>2, <3>3, <3>4, <3>5 DEF Contract!CallEnds, At
      <3>7. Contract!Return
        BY <3>1, <3>2, <3>4, <3>6 DEF Contract!Return, At
      <3> QED
        BY <3>7 DEF Contract!Next
    <2>4. CASE OpenTransportFails \/ RefuseProp
               \/ (CheckModel /\ ~Jump("eosInfo", "remoteOn"))
      <3>1. pc[API] \in {"openTransport", "eosInfo", "setInfo"} /\ UNCHANGED events
            /\ Throw(API)
        BY <2>4 DEF OpenTransportFails, CheckModel, RefuseProp, At
      <3> QED
        BY <1>2, <3>1 DEF CallLabels, DisconnectLabels
    <2>5. CASE /\ ~OpenTransportFails /\ ~RefuseProp
               /\ ~(CheckModel /\ ~Jump("eosInfo", "remoteOn"))
               /\ ~SwapJoin /\ ~JoinEventThread /\ ~DtorJoin
               /\ ~PushConnect /\ ~PushDisconnect
               /\ ~\E w \in Workers : Spawn(w)
      <3>1. pc[API] # "idle" /\ UNCHANGED <<call, events>>
        BY <1>3, <2>5
        DEF CallStep, ConnectStep, DisconnectStep, DestroyStep, ControlStep, Open,
            OpenTransport, Number, Opened, CheckModel, Invalidate, Swap,
            StopEventThread, Close, Closed, CloseTransport, DtorStop, DtorClose,
            DtorTransport, ChooseRelease, SendProp, Jump, RequestStop, At
      <3>2. \E l : l # "idle" /\ Goto(API, l)
        BY <1>3, <2>5
        DEF CallStep, ConnectStep, DisconnectStep, DestroyStep, ControlStep, Open,
            OpenTransport, Number, Opened, CheckModel, Invalidate, Swap,
            StopEventThread, Close, Closed, CloseTransport, DtorStop, DtorClose,
            DtorTransport, ChooseRelease, SendProp, Jump, RequestStop,
            AfterOpenSession, AfterStop
      <3> QED
        BY <3>1, <3>2, ApiOthers, InnerStep
    <2> QED
      BY <2>1, <2>2, <2>3, <2>4, <2>5
  <1>4. ASSUME NEW w \in Workers, WorkerStep(w) PROVE Maps
    <2>1. UNCHANGED call /\ \E l : Goto(w, l)
      BY <1>4 DEF WorkerStep, Loop, Check, ReportLoss, Poll, PropChanged,
                  NoMoreProps, HandleException, Wake, WorkerJump, WorkerPush
    <2>2. pc'[API] = pc[API] /\ \A v \in Workers \ {w} : Live(v)' = Live(v)
      BY <2>1, WorkerOthers
    <2>3. Live(w)
      BY <1>4 DEF WorkerStep, Loop, Check, ReportLoss, Poll, PropChanged,
                  NoMoreProps, HandleException, Wake, WorkerJump, WorkerPush, Live
    <2>4. CASE UNCHANGED events
      BY <2>1, <2>2, <2>3, <2>4, WorkerQuiet DEF Contract!Next
    <2>5. CASE \E e \in Contract!Notes : events' = Append(events, e)
      <3>1. PICK e \in Contract!Notes : events' = Append(events, e)
        BY <2>5
      <3>2. Contract!Notify(e)
        BY <2>1, <2>2, <2>3, <3>1 DEF Contract!Notify, NoLiveWorker, At
      <3> QED
        BY <3>2 DEF Contract!Next
    <2>6. UNCHANGED events \/ \E e \in Contract!Notes : events' = Append(events, e)
      BY <1>4 DEF WorkerStep, Loop, Check, ReportLoss, Poll, PropChanged,
                  NoMoreProps, HandleException, Wake, WorkerJump, WorkerPush, Push,
                  Contract!Notes
    <2> QED
      BY <2>4, <2>5, <2>6
  <1>5. ASSUME NEW p \in Procs, Transaction(p) PROVE Maps
    <2>1. CASE Begin(p)
      BY <2>1 DEF Begin, busyOf, At, NoLiveWorker, Live
    <2>2. CASE ~Begin(p)
      <3>0. /\ pc[p] \in RequestLabels /\ UNCHANGED events
            /\ \/ Throw(p)
               \/ UNCHANGED call /\ \E di : \E l \in NextAt(pc[p], di) : Goto(p, l)
        <4>1. CASE NotConnected(p)
          BY <4>1 DEF NotConnected, Requesting
        <4>2. CASE \E r \in Outcomes : Finish(p, r)
          <5>1. PICK r \in Outcomes : Finish(p, r)
            BY <4>2
          <5>2. UNCHANGED events
            BY <5>1 DEF Finish
          <5> QED
            BY <5>1, <5>2, FinishMoves
        <4> QED
          BY <1>5, <2>2, <4>1, <4>2 DEF Transaction
      <3>1. CASE p = API
        <4>1. pc[API] # "idle" /\ pc[API] # "recv"
          <5>1. pc[API] \in RequestLabels \cap ApiLabels
            BY <3>0, <3>1 DEF TypeOK
          <5> QED
            BY <5>1, LabelsOfThreads DEF RequestLabels, InfoLabels, InfoExLabels
        <4>2. pc[API] \in CallLabels["disconnect"] => pc[API] \in StoppedLabels
          BY <3>0, <3>1, <4>1 DEF CallLabels, DisconnectLabels, StoppedLabels,
                                  RequestLabels, InfoLabels, InfoExLabels
        <4>3. CASE Throw(API)
          BY <1>2, <3>0, <4>1, <4>2, <4>3
        <4>4. CASE UNCHANGED call /\ \E di : \E l \in NextAt(pc[API], di) : Goto(API, l)
          <5>1. PICK di : \E l \in NextAt(pc[API], di) : Goto(API, l)
            BY <4>4
          <5>2. PICK l \in NextAt(pc[API], di) : Goto(API, l)
            BY <5>1
          <5> QED
            BY <3>0, <4>1, <4>2, <4>4, <5>2, ApiOthers, InnerStep, EndStep
            DEF Contract!Next
        <4> QED
          BY <3>0, <3>1, <4>3, <4>4
      <3>2. CASE p \in Workers
        <4>1. pc[p] = "recv"
          BY <3>0, <3>2, LabelsOfThreads DEF TypeOK
        <4>3. UNCHANGED call /\ \E l : Goto(p, l)
          BY <3>0 DEF Throw
        <4> QED
          BY <3>0, <3>2, <4>1, <4>3, WorkerOthers, WorkerQuiet
          DEF Live, Contract!Next
      <3> QED
        BY <3>1, <3>2
    <2> QED
      BY <2>1, <2>2
  <1>6. CASE Pop
    <2>1. Contract!Pop
      BY <1>6 DEF Pop, Contract!Pop, At, NoLiveWorker, Live
    <2> QED
      BY <2>1 DEF Contract!Next
  <1>7. CASE CamRunsAhead \/ ConnectionDrops \/ UNCHANGED vars
    BY <1>7 DEF CamRunsAhead, ConnectionDrops, vars, busyOf, At, NoLiveWorker, Live
  <1> QED
    BY <1>1, <1>3, <1>4, <1>5, <1>6, <1>7 DEF Next

\* A PTP camera, Canon or Nikon, keeps the contract of Camera that its wrapper
\* relies on, whatever the network does.
THEOREM KeepsContract == Spec => ImplementsCamera
  <1>1. Init => Contract!Init
    BY ConstantsAssumption DEF Init, Contract!Init, At, NoLiveWorker, Live
  <1>2. IInv /\ [Next]_vars => [Contract!Next]_(Contract!contractVars)
    BY ContractNext DEF IInv, Contract!contractVars, busyOf
  <1> QED
    BY <1>1, <1>2, SessionInvariance, PTL DEF Spec, ImplementsCamera, Contract!Spec
=============================================================================
