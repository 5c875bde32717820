---------------------------- MODULE CameraWrapper -----------------------------
(***************************************************************************)
(* CameraWrapper (src/cb/proxy.h, proxy.cpp): the camera an application    *)
(* gets from a discovery.  A call is dispatched as an event to handlers    *)
(* that create the real camera with the factory, once, and call it; what   *)
(* they throw becomes an ExceptionEvent.  Events pass two queues: that of  *)
(* the real camera, which its event thread fills at any moment, and that   *)
(* of the wrapper, into which popEvent() moves them.                       *)
(***************************************************************************)
EXTENDS Naturals, Sequences

CONSTANT MaxEvents      \* bound on the events ever pushed

VARIABLES
    pc,         \* "idle"; in a handler: "handle", "create"; "drain" in popEvent()
    request,    \* the call being dispatched
    camera,     \* whether the wrapper has created the real camera
    busy, polling, cameraEvents,    \* the real camera (CameraContract)
    events,     \* the wrapper's own EventEmitter::events
    pushed,     \* history: every event, in the order of the pushes
    seen        \* history: the events popEvent() has returned

cameraVars == <<busy, polling, cameraEvents>>
vars == <<pc, request, camera, cameraVars, events, pushed, seen>>

Camera == INSTANCE CameraContract WITH events <- cameraEvents

Calls == Camera!Methods \ {"destroy"}
FromCamera(type) == [from |-> "camera", type |-> type]
FromWrapper(type) == [from |-> "wrapper", type |-> type]

-----------------------------------------------------------------------------
(* Calls.                                                                  *)

\* pushEvent() of the wrapper itself.
PushOwn(type) ==
    /\ Len(pushed) < MaxEvents
    /\ events' = Append(events, FromWrapper(type))
    /\ pushed' = Append(pushed, FromWrapper(type))

\* CameraProxy: connect(), disconnect(), capture() and setProp() dispatch.
Call(c) ==
    /\ pc = "idle"
    /\ pc' = IF c = "connect" /\ ~camera THEN "create" ELSE "handle"
    /\ request' = c
    /\ UNCHANGED <<camera, cameraVars, events, pushed, seen>>

Create ==
    /\ pc = "create"
    /\ camera' = TRUE
    /\ pc' = "handle"
    /\ UNCHANGED <<request, cameraVars, events, pushed, seen>>

\* The factory throws: no transport, no answer, or an unknown manufacturer.
CreateFails ==
    /\ pc = "create"
    /\ PushOwn("Exception")
    /\ pc' = "idle"
    /\ UNCHANGED <<request, camera, cameraVars, seen>>

\* Mutant: the wrapper reports a disconnect by itself in any case.
HandleWithout_Always ==
    /\ pc = "handle" /\ busy = "none"
    /\ ~camera \/ request = "disconnect"
    /\ PushOwn("Disconnect")
    /\ pc' = "idle"
    /\ UNCHANGED <<request, camera, cameraVars, seen>>

\* The handlers of all calls but connect(), when there is no camera.
HandleWithout ==
    /\ pc = "handle" /\ ~camera
    /\ PushOwn("Disconnect")
    /\ pc' = "idle"
    /\ UNCHANGED <<request, camera, cameraVars, seen>>

HandleWith ==
    /\ pc = "handle" /\ camera
    /\ Camera!Begin(request)
    /\ UNCHANGED <<pc, request, camera, events, pushed, seen>>

\* The events that cameraEvents has got in a step.
PushedByCamera ==
    /\ Len(pushed) <= MaxEvents - (Len(cameraEvents') - Len(cameraEvents))
    /\ pushed' = pushed \o [i \in 1..Len(cameraEvents') - Len(cameraEvents) |->
                               FromCamera(cameraEvents'[Len(cameraEvents')])]

HandlerReturns ==
    /\ Camera!Return /\ PushedByCamera
    /\ pc' = "idle"
    /\ UNCHANGED <<request, camera, events, seen>>

\* Mutant: nobody handles the exception.
HandlerThrows_Unhandled ==
    /\ Camera!Throw
    /\ pc' = "idle"
    /\ UNCHANGED <<request, camera, events, pushed, seen>>

\* dispatchEvent() catches, and the handler of Camera's constructor pushes.
HandlerThrows ==
    /\ Camera!Throw
    /\ PushOwn("Exception")
    /\ pc' = "idle"
    /\ UNCHANGED <<request, camera, seen>>

\* What the real camera does by itself.
CameraStep ==
    /\ Camera!StartPolling \/ Camera!StopPolling
       \/ \E e \in Camera!Notes : Camera!Notify(e)
    /\ PushedByCamera
    /\ UNCHANGED <<pc, request, camera, events, seen>>

-----------------------------------------------------------------------------
(* popEvent()                                                              *)

PopEvent ==
    /\ pc = "idle"
    /\ pc' = "drain"
    /\ UNCHANGED <<request, camera, cameraVars, events, pushed, seen>>

\* One round of the loop of getNewEvents(): the camera's next event.
Drain ==
    /\ pc = "drain"
    /\ Camera!Pop
    /\ events' = Append(events, FromCamera(Head(cameraEvents)))
    /\ UNCHANGED <<pc, request, camera, pushed, seen>>

\* Mutant: the camera's event is returned without going through the queue.
Popped_Directly ==
    /\ pc = "drain"
    /\ pc' = "idle"
    /\ IF cameraEvents # <<>>
       THEN /\ Camera!Pop
            /\ seen' = Append(seen, FromCamera(Head(cameraEvents)))
            /\ UNCHANGED events
       ELSE /\ UNCHANGED cameraVars
            /\ IF events = <<>> THEN UNCHANGED <<events, seen>>
               ELSE seen' = Append(seen, Head(events)) /\ events' = Tail(events)
    /\ UNCHANGED <<request, camera, pushed>>

\* The camera had no more; the wrapper's next event is returned, if any.
Popped ==
    /\ pc = "drain" /\ cameraEvents = <<>>
    /\ pc' = "idle"
    /\ IF events = <<>> THEN UNCHANGED <<events, seen>>
       ELSE seen' = Append(seen, Head(events)) /\ events' = Tail(events)
    /\ UNCHANGED <<request, camera, cameraVars, pushed>>

-----------------------------------------------------------------------------

Init ==
    /\ pc = "idle" /\ request = "none" /\ camera = FALSE
    /\ Camera!Init
    /\ events = <<>> /\ pushed = <<>> /\ seen = <<>>

HandlerStep ==
    \/ Create \/ CreateFails \/ HandleWithout \/ HandleWith
    \/ HandlerReturns \/ HandlerThrows

Next ==
    \/ \E c \in Calls : Call(c)
    \/ HandlerStep \/ CameraStep
    \/ PopEvent \/ Drain \/ Popped

Spec == Init /\ [][Next]_vars

-----------------------------------------------------------------------------
(* Properties.                                                             *)

Event == [from : {"camera", "wrapper"},
          type : {"Connect", "Disconnect", "SetProp", "Exception"}]

\* Types; a call of the real camera is the one that is being dispatched.
TypeOK ==
    /\ pc \in {"idle", "create", "handle", "drain"}
    /\ request \in Calls \cup {"none"}
    /\ camera \in BOOLEAN /\ polling \in BOOLEAN
    /\ busy # "none" => busy = request /\ pc = "handle" /\ camera
    /\ cameraEvents \in Seq(Camera!Notes \cup {"Connect"})
    /\ events \in Seq(Event) /\ pushed \in Seq(Event) /\ seen \in Seq(Event)

\* All events pushed and where they are now: returned, moved, or still with
\* the camera; in the order in which the application gets them.
Moved == seen \o events
AllFromCamera(types) == [i \in DOMAIN types |-> FromCamera(types[i])]
Waiting == AllFromCamera(cameraEvents)
Delivery == Moved \o Waiting

\* The events of s that are in K, in their order, among the first 0, 1, ...
Picks(s, K) ==
    LET picks[i \in 0..Len(s)] ==
            IF i = 0 THEN <<>>
            ELSE IF s[i] \in K THEN Append(picks[i - 1], s[i]) ELSE picks[i - 1]
    IN picks

Only(s, K) == Picks(s, K)[Len(s)]

OfCamera == {e \in Event : e.from = "camera"}
OfConnection == {e \in Event : e.type \in {"Connect", "Disconnect"}}

\* What was pushed of K is what has come, or will come, out of the queues.
InOrder(K) == Only(pushed, K) = Only(Delivery, K)

\* The two queues lose, repeat and reorder no event of the real camera, at
\* whatever moment its event thread pushes one.
CameraEventsInOrder == InOrder(OfCamera)

\* The wrapper's own DisconnectEvent goes straight to the second queue, yet no
\* connection event overtakes another: what the application sees last of
\* Connect and Disconnect is what happened last.
ConnectionEventsInOrder == InOrder(OfConnection)

\* A call that did not do its work says so: every connect() and disconnect(),
\* and every call without a camera or that throws, ends with an event pushed
\* after it began; only a capture() or setProp() that reached the camera and
\* returned is silent.
FailuresAreReported ==
    [][pc' = "idle" /\ pc \in {"create", "handle"} /\ pushed' = pushed
       => request \in {"capture", "setProp"} /\ Camera!Return]_vars

-----------------------------------------------------------------------------
(* The invariant the proofs use.                                           *)

\* A wrapper without a camera has nothing of a camera: so the DisconnectEvent
\* it pushes itself cannot overtake one that waits there.
NoCamera == ~camera => cameraEvents = <<>> /\ ~polling /\ busy = "none"

\* A call is dispatched in "create" and "handle" only, and just connect()
\* creates.
Dispatched ==
    /\ pc \in {"create", "handle"} => request \in Calls
    /\ pc = "create" => request = "connect" /\ ~camera
    /\ pc = "handle" /\ ~camera => request # "connect"

IInv ==
    /\ TypeOK /\ NoCamera /\ Dispatched
    /\ CameraEventsInOrder /\ ConnectionEventsInOrder
=============================================================================
