---------------------------- MODULE CameraContract ----------------------------
(***************************************************************************)
(* What a Camera (src/cb/camera.h) promises to the CameraWrapper that owns *)
(* it: a call returns or throws; connect() may start a source of events of *)
(* the camera's own, which a disconnect() has stopped when it ends; a call *)
(* that returns has pushed its event, after all that came before.          *)
(***************************************************************************)
EXTENDS Sequences

VARIABLES
    busy,       \* the call under way, or "none"
    polling,    \* the camera has a source of events
    events      \* EventEmitter::events

contractVars == <<busy, polling, events>>

Notes == {"Disconnect", "SetProp", "Exception"}
Methods == {"connect", "disconnect", "capture", "setProp", "destroy"}

Init == busy = "none" /\ polling = FALSE /\ events = <<>>

Begin(c) ==
    /\ busy = "none" /\ busy' = c
    /\ UNCHANGED <<polling, events>>

StartPolling ==
    /\ busy = "connect" /\ polling' = TRUE
    /\ UNCHANGED <<busy, events>>

\* The source ends by itself too, when the connection is lost.
StopPolling == polling /\ polling' = FALSE /\ UNCHANGED <<busy, events>>

Notify(e) ==
    /\ polling /\ polling' \in {TRUE, FALSE}
    /\ events' = Append(events, e)
    /\ UNCHANGED busy

CallEnds ==
    /\ busy # "none" /\ busy' = "none"
    /\ busy = "disconnect" => ~polling
    /\ UNCHANGED polling

Return ==
    /\ CallEnds
    /\ events' = CASE busy = "connect" -> Append(events, "Connect")
                   [] busy = "disconnect" -> Append(events, "Disconnect")
                   [] OTHER -> events

Throw == CallEnds /\ UNCHANGED events

Pop == events # <<>> /\ events' = Tail(events) /\ UNCHANGED <<busy, polling>>

Next ==
    \/ \E c \in Methods : Begin(c)
    \/ StartPolling \/ StopPolling \/ \E e \in Notes : Notify(e)
    \/ Return \/ Throw \/ Pop

Spec == Init /\ [][Next]_contractVars
=============================================================================
