--------------------------- MODULE CanonProperties ----------------------------
(***************************************************************************)
(* The properties of a connected Canon camera (src/cb/ptp/vendors):        *)
(* setProp() writes the camera's code for a value, and the event thread    *)
(* polls the changes the camera reports, translates them and pushes        *)
(* SetPropEvents, which the application pops.  Transactions exclude each   *)
(* other (PTPCamera), so that each is one step here.                       *)
(***************************************************************************)
EXTENDS Integers, Sequences, FiniteSets, SequencesExt

CONSTANTS
    Dial,           \* property code of the camera -> the value codes it goes through
    PropsSupported, \* the property codes DeviceInfo lists
    Wanted,         \* what the application sets: pairs of property and value
    Faults,         \* of a run: "refused", "garbled", "lost"
    MaxChanges      \* bound on the changes of settings after connect()

Codes == DOMAIN Dial

ASSUME PropertiesAssumption ==
    /\ IsFiniteSet(Codes)
    /\ \A c \in Codes : Dial[c] \in Seq(Nat) /\ Dial[c] # <<>>
    /\ PropsSupported \subseteq Codes
    /\ Faults \subseteq {"refused", "garbled", "lost"} /\ MaxChanges \in Nat

-----------------------------------------------------------------------------
(* PairMap: a sequence of pairs; a search returns the first result or none. *)

First(map, k, x) ==
    CHOOSE i \in DOMAIN map :
        map[i][k] = x /\ \A j \in DOMAIN map : j < i => map[j][k] # x

FindKey(map, value) ==
    IF \E i \in DOMAIN map : map[i][2] = value
    THEN <<map[First(map, 2, value)][1]>> ELSE <<>>

FindValue(map, key) ==
    IF \E i \in DOMAIN map : map[i][1] = key
    THEN <<map[First(map, 1, key)][2]>> ELSE <<>>

PairMap(keys, vals) == Zip(keys, vals)

-----------------------------------------------------------------------------
(* The tables of canonData.cpp.                                            *)

\* Codes count eighths of a stop, in bytes (0x0D = 13 is f/1.2); the tables have
\* thirds.
Thirds(first, last) ==
    SelectSeq([i \in 1..(last - first + 1) |-> first + i - 1],
              LAMBDA code : code % 8 \in {0, 3, 5})

Over(numerators, denominator) ==
    [i \in 1..Len(numerators) |-> <<numerators[i], denominator>>]
OneOver(denominators) == [i \in 1..Len(denominators) |-> <<1, denominators[i]>>]

CPV_BULB == <<1, 0>>

\* 0xD101, 0xD102 and 0xD103.
EOSProps ==
    PairMap(<<"Aperture", "ShutterSpeed", "ISO">>, <<53505, 53506, 53507>>)

Apertures ==
    Over(<<12, 14, 16, 18, 20, 22, 25, 28, 32, 35, 40, 45, 50, 56, 63, 71, 80, 90,
           100, 110, 130, 140, 160, 180, 200, 220, 250, 290, 320>>, 10)
ShutterSpeeds ==
    <<CPV_BULB>>
        \o Over(<<30, 25, 20, 15, 13, 10, 8, 6, 5, 4>>, 1)
        \o Over(<<32, 25>>, 10) \o Over(<<2>>, 1) \o Over(<<16, 13>>, 10)
        \o Over(<<1>>, 1) \o Over(<<8, 6, 5, 4, 3>>, 10)
        \o OneOver(<<4, 5, 6, 8, 10, 13, 15, 20, 25, 30, 40, 50, 60, 80, 100, 125,
                     160, 200, 250, 320, 400, 500, 640, 800, 1000, 1250, 1600, 2000,
                     2500, 3200, 4000, 5000, 6400, 8000>>)
ISOs ==
    Over(<<50, 100, 125, 160, 200, 250, 320, 400, 500, 640, 800, 1000, 1250, 1600,
           2000, 2500, 3200, 4000, 5000, 6400, 8000, 10000, 12800>>, 1)

\* The code for 1/5000 is 0x9A = 154, where the thirds have 0x9B.
EOSPropValues ==
    [Aperture |-> PairMap(Thirds(13, 88), Apertures),
     ShutterSpeed |->
        PairMap(<<4>> \o Thirds(16, 152) \o <<154>> \o Thirds(157, 160),
                ShutterSpeeds),
     ISO |-> PairMap(<<64>> \o Thirds(72, 128), ISOs)]

Props == DOMAIN EOSPropValues

\* No code and no value is in a table twice, so that FindKey and FindValue are
\* inverse to each other.
Invertible(map) ==
    /\ DOMAIN map \subseteq Nat
    /\ \A i, j \in DOMAIN map :
          map[i][1] = map[j][1] \/ map[i][2] = map[j][2] => i = j

ASSUME TablesAreInvertible ==
    Invertible(EOSProps) /\ \A p \in Props : Invertible(EOSPropValues[p])

-----------------------------------------------------------------------------

VARIABLES
    settings,   \* of the camera: property code -> value code
    changes,    \* what the camera has not reported yet
    batch,      \* eventData.events that getNewEvents has before it
    events,     \* the event queue
    view,       \* the values the application was told, one or none each
    warned,     \* the application has popped an ExceptionEvent
    isOpen,     \* the transport is open
    lastKnown,  \* history: the last code of each property that the tables have
    asked,      \* history: what setProp() set and the application waits to hear of
    changed     \* how many changes there were

vars == <<settings, changes, batch, events, view, warned, isOpen, lastKnown, asked,
          changed>>
appVars == <<view, warned>>
historyVars == <<lastKnown, asked, changed>>
cameraVars == <<settings, changes>>

Change(code, value) == [code |-> code, value |-> value]

\* The SetPropEvents a change is translated to: one, or none for a property or a
\* value that is not in the tables.
Translated(change) ==
    LET prop == FindKey(EOSProps, change.code)
        value == IF prop = <<>> \/ prop[1] \notin Props THEN <<>>
                 ELSE FindValue(EOSPropValues[prop[1]], change.value)
    IN  IF value = <<>> THEN <<>>
        ELSE <<[type |-> "SetProp", prop |-> prop[1], value |-> value[1]]>>

-----------------------------------------------------------------------------
(* The camera (external): it queues its changes until it is asked for them. *)

NoteKnown(change) ==
    lastKnown' = IF Translated(change) = <<>> THEN lastKnown
                 ELSE [lastKnown EXCEPT ![Translated(change)[1].prop] = <<change.value>>]

Take(code, value) ==
    /\ settings' = [settings EXCEPT ![code] = value]
    /\ changes' = Append(changes, Change(code, value))
    /\ NoteKnown(Change(code, value))
    /\ changed < MaxChanges /\ changed' = changed + 1

\* The user turns a dial by one click.
Turn(code) ==
    /\ \E i \in 1..Len(Dial[code]) :
          /\ Dial[code][i] = settings[code]
          /\ \E j \in {i - 1, i + 1} \cap 1..Len(Dial[code]) : Take(code, Dial[code][j])
    /\ UNCHANGED <<batch, events, appVars, isOpen, asked>>

\* The connection is lost, with what the camera had to report.
Lose ==
    /\ "lost" \in Faults /\ isOpen
    /\ isOpen' = FALSE /\ changes' = <<>>
    /\ UNCHANGED <<settings, batch, events, appVars, historyVars>>

-----------------------------------------------------------------------------
(* The library.                                                            *)

\* setProp(): it throws, and nothing changes, for a property or a value it has no
\* code for, and for a property the camera does not list or refuses to set.  A
\* camera that has the value already has no change to report.
SetProp(prop, value) ==
    LET canonProp == FindValue(EOSProps, prop)
        canonValue == IF prop \in Props THEN FindKey(EOSPropValues[prop], value) ELSE <<>>
    IN  /\ isOpen
        /\ canonProp # <<>> /\ canonProp[1] \in PropsSupported
        /\ canonValue # <<>> /\ canonValue[1] \in ToSet(Dial[canonProp[1]])
        /\ settings[canonProp[1]] # canonValue[1]
        /\ Take(canonProp[1], canonValue[1])
        /\ asked' = <<[type |-> "SetProp", prop |-> prop, value |-> value]>>
        /\ UNCHANGED <<batch, events, appVars, isOpen>>

\* Mutant: only the first event of the data is looked at.
Poll_FirstOnly ==
    /\ isOpen /\ batch = <<>> /\ changes # <<>>
    /\ batch' = <<Head(changes)>> /\ changes' = <<>>
    /\ UNCHANGED <<settings, events, appVars, isOpen, historyVars>>

\* EOSGetEvent: the camera reports all its changes and forgets them.
Poll ==
    /\ isOpen /\ batch = <<>> /\ changes # <<>>
    /\ batch' = changes /\ changes' = <<>>
    /\ UNCHANGED <<settings, events, appVars, isOpen, historyVars>>

\* The answer is an exception: dispatchException() pushes an ExceptionEvent and
\* the thread goes on.  A camera that refuses keeps its changes; those of an
\* answer that is garbled are gone.
PollFails ==
    /\ isOpen /\ batch = <<>>
    /\ \/ "refused" \in Faults /\ UNCHANGED changes
       \/ "garbled" \in Faults /\ changes' = <<>>
    /\ [type |-> "Exception"] \notin ToSet(events)   \* bound: one at a time
    /\ events' = Append(events, [type |-> "Exception"])
    /\ UNCHANGED <<settings, batch, appVars, isOpen, historyVars>>

\* Mutant: a change that is not in the tables ends the loop.
Translate_Breaks ==
    /\ batch # <<>>
    /\ events' = events \o Translated(Head(batch))
    /\ batch' = IF Translated(Head(batch)) = <<>> THEN <<>> ELSE Tail(batch)
    /\ UNCHANGED <<cameraVars, appVars, isOpen, historyVars>>

\* One round of the loop of getNewEvents.
Translate ==
    /\ batch # <<>>
    /\ events' = events \o Translated(Head(batch))
    /\ batch' = Tail(batch)
    /\ UNCHANGED <<cameraVars, appVars, isOpen, historyVars>>

Pop ==
    /\ events # <<>>
    /\ events' = Tail(events)
    /\ LET e == Head(events)
       IN  /\ view' = IF e.type = "SetProp" THEN [view EXCEPT ![e.prop] = <<e.value>>]
                      ELSE view
           /\ warned' = (warned \/ e.type = "Exception")
           /\ asked' = IF asked = <<e>> THEN <<>> ELSE asked
    /\ UNCHANGED <<cameraVars, batch, isOpen, lastKnown, changed>>

-----------------------------------------------------------------------------

\* After connect() the camera reports all its settings.
Init ==
    /\ settings = [c \in Codes |-> Dial[c][1]]
    /\ changes = SetToSeq({Change(c, settings[c]) : c \in Codes})
    /\ lastKnown = [p \in Props |->
          LET told == {c \in Codes : /\ FindKey(EOSProps, c) = <<p>>
                                     /\ Translated(Change(c, settings[c])) # <<>>}
          IN  IF told = {} THEN <<>> ELSE <<settings[CHOOSE c \in told : TRUE]>>]
    /\ batch = <<>> /\ events = <<>>
    /\ view = [p \in Props |-> <<>>] /\ warned = FALSE
    /\ isOpen = TRUE /\ asked = <<>> /\ changed = 0

Next ==
    \/ \E code \in Codes : Turn(code)
    \/ \E w \in Wanted : SetProp(w[1], w[2])
    \/ Lose \/ Poll \/ PollFails \/ Translate \/ Pop

Spec == Init /\ [][Next]_vars

\* The event thread goes on, not every poll fails, and the application pops events.
FairSpec == Spec /\ WF_vars(Poll \/ Translate) /\ WF_vars(Pop)

-----------------------------------------------------------------------------
(* Properties.                                                             *)

\* Unless an ExceptionEvent told it otherwise, an application that has read all
\* events knows of every property the last value that the tables have, and to set
\* it again would send the camera the code it came from: however dial and
\* setProp() cross the polls, and whatever else the camera reports.
ViewIsCamera ==
    isOpen /\ ~warned /\ changes = <<>> /\ batch = <<>> /\ events = <<>>
    => \A p \in Props :
          lastKnown[p] = IF view[p] = <<>> THEN <<>> ELSE FindKey(EOSPropValues[p], view[p][1])

\* What setProp() has set comes back as a SetPropEvent of that property and value,
\* unless the connection is lost or an ExceptionEvent tells that a poll failed.
SetIsTold == asked # <<>> ~> asked = <<>> \/ ~isOpen \/ warned

-----------------------------------------------------------------------------
(* The invariant the proofs use.                                           *)

Reported == [code : Codes, value : Nat]
Values ==
    UNION {{EOSPropValues[p][i][2] : i \in DOMAIN EOSPropValues[p]} : p \in Props}
Event ==
    [type : {"SetProp"}, prop : Props, value : Values] \cup [type : {"Exception"}]

TypeOK ==
    /\ settings \in [Codes -> Nat]
    /\ changes \in Seq(Reported) /\ batch \in Seq(Reported)
    /\ events \in Seq(Event)
    /\ view \in [Props -> Seq(Values)] /\ lastKnown \in [Props -> Seq(Nat)]
    /\ isOpen \in BOOLEAN /\ warned \in BOOLEAN

\* Changes and events that are about p, and those of them that have its last
\* value that the tables know.
ChangesOf(p) == {c \in Reported : Translated(c) # <<>> /\ Translated(c)[1].prop = p}
LastChangesOf(p) == {c \in ChangesOf(p) : <<c.value>> = lastKnown[p]}
EventsOf(p) == {e \in Event : e.type = "SetProp" /\ e.prop = p}
LastEventsOf(p) == {e \in EventsOf(p) : FindKey(EOSPropValues[p], e.value) = lastKnown[p]}

\* The last of S in q is one of Good; none of S is in q.
EndsWith(q, S, Good) ==
    \E i \in DOMAIN q : q[i] \in Good /\ \A j \in DOMAIN q : i < j => q[j] \notin S
HasNone(q, S) == \A i \in DOMAIN q : q[i] \notin S

\* The last value of p is the last one on the way from the camera to the
\* application: not yet reported, in the batch, in the event queue, or there.
OnItsWay(p) ==
    \/ EndsWith(changes, ChangesOf(p), LastChangesOf(p))
    \/ /\ HasNone(changes, ChangesOf(p))
       /\ \/ EndsWith(batch, ChangesOf(p), LastChangesOf(p))
          \/ /\ HasNone(batch, ChangesOf(p))
             /\ \/ EndsWith(events, EventsOf(p), LastEventsOf(p))
                \/ /\ HasNone(events, EventsOf(p))
                   /\ lastKnown[p] = IF view[p] = <<>> THEN <<>>
                                     ELSE FindKey(EOSPropValues[p], view[p][1])

\* Nothing has been lost that the application was not, or will not be, told of.
NothingLost == isOpen /\ ~warned /\ HasNone(events, [type : {"Exception"}])

IInv == TypeOK /\ (NothingLost => \A p \in Props : OnItsWay(p))
=============================================================================
