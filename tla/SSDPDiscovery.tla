---------------------------- MODULE SSDPDiscovery -----------------------------
(***************************************************************************)
(* SSDPDiscovery (src/cb/protocols/ssdp.cpp): one call of popEvent() after *)
(* another, each of which reads the datagrams that wait on the multicast   *)
(* and the unicast socket, fetches the description of a service it does    *)
(* not know, drops advertisements that have expired and pops one event.    *)
(* Cameras advertise, say goodbye, or vanish; time passes at any moment,   *)
(* also while a fetch blocks.  The application folds the events it pops    *)
(* into the set of addresses it knows.                                     *)
(***************************************************************************)
EXTENDS Integers, Sequences, FiniteSets, SequencesExt

CONSTANTS
    Cameras,        \* cameras, each at an address of its own
    Services,       \* searchTargets
    ServiceOf,      \* the service a camera advertises
    Ages,           \* max-age values, in ticks, that cameras advertise
    BadAge,         \* a Cache-Control value that std::stoi rejects
    Faults,         \* "fetch": a description may be out of reach; "age"; "noise"
    MaxPending      \* bound on what waits: datagrams, events, advertisements

ASSUME DiscoveryAssumption ==
    /\ ServiceOf \in [Cameras -> Services]
    /\ Ages \subseteq Nat /\ BadAge \notin Int
    /\ Faults \subseteq {"fetch", "age", "noise"}
    /\ MaxPending \in Nat

VARIABLES
    pc,             \* where popEvent() is
    multicast,      \* NOTIFY datagrams that wait
    unicast,        \* M-SEARCH responses that wait
    current,        \* the message whose description is being fetched
    advertisements, \* service -> the address, and the ticks left
    events,         \* EventEmitter::events
    known,          \* the addresses the application knows of
    gone            \* cameras that will not be heard of again (external)

vars == <<pc, multicast, unicast, current, advertisements, events, known, gone>>

\* What a datagram says.  A "broken" one has a Content-Length that std::stoul
\* rejects; an "empty" one is empty, too long for the buffer, or an error.
Advertisement(kind, c, age) ==
    [kind |-> kind, from |-> c, service |-> ServiceOf[c], age |-> age]
Noise == [kind : {"other", "broken", "empty"}]

AddEvent(c) == [type |-> "Add", ip |-> c]
RemoveEvent(c) == [type |-> "Remove", ip |-> c]

Without(service) ==
    [s \in DOMAIN advertisements \ {service} |-> advertisements[s]]

-----------------------------------------------------------------------------
(* The network (external).                                                 *)

\* Datagrams arrive between two polls or while a fetch blocks: a loop that only
\* reads takes no time, and sees them in the same order.  The age of a message
\* matters only where it is read.
Arrives(m, socket) ==
    /\ pc \in {"idle", "fetch"}
    /\ Len(multicast) + Len(unicast) + Len(events)
         + Cardinality(DOMAIN advertisements) < MaxPending
    /\ \/ /\ socket = "multicast"
          /\ multicast' = Append(multicast, m) /\ UNCHANGED unicast
       \/ /\ socket = "unicast"
          /\ unicast' = Append(unicast, m) /\ UNCHANGED multicast
    /\ UNCHANGED <<pc, current, advertisements, events, known, gone>>

AgesSent == Ages \cup (IF "age" \in Faults THEN {BadAge} ELSE {})

Send(c) ==
    /\ c \notin gone
    /\ \/ \E age \in AgesSent : Arrives(Advertisement("alive", c, age), "multicast")
       \/ \E age \in AgesSent : Arrives(Advertisement("response", c, age), "unicast")
       \/ Arrives(Advertisement("byebye", c, BadAge), "multicast")

Disturb ==
    /\ "noise" \in Faults
    /\ \E m \in Noise, socket \in {"multicast", "unicast"} : Arrives(m, socket)

\* A camera vanishes: switched off, out of range.
Vanish(c) ==
    /\ gone' = gone \cup {c} /\ c \notin gone
    /\ UNCHANGED <<pc, multicast, unicast, current, advertisements, events, known>>

Tick ==
    /\ \E s \in DOMAIN advertisements : advertisements[s].left >= 0
    /\ advertisements' = [s \in DOMAIN advertisements |->
            [advertisements[s] EXCEPT !.left = IF @ >= 0 THEN @ - 1 ELSE @]]
    /\ UNCHANGED <<pc, multicast, unicast, current, events, known, gone>>

-----------------------------------------------------------------------------
(* getNewEvents()                                                          *)

Goto(l) == pc' = l

Poll ==
    /\ pc = "idle"
    /\ Goto("multicast")
    /\ UNCHANGED <<multicast, unicast, current, advertisements, events, known, gone>>

\* The end of processAdvertisement: the time and the address of m, then the
\* seconds of Cache-Control; std::stoi throws out of popEvent() when it finds
\* no number, after the advertisement was stored.
Record(m, next) ==
    /\ advertisements' =
          [s \in DOMAIN advertisements \cup {m.service} |->
              IF s = m.service
              THEN [ip |-> m.from, left |-> IF m.age = BadAge THEN 0 ELSE m.age]
              ELSE advertisements[s]]
    /\ Goto(IF m.age = BadAge THEN "idle" ELSE next)

\* processAdvertisement: a service that is known is renewed; the description
\* of any other is fetched first.
Process(m, loop) ==
    /\ IF m.service \in DOMAIN advertisements
       THEN Record(m, loop) /\ UNCHANGED current
       ELSE /\ current' = [message |-> m, loop |-> loop]
            /\ Goto("fetch")
            /\ UNCHANGED advertisements
    /\ UNCHANGED <<events, known, gone>>

Goodbye(m) ==
    /\ events' = Append(events, RemoveEvent(m.from))
    /\ advertisements' = Without(m.service)
    /\ UNCHANGED <<pc, current, known, gone>>

After(loop) == IF loop = "multicast" THEN "unicast" ELSE "expire"

\* What the loop pc does with a datagram that says m.  "other" is not NOTIFY, not
\* 200, another service or another NTS; an exception leaves popEvent(); and a
\* datagram of which nothing is received ends the loop, like none.
Handle(m) ==
    \/ m.kind \in {"alive", "response"} /\ Process(m, pc)
    \/ m.kind = "byebye" /\ Goodbye(m)
    \/ /\ \/ m.kind = "other" /\ UNCHANGED pc
          \/ m.kind = "broken" /\ Goto("idle")
          \/ m.kind = "empty" /\ Goto(After(pc))
       /\ UNCHANGED <<current, advertisements, events, known, gone>>

ReadMulticast ==
    /\ pc = "multicast" /\ multicast # <<>>
    /\ multicast' = Tail(multicast) /\ UNCHANGED unicast
    /\ Handle(Head(multicast))

ReadUnicast ==
    /\ pc = "unicast" /\ unicast # <<>>
    /\ unicast' = Tail(unicast) /\ UNCHANGED multicast
    /\ Handle(Head(unicast))

Drained ==
    /\ \/ pc = "multicast" /\ multicast = <<>>
       \/ pc = "unicast" /\ unicast = <<>>
    /\ Goto(After(pc))
    /\ UNCHANGED <<multicast, unicast, current, advertisements, events, known, gone>>

Fetched ==
    /\ pc = "fetch"
    /\ events' = Append(events, AddEvent(current.message.from))
    /\ Record(current.message, current.loop)
    /\ current' = <<>>
    /\ UNCHANGED <<multicast, unicast, known, gone>>

\* Mutant: the advertisement is stored although its description was not read.
FetchFails_Records ==
    /\ pc = "fetch" /\ "fetch" \in Faults
    /\ Record(current.message, "idle")
    /\ current' = <<>>
    /\ UNCHANGED <<multicast, unicast, events, known, gone>>

\* A send or a receive of URL::request throws, out of popEvent(): the message
\* is lost, later ones wait for the next call, nothing expires and no event is
\* popped in this one.
FetchFails ==
    /\ pc = "fetch" /\ "fetch" \in Faults
    /\ Goto("idle")
    /\ current' = <<>>
    /\ UNCHANGED <<multicast, unicast, advertisements, events, known, gone>>

Expired == {s \in DOMAIN advertisements : advertisements[s].left < 0}

\* Mutants: expired advertisements are dropped without a word; never dropped.
Expire_Silent ==
    /\ pc = "expire"
    /\ advertisements' =
          [s \in DOMAIN advertisements \ Expired |-> advertisements[s]]
    /\ Goto("pop")
    /\ UNCHANGED <<multicast, unicast, current, events, known, gone>>

Expire_Never ==
    /\ pc = "expire"
    /\ Goto("pop")
    /\ UNCHANGED <<multicast, unicast, current, advertisements, events, known, gone>>

Expire ==
    /\ pc = "expire"
    /\ events' = events \o [i \in 1..Cardinality(Expired) |->
                    RemoveEvent(advertisements[SetToSeq(Expired)[i]].ip)]
    /\ advertisements' =
          [s \in DOMAIN advertisements \ Expired |-> advertisements[s]]
    /\ Goto("pop")
    /\ UNCHANGED <<multicast, unicast, current, known, gone>>

\* What the application knows once it has seen event e.
Learn(view, e) == IF e.type = "Add" THEN view \cup {e.ip} ELSE view \ {e.ip}

\* EventEmitter::popEvent, and the application.
Pop ==
    /\ pc = "pop"
    /\ IF events = <<>> THEN UNCHANGED <<events, known>>
       ELSE events' = Tail(events) /\ known' = Learn(known, Head(events))
    /\ Goto("idle")
    /\ UNCHANGED <<multicast, unicast, current, advertisements, gone>>

-----------------------------------------------------------------------------

Init ==
    /\ pc = "idle"
    /\ multicast = <<>> /\ unicast = <<>>
    /\ current = <<>>
    /\ advertisements = <<>>
    /\ events = <<>> /\ known = {}
    /\ gone = {}

PollStep ==
    \/ Poll \/ ReadMulticast \/ ReadUnicast \/ Drained
    \/ Fetched \/ FetchFails \/ Expire \/ Pop

Environment ==
    \/ \E c \in Cameras : Send(c) \/ Vanish(c)
    \/ Disturb
    \/ Tick

Next == PollStep \/ Environment

Spec == Init /\ [][Next]_vars

\* The application polls, a fetch ends, and time passes.
FairSpec == Spec /\ WF_vars(PollStep) /\ WF_vars(Tick)

-----------------------------------------------------------------------------
(* Properties.                                                             *)

\* Whether an application that knows the cameras of view knows c, once it has
\* popped every event of log: the last one about c decides.
Knows(view, log, c) ==
    \/ \E i \in DOMAIN log :
          /\ log[i] = AddEvent(c)
          /\ \A j \in DOMAIN log : i < j => log[j].ip # c
    \/ c \in view /\ \A i \in DOMAIN log : log[i].ip # c

Caught == {c \in Cameras : Knows(known, events, c)}

\* The events tell the application exactly the addresses that are advertised,
\* whatever fetches fail or block and in whatever order datagrams arrive
\* (cameras of distinct services).
EventsMatchAdvertisements ==
    Caught = {advertisements[s].ip : s \in DOMAIN advertisements}

\* The application is never told to add a camera that it has not been told to
\* remove since: main() would connect to it a second time.
NoSecondAdd ==
    [][Len(events') > Len(events) /\ Last(events').type = "Add"
       => Last(events').ip \notin Caught]_vars

\* An exception leaves popEvent(), before anything expires or is popped.
PollThrows == pc \notin {"idle", "pop"} /\ pc' = "idle"

\* A camera that vanishes without a goodbye is forgotten, if in the end polls
\* no longer throw.
VanishedIsRemoved ==
    <>[][~PollThrows]_vars => \A c \in Cameras : c \in gone ~> c \notin known

\* What the comment at the byebye branch says: it removes the camera.  The other
\* cameras the application knows stay advertised.
ByebyeRemovesItsCamera ==
    [][pc = "multicast" /\ Len(events') > Len(events)
       => \A s \in DOMAIN advertisements \ DOMAIN advertisements' :
             advertisements[s].ip = Last(events').ip]_vars

-----------------------------------------------------------------------------
(* The invariant the proofs use.                                           *)

\* Cameras of one service share an entry of advertisements, and what one of
\* them says is then taken for the other's.
DistinctServices == \A c, d \in Cameras : ServiceOf[c] = ServiceOf[d] => c = d

Message ==
    Noise \cup [kind : {"alive", "response", "byebye"}, from : Cameras,
                service : Services, age : Ages \cup {BadAge}]

Event == [type : {"Add", "Remove"}, ip : Cameras]

TypeOK ==
    /\ pc \in {"idle", "multicast", "unicast", "fetch", "expire", "pop"}
    /\ multicast \in Seq(Message) /\ unicast \in Seq(Message)
    /\ IsFiniteSet(DOMAIN advertisements)
    /\ advertisements \in [DOMAIN advertisements -> [ip : Cameras, left : Int]]
    /\ events \in Seq(Event)
    /\ known \subseteq Cameras

\* A message is about the service of the camera that sent it.
OwnService(m) == m.kind \in {"alive", "response", "byebye"} => m.service = ServiceOf[m.from]

MessagesInv ==
    /\ \A i \in DOMAIN multicast : OwnService(multicast[i])
    /\ \A i \in DOMAIN unicast : OwnService(unicast[i])

\* An entry of advertisements is found under the service of its camera.
KeysInv == \A s \in DOMAIN advertisements : ServiceOf[advertisements[s].ip] = s

\* The description that is fetched is that of a service still unknown: nothing
\* else is stored while the fetch blocks.
FetchInv ==
    pc = "fetch" =>
        /\ current.message \in Message /\ OwnService(current.message)
        /\ current.message.kind \in {"alive", "response"}
        /\ current.message.service \notin DOMAIN advertisements
        /\ current.loop \in {"multicast", "unicast"}

IInv ==
    TypeOK /\ MessagesInv /\ KeysInv /\ FetchInv /\ EventsMatchAdvertisements
=============================================================================
