# Verification of CaptureBeam Control

TLA+ models of the C++ library under `src/src/cb`: camera discovery, the camera
object and its event thread, the PTP session, the PTP/IP transport, buffered
sockets, the event dispatcher, and the codecs of packets, HTTP and XML. TLC checks each model on small instances;
TLAPS proves, for every value of the constants, all safety properties that the runs
check but the two of `SSDPText`, and with them three of the four refinements by
which the layers rely on each other. `PROJECT.json` maps every definition to the lines it models.

    tlc -workers 2 -config MCCanon.cfg MCPTPCamera     # a run
    tlapm PTPCamera_proofs.tla                         # the proofs of a module

## 1. The system

An application finds cameras with a discovery, which hands out camera objects;
it calls them and polls events from both. Below a camera object is a stack of
five layers.

| Component | Source | State | Operations |
|---|---|---|---|
| SSDP discovery | `protocols/ssdp.*`, `discovery.h` | advertisements by service, event queue | `popEvent()`: read datagrams, fetch descriptions, expire, pop |
| HTTP, XML, UDP | `protocols/http.*`, `xml.*`, `udp.h` | the one `tcpSocket` of all fetches | `URL::request`, `HTTPMessage::recv`, packing and unpacking of messages, URLs and documents |
| Proxy and wrapper | `proxy.*` | the real camera or none, event queue | `connect`, `disconnect`, `capture`, `setProp`, `popEvent` |
| Factory | `factory.*` | none | connect, read DeviceInfo, choose the vendor |
| Camera object, PTP session | `ptp/ptp.*`, `camera.h` | session flag, session and transaction ids, cached DeviceInfo, event thread, mutex, event queue | the four calls, the destructor, the thread's polling |
| Canon, Nikon | `ptp/vendors/*` | none of their own | what each call sends; the tables of properties and values of an EOS |
| PTP/IP transport | `ptp/ip.*`, `ipData.h` | two sockets | `open`, `close`, `isOpen`, `transaction` |
| Sockets, TCP packets | `socket.*`, `protocols/tcp.*` | a block buffer, open or not | `send`, `recv`, `sendAttempt`, `recvAttempt`, packets |
| Platform sockets | `platforms/*` | an operating system socket | `wait`, `send`, `recv`, `isConnected`, `close` |
| Event dispatcher | `event.*` | handlers in two maps, an id counter | add, remove, dispatch, exceptions |
| Packet codec | `packet.*`, `ptpData.*`, `eventData.h` | none | `pack`, `unpack`, `getLength` |
| Manager, logger, exceptions, `main.cpp` | | | declarations, text, a demonstration |

How they interact:

* Calls go down the stack synchronously, failures come up as exceptions. The
  wrapper turns a call into an event that it dispatches to itself, so that an
  exception ends in `dispatchEvent()` and becomes an `ExceptionEvent`.
* One thread per connected camera, the event thread, shares the session, the
  transport and the event queue with the caller's. `transactionMutex` covers one
  request with its answer, and nothing else; the emitter has a mutex of its own.
* Events are pulled: `popEvent()` moves and returns them.
* A failed send or receive closes the socket it failed on. Nothing above is told:
  each layer asks `isOpen()` when it needs to know.

What is hard here, and what correctness means:

* **Camera object.** Two threads over one connection; session variables written
  without the mutex; an event thread that must exist exactly between the right
  calls, while every call may throw at each of its requests. Correct: one
  request at a time and each answer to its request; transaction ids without gap;
  no thread left behind, none that outlives what it calls; the session flag and
  the camera agree; after `disconnect()` nothing is left.
* **Transport.** Two sockets, of which each can fail alone; answers that come late
  or are not what is expected. Correct: an answer is to the request, and a
  connection is open only after both handshakes.
* **Sockets.** A stream cut anywhere, a block buffer, deadlines. Correct: packets
  come out whole and in order, or the socket is closed.
* **Camera properties.** Changes that are polled, from a dial and from `setProp()`,
  in codes of which the library knows a part. Correct: an application that reads
  its events knows what the camera has, and hears of what it has set.
* **Dispatcher.** Maps changed during iteration, exceptions in loops and in catch
  blocks. Correct: iterators valid, nobody skipped, budgets exact.
* **Discovery.** Fetches that block and fail in the middle of a poll, expiry,
  goodbyes. Correct: the events tell what is advertised.
* **HTTP and XML.** Texts that each sender writes in its own legal way, cut by a
  packer that looks for one of several ends and skips some characters; a socket
  that one fetch leaves to the next. Correct: a text is taken for what its sender
  means, and a camera is added with its own description or with none.
* **Wrapper.** Two queues and two sources. Correct: no event lost or reordered, no
  failure silent.

The hazards, each with its line and the properties aimed at it, are listed in
`PROJECT.json`.

## 2. The modules

    CameraWrapper --over--> CameraContract <--implemented by-- PTPCamera
    PTPIP --implements--> PTPTransport      (what PTPCamera's Begin/Finish rely on)
    BufferedSocket --implements--> PacketChannel    (what PTPIP's stream relies on)
    SSDPText --implements--> SSDPDiscovery          (what a datagram and a fetch mean)
    SSDPText --uses--> HTTPMessage, XMLDocument --use--> DelimitedText
    CanonProperties --data of--> PTPCamera's setProp and getNewEvents
    EventDispatcher   PacketCodec
    X_proofs --about--> X

The layers are linked by abstract specifications: each detailed module is shown
to implement the contract that the one above it uses. Modules named `MC...` only
add model values and symmetry.

### PTPCamera

One camera object. `pc` gives each thread a label; labels follow the calls the
code makes, in its order: `connect()` is `open`, `openTransport`, `number`,
`openTxn`, `opened`, then for Canon `eosInfo` to `eventOnM`, then `invalidate`,
`spawn`, `swap`, `swapJoin`, `pushConnect`; `disconnect()` is `stop`, `join`,
`remoteOff`, `eventOff`, `close` to `pushDisconnect`; the destructor has the
`dtor` labels. A transaction (`PTP::transaction`) is two actions, `Begin` (lock,
check `isOpen()`, number, send) and `Finish` (the answer or the exception), with
`NotConnected` for the check that fails: everything outside the mutex interleaves
with them. `Finish` ends in one of

* `ok`, `refused` (response code OK, or another one: an exception),
* `garbled` (`WrongDataLength`: an exception, the transport stays open),
* `unexpected` (`UnexpectedPacket`: an exception, the transport stays open and the
  rest of the reply stays on it),
* `lost` (a send or receive failed or timed out and closed the socket).

These are all the ends that `PTPIP::transaction` has. `wire` holds the requests
whose replies have not been read, oldest first; the transport reads the reply that
comes next, whoever's it is, so that `Finish` answers a thread with the oldest. After
`unexpected` the request stays in `wire` with nobody waiting for it (`Left`), and
from then on requests of both threads are answered with replies to earlier ones:
`isOpen()` is true, and `Begin` goes on. The camera meanwhile executes what it is sent
(`CamRunsAhead`). This ends when the connection does (`Dropped`). `link` is a
history variable: whether this has happened on the last connection (`outOfStep`),
or the answer to a `CloseSession` was garbled on it (`closeUnsure`). `cachedDI` says
whether the cached `DeviceInfo` is the camera's own or was read from another
reply; the latter may list anything (`Lists`).

An exception leaves the call where it is (`Throw`): to the caller with `threw`
set, to the event thread's handler, or swallowed by `~PTP`. `startEventThread`
is three steps, since `eventThread = std::jthread(...)` starts the new thread
first, and then stops and joins the old one inside the move assignment.
`ConnectionDrops` is `isConnected()` turning false between calls. The camera
`cam` is external: its session, the last transaction id it got, its shutter.
`view` is the last connection event the consumer popped, `detached` is a history
variable. The outcomes, the drops and the failures of `open()` are the fault model:
in `canon` and in the theorems every request of every call may end in each of the
five; the other runs take a part of them (section 3).

### CanonProperties

What `PTPCamera` leaves out: the codes that `setProp()` sends and the changes that
`getNewEvents()` reads. The tables are those of `canonData.cpp`, in full;
`FindKey` and `FindValue` are the searches of `PairMap`, and the assumption
`TablesAreInvertible`, which TLC evaluates, says that no code and no value is in a
table twice. `Poll` is the transaction, after which the changes are gone from the
camera; `Translate` is one round of the loop over them, between which the
application may call `setProp()` or pop; `PollFails` is the exception that
`dispatchException()` turns into an `ExceptionEvent`. Transactions are single
steps, since the mutex keeps them apart. The camera is external: `Turn` is a click
of a dial, and changes queue up until they are asked for; after `connect()` it
reports all settings. `lastKnown` and `asked` are history.

### PTPTransport, PTPIP

`PTPIP` has the handshake on the command socket, then on the event socket, and
the receive loop of `transaction()` packet by packet. A socket is `closed`,
`connected` or `ready`; `isOpen()` does not tell the last two apart. `stream`
holds the packets of the command connection; a reply is a response, alone or
after a data phase in one or two packets. `Faults` add refusals, timeouts,
drops, short data phases and packets of other types. `desync` records that
`UnexpectedPacket` was thrown since the last connect: the rest of that reply
stays in the stream. `PTPTransport` has the same: `inStep` is false once an
exception may have left part of a reply, and a response returned then answers any
request. The refinement maps `open` to `isOpen`, as PTP sees it, and `inStep` to
`~desync`.

### PacketChannel, BufferedSocket

A byte is its position in the stream, so that a packet boundary is a sum of
sizes; the peer's packets follow each other without gap and arrive byte by byte.
`RecvPacket` is `TCPPacket::recv`: `recvAttempt` of the length field, then of
the rest. `WaitReadable`, `WaitFails`, `Read`, `ReadFails` are the loop of
`recv()`; `Write`, `WriteFails` that of `send()`. `Expire` is the deadline.

### EventDispatcher

`stack` holds the loops of `dispatchEvent` and `dispatchException` under way, each
with its iterator. While a callback runs (`UserRuns`) the application may add and
remove handlers and dispatch again. `Throw` starts the exception loop within the
catch block; `ThrowAgain` is an exception handler that throws, out of that block.
Two rules are assumed of the application, because breaking them leaves the
iterator of an outer loop dangling: it does not remove the handler whose callback
runs, and it does not dispatch while a handler with a budget is in flight. All
uses in the repository keep them.

### SSDPDiscovery

One `popEvent()` after another: `Poll`; `ReadMulticast`, then `ReadUnicast`, each
until its socket is `Drained`; `Expire`; `Pop`. `Handle` is the body of either
loop: a datagram is an advertisement, a goodbye, something to pass over
(`other`), something that throws (`broken`), or nothing, which ends the loop
(`empty`). A description that is not known is fetched (`fetch`), which takes time
and may throw out of `popEvent()`; so does a `Cache-Control` value that is no
number, after the advertisement was stored. Datagrams arrive and time passes between
polls and while a fetch blocks; a loop that only reads takes no time.

### DelimitedText, HTTPMessage, XMLDocument

`DelimitedText` is `DelimitedString`, over texts whose tokens are words and single
characters: `PackText`; `UnpackText` with `SkipTrim`, `AfterStart`, `FirstEnd` and
`EndDistance`, the search for an end backwards from each character. The loops of
the code are functions over offsets. A packet of such fields is `PackFields` and
`UnpackFields`. `HTTPMessage` has the line, headers and body of a message, the
fields of a URL, the request of `URL::request` and the search message, each with
the packers the headers of the code declare. `XMLDocument` has `UnpackTag`,
`UnpackElement` and `UnpackDoc`, and what discovery reads of a description.
`NumberIn` is `std::stoi` and `std::stoul`, whose exception is `NoNumber`.
Characters that no property tells apart (letters within a word) are not told
apart.

### SSDPText

`SSDPDiscovery` over these texts. A datagram is a pair of what its sender means and
what it writes; `NotifySays` and `ResponseSays` are what the code takes the text
for. The fetch is `URL::request` step by step: `Connect` (whose result the code
does not look at) or `PortThrows`; `SendRequest` or `SendThrows`; `RecvHeader`,
`LengthThrows`, `RecvBody`, `RecvThrows`, the parts of `HTTPMessage::recv`; `Parse`,
or `ParseAborts` where `pop_back()` of an empty name is undefined. `tcpSocket` has
its peer and what waits on it to be read, so that what one fetch leaves is there
for the next. Cameras and their servers are external: they answer a search or a
request only when they understand its text (`Searched`, `Understood`), so that
what the library packs is checked too, and a server may refuse, answer without a
length or with a bad one, fall silent or do so midway.

### CameraContract, CameraWrapper

`CameraContract` is what a `Camera` promises its owner: calls return or throw, a
source of events starts only in `connect()` and is stopped when `disconnect()`
ends, a call that returns pushes its event last. `CameraWrapper` is
`CameraWrapper` over any such camera: `Call` dispatches, `Create` and
`CreateFails` are the factory, `HandleWithout` and `HandleWith` the handlers,
`HandlerReturns` and `HandlerThrows` their ends; `PopEvent`, `Drain`, `Popped` are
`popEvent()` with `getNewEvents()`, between whose rounds the camera's own thread
may push.

### PacketCodec

A packet is a sequence of fields of a few kinds, and the eight `Layouts` are the
packets of the library as far as their fields differ in kind. `Write` and `Read`
have one case per packer, over bytes; `Packed` is `Packet::pack` with its second
pass, `AfterPass` what packing leaves in the members, `Unpacked` is
`Packet::unpack` with the length field as limit, `Received` is `TCPPacket::recv`.
One object is assigned, packed and unpacked over and over, as `Logger::log` packs
what was received. `CameraPacks` is external: a camera writes by the rules of PTP,
an empty string as a single 0, and may leave out the last fields or add one.
`sent` is history: what the bytes stand for, or nothing when a count was written
before it was set. `InputsAssumption` says what an application has to assign: numbers
of their width, texts without a 0, packets that start with their own length. `Held`
says what a member may hold at all, which is more: texts unpacked from such bytes.

## 3. The runs

| Run | Instance | What it shows |
|---|---|---|
| `canon` | EOS M, DeviceInfoEx, all five outcomes, all calls and destruction, 2 event threads, both ids modulo 2, queue of 1 | types; `NoOrphanThread`; `ResponseIsOwn`; `TidConsecutive`; `DisconnectIsComplete`; `CaptureReleases`; `ConnectedIsPolled`; `SessionAgreement`; `DestroyAfterDisconnectIsSafe`; `SessionWritesUncontended`; `SilentAfterDisconnect`; that the object implements `CameraContract`; the inductive invariant of the proofs |
| `camera_live` | EOS with the single release operation, requests answered, refused, garbled or lost, under fairness | `CallsReturn`; `LossIsReported` |
| `events_tell_state` | Nikon, requests answered or lost | finding 1 |
| `ptpip` | all faults, 3 ids, data of up to 2 blocks | `NothingLeftOver`; `OnlyOwnPackets`; `OpenIsReady`; implements `PTPTransport`; `CallsEnd` |
| `socket` | packets of 2, 3 and 5 bytes, length field and block of 2, 2 packets each way, errors, end of stream | `InStep`; implements `PacketChannel`; `NothingAfterAPartialSend`; `TransfersEnd` |
| `dispatcher` | 3 handlers of 2 event types or exceptions, budgets 1, 2 or none, 3 nested loops | `IteratorsValid`; `NobodySkipped`; `BudgetIsExact`; `NoneExpiredAtRest` |
| `ssdp` | 2 cameras of 2 services, all faults, 3 pending items | `EventsMatchAdvertisements`; `NoSecondAdd`; `VanishedIsRemoved` |
| `ssdp_shared` | 2 cameras of one service | finding 2 |
| `ssdp_text` | 2 cameras, 2 pending items, noise, all faults; one camera writes what the library's packers write, the other another legal way | implements `SSDPDiscovery`; `DescriptionIsServed` |
| `canon_properties` | an EOS with 4 properties, 3 changes after `connect()`, polls refused, garbled or lost, under fairness | `ViewIsCamera`; `SetIsTold` |
| `codec` | bytes of 2 bits, words of 2 bytes, 8 layouts | `RoundTrip`; `CameraUnderstood` |
| `wrapper` | 4 events ever | `CameraEventsInOrder`; `ConnectionEventsInOrder`; `FailuresAreReported` |

Each property is stated in words above its definition. Every property of a
passing run is also checked to fail on a mutant of the model, one plausible
mistake in the code it is about; the mutants stand next to the definitions they
change.

### Bounds, and why they are enough

* Two event threads: `startEventThread` has at most the running one and the one
  that replaces it; their identities are reused after they ended. (The proofs hold
  for any number.) The threads are symmetric.
* Transaction and session ids modulo 2, but one session id in `camera_live`: they
  wrap within a few requests, and two consecutive ids differ wherever a property
  compares them. With 2^32 ids the wrap onto 0, the id used outside a session,
  happens in the same step. The theorems have any number.
* An event queue of 1 (2 in `events_tell_state`): a push waits for a pop, which the
  unbounded queue of the code never has to. Safety properties are about what is
  pushed, when, and by whom; the bound only removes behaviours in which pops lag.
* `MaxStale = 1` in `canon` bounds the replies that `UnexpectedPacket` leaves unread:
  with one, every later request is answered with the reply to the one before, which
  may be the other thread's or of another kind. A second such exception would put
  the answers two late.
* `MaxStale = 2` in `ptpip` bounds the packets left in the stream; one is enough
  for an answer to be taken for another one's.
* Sizes in `socket`: a packet that is all length field, one shorter than two
  blocks, one longer. Length field and block are both 2 bytes, so that fields and
  blocks straddle in all ways.
* Three handlers, three loops: a handler that is added, removed or expires while
  two loops walk over it.
* Discovery: 3 items among datagrams, events and advertisements allow a renewal
  and a goodbye to cross an expiry. Ages of 1 tick.
* `ssdp_text`: the texts of the second camera have blanks before and after names,
  values and within tags, empty headers, a port, path, query and fragment, `'`
  for `"`, a self-closing tag, a tag of the wanted name outside the device, line
  breaks in tags. Two pending items let a fetch that leaves something on the
  socket be followed by one that might read it. `MaxNumber = 255` bounds the
  lengths and ages in texts, all of which are smaller.
* `MaxEvents = 4` in `wrapper`: a failed call, a connect, a disconnect and an
  event of the thread, in all orders.
* `canon_properties`: three changes are two of a property that cross a `setProp()`
  of it, before, within and after a poll. The dials go through values of the
  tables and others: a half stop, 1/5000 at the third it belongs to, ISO auto; the
  fourth property is in no table, and one of the three others can only be turned.
  What is set is a value of each table, a value of none and a property of none.
  The tables themselves are not cut down.
* `codec`: with four values of a byte a PTP string is cut at 2 characters, as at 254
  with 256 values, and counted in one byte; its inputs go one character beyond.
  Packets are shorter than 16 bytes, so that their length fits a word (`Fits`).
  Half of the values of a byte are negative chars. Arrays, strings and vectors are
  empty, short and of different lengths, so that a stale count or length shows.
  `CharIsSigned` is TRUE: only then does a char change when it is widened.

Deadlock checking is off where the system really stops: after destruction
(`canon`), when both directions of `socket` have had all their packets,
when the history of `wrapper` is full, when the camera of
`canon_properties` has made its changes and all are read, and in `ssdp_text` where a build may abort
(`ParseAborts`).

### Fairness

* `camera_live`: the threads run; a transaction ends, at the latest after the 10 s
  timeout of `PTPIP::transaction`; a thread waiting for the mutex gets it in the
  end, since the event thread sleeps 200 ms between two requests without holding
  it; a poll returns finitely many properties; the application pops events.
  Pushes are strongly fair because the queue's bound is not the code's. `unexpected`
  is not among the outcomes of this run, since the state graph would grow beyond what
  liveness checking can do: an answer one late ends a call as any answer does, but
  that calls return on a connection out of step is not checked.
* `canon_properties`: the event thread polls and translates in the end, so not
  every poll fails, and the application pops events. A camera that refuses
  every poll is reported by `ExceptionEvent`s only.
* `ptpip`: a call goes on, every receive has a timeout.
* `socket`: the caller's loop runs, deadlines pass, the operating system takes
  bytes in the end. `send()` has no deadline: a socket that accepts zero bytes over
  and over would hold it for ever. `Write` takes at least one byte, so that this
  case is left out.
* `ssdp`: the application polls, a fetch ends, time passes. `VanishedIsRemoved`
  holds for behaviours in which polls no longer throw after some moment: an
  exception leaves `popEvent()` before it expires anything, and a service that
  makes every poll throw keeps all others from expiring. A fetch ends if the
  server's header block does: each of its bytes has a timeout of its own.
* `ssdp_text`: none, its properties are about single steps and the refinement of
  `Spec`. A camera that vanishes stays with `ssdp`, where liveness is checked.

## 4. Findings

1. `EventsTellState` (run `events_tell_state`). `README.md` promises events for
   state synchronization. `connect()` starts the event thread before it pushes its
   `ConnectEvent`; when the connection drops in between, the thread's
   `DisconnectEvent` is first in the queue, and the consumer ends with a
   `ConnectEvent` for a connection that is lost. It also ends so when
   `disconnect()` stops the thread before it has seen the loss, and then throws
   `NotConnected` itself.
2. `ByebyeRemovesItsCamera` (run `ssdp_shared`). "Remove camera on ssdp:byebye"
   erases by service name: the goodbye of one camera erases the advertisement of
   another of the same service.

Also seen, and part of what the models do: a session whose connection was lost is
never repaired by the object (`LostSessionIsTerminal`): `openSession()` finds
`isSessionOpen` set and returns, `closeSession()` throws before
`closeTransport()`; the wrapper keeps that object. It is proved as a limit
(`LostIsTerminal`), not checked as a property anyone would want.

`UnexpectedPacket` leaves the transport open with the rest of a reply unread, and
`transaction()` looks at no transaction id: from then on requests are answered with
what is left of earlier ones. A `capture()` may then return on stale answers before
its own `EOSRemoteReleaseOff` is executed, and a refused request may count as done.
`ResponseIsOwn`, `CaptureReleases` and `SessionAgreement` hold until this happens on a
connection, and say so; ids stay consecutive and threads and destruction safe also
after it, and a `disconnect()` that returns ends it. One thing survives even that: a
`DeviceInfo` read from another reply stays cached, and the next `connect()` asks it
whether the camera is an EOS, before it would be invalidated (`ptp.cpp:142`,
`canon.cpp:8`); the object may then throw `UnsupportedCamera` for ever. In the same
way a `CloseSession` whose answer is garbled leaves `isSessionOpen` set while the
camera has no session: each later request is refused, and `disconnect()` throws
before it closes the transport.

A refused event handshake leaves both sockets
connected, which `isOpen()` takes for an open transport. `main.cpp` lets its camera
go without `disconnect()`, so that the event thread may meet the pure virtual
`getNewEvents()`; after `disconnect()`, even one that threw, it cannot
(`DestroyAfterDisconnectIsSafe`). A `PTPArray`
writes its count before it sets it: in a packet without length field, such as
`DeviceInfo`, an array assigned by the application goes out with the count of the
one before (`Counted`); nothing in the repository packs such an object. Whoever
unpacks those bytes reads the text behind the array from the wrong place, where a 16
bit character whose low byte is 0 becomes a char 0 in the middle of the text; packed
again, the text ends there for every reader, which is why `Readable` asks for `Text`. A
`uint64_t` of 2^31 or more is read with the sign of its fourth byte extended
(`ReadInt`, `Readable`), so that `transaction()` would refuse a data phase of that
length.

In the tables of an EOS: 1/5000 has the code `0x9a`, where codes count thirds of a
stop and all others are `0`, `3` and `5` modulo 8 (`canonData.cpp:47`); a camera
that reports `0x9b` is not understood. A value that no table has (ISO auto, a half
stop) is no event, so that an application keeps the value before it
(`canon.cpp:106`), which `ViewIsCamera` says with `lastKnown`. `EVComp` is declared
and in no table: setting it throws `UnsupportedProperty`. A poll whose answer is
garbled loses the changes it carried.

In HTTP, XML and discovery: the status of an answer is not looked at, and a
refusal or an answer without a length adds a camera without a description
(`DescriptionIsServed`); an answer with an empty or nameless document calls
`pop_back()` on an empty name (`xml.cpp:72`), and one that ends in a lone `<`
makes the elements recurse without end (`xml.cpp:77-84`). `URL::request` leaves
its connection open when `std::stoul` throws; the next `connect()` closes it.
Blanks that lead a text node right after a tag are trimmed with the tag. The
query of a `Location` is not requested (`http.cpp:109`). Header names are
compared with their case; a header line without a colon takes the next one as its
value. The packer of header names trims blanks, so that a folded line is a header
of its own. The size test at `http.cpp:66` never holds, since `recvAttempt`
throws before. The message that is packed twice keeps the `Content-Length` of its
first body when the second is empty (`http.cpp:12`), and an element that is
unpacked twice keeps its attributes when the second tag has none
(`xml.cpp:54-60`); nothing in the repository does either. `main.cpp:50` calls
`popEvent()` without a handler for what it throws.

A nested packet of size zero would hold `Vector::unpack` for ever.
`recv()` without length and timeout reads one
block, where `socket.h` says until the socket is exhausted.

## 5. The proofs

Every theorem holds for all values of the constants that satisfy the named
assumption of its module (`ConstantsAssumption`, `DispatcherAssumption`,
`PropertiesAssumption`, ...), which TLC evaluates in the runs: any number of event
threads, handlers, nested loops, cameras, messages and events, any sizes of
packets and blocks, any id widths, any set of faults. Those of
`SSDPDiscovery_proofs` have a hypothesis more, explained below. `Spec` has no fairness in any of them.

| Module | Theorem | Statement |
|---|---|---|
| `PTPCamera_proofs` | `Invariance` | `Spec => []BaseInv` |
| | `TypeCorrect` | `Spec => []TypeOK` |
| | `NoOrphans` | `Spec => []NoOrphanThread` |
| | `ResponsesAreOwn` | `Spec => []ResponseIsOwn` |
| | `DestroySafe` | `Spec => []DestroyAfterDisconnectIsSafe` |
| | `DisconnectComplete` | `Spec => []DisconnectIsComplete` |
| | `SessionWritesSafe` | `Spec => SessionWritesUncontended` |
| | `LostIsTerminal` | `Spec => LostSessionIsTerminal` |
| | `SessionInvariance` | `Spec => []IInv` |
| | `TidsConsecutive` | `Spec => TidConsecutive` |
| | `ShutterReleased` | `Spec => []CaptureReleases` |
| | `SessionsAgree` | `Spec => []SessionAgreement` |
| | `ConnectionPolled` | `Spec => []ConnectedIsPolled` |
| | `DisconnectSilences` | `Spec => SilentAfterDisconnect` |
| | `KeepsContract` | `Spec => ImplementsCamera` |
| `PTPIP_proofs` | `Invariance`, `TypeCorrect` | `Spec => []IInv`, `Spec => []TypeOK` |
| | `NoLeftOvers` | `Spec => []NothingLeftOver` |
| | `OwnPacketsOnly` | `Spec => []OnlyOwnPackets` |
| | `OpenReady` | `Spec => []OpenIsReady` |
| | `KeepsTransport` | `Spec => ImplementsTransport` |
| `BufferedSocket_proofs` | `Invariance`, `TypeCorrect` | `Spec => []IInv`, `Spec => []TypeOK` |
| | `StaysInStep` | `Spec => []InStep` |
| | `KeepsChannel` | `Spec => ImplementsChannel` |
| | `PartialSendIsLast` | `Spec => NothingAfterAPartialSend` |
| `EventDispatcher_proofs` | `Invariance` | `Spec => []IInv` |
| | `IteratorsStayValid` | `Spec => []IteratorsValid` |
| | `NobodyIsSkipped` | `Spec => []NobodySkipped` |
| | `BudgetsAreExact` | `Spec => []BudgetIsExact` |
| | `NoneLeftExpired` | `Spec => []NoneExpiredAtRest` |
| `CameraWrapper_proofs` | `Invariance` | `Spec => []IInv` |
| | `CameraEventsStayInOrder` | `Spec => []CameraEventsInOrder` |
| | `ConnectionEventsStayInOrder` | `Spec => []ConnectionEventsInOrder` |
| | `NoSilentFailure` | `Spec => FailuresAreReported` |
| `SSDPDiscovery_proofs` | `Invariance` | `DistinctServices` gives `Spec => []IInv` |
| | `EventsTellAll` | `DistinctServices` gives `Spec => []EventsMatchAdvertisements` |
| | `NeverAddedTwice` | `DistinctServices` gives `Spec => NoSecondAdd` |
| `CanonProperties_proofs` | `Invariance` | `Spec => []IInv` |
| | `ViewStaysCamera` | `Spec => []ViewIsCamera` |
| `PacketCodec_proofs` | `Invariance` | `Spec => []IInv` |
| | `BytesReadBack` | `Spec => []RoundTrip` |
| | `CamerasUnderstood` | `Spec => []CameraUnderstood` |

Few of the properties are inductive by themselves. Each module ends with the
invariant its proofs use, `IInv`, as a conjunction of named parts. TLC checks that
of `PTPCamera` in `canon`; to check another one, add `IInv` to the
`INVARIANTS` of the module's run (they all hold there). A proof has one lemma per
action or group of actions and, under it, one step per conjunct that the action
can disturb; lemmas about sequences and maps come first.

### The camera object

    BaseInv == TypeOK /\ ThreadInv /\ DetachInv /\ TxnInv /\ CompleteInv
    IInv    == BaseInv /\ CallInv /\ RequestInv /\ TidInv /\ CaptureInv
               /\ AgreementInv /\ PollInv

`ThreadInv` says which threads exist at which label: any thread that ever started
is `eventThread` or `fresh`; `fresh` exists only during the assignment;
`eventThread` implies an open session, and at every label after a stop there is
none. This is what `NoOrphanThread` needs, and what makes the unguarded writes of
the session variables safe: `openSession()` only writes when `isSessionOpen` is
false, and then no thread exists. `DetachInv` says that `disconnect()` leaves no
thread even when it throws. `TxnInv` says that `transactionMutex` is held exactly
while a thread waits for the answer to the last request on the wire, that all
requests before it are of nobody any more, and that there are none of those on a
connection in step or on a closed one: `ResponsesAreOwn` follows. `CompleteInv` says that a
`disconnect()` under way is at one of `DisconnectLabels`, and that from
`pushDisconnect` until the next call, unless it threw, no event thread exists, the
transport is closed and the session is gone on both sides. It makes no use of the
operations the camera supports: that a camera which is no EOS, whose `connect()`
throws with the session open, is left clean by a later `disconnect()` is this
theorem, and no run is spent on it.

The rest relates the object to what the camera has been sent. `CallInv` ties each
call to its labels. `RequestInv` says that the last request on the wire, while a
thread waits for its answer and the camera has not replied to it yet, is the one of
its label, and carries the session's id if it opens it; it needs that no session
variable is written while a thread waits, which is `ThreadInv`. `TidInv` says that
the next id of a session is the one after the last the camera was sent: the ids
are counted once each, by the two threads together, although `transactionId` is
reset outside the mutex. It speaks of what is sent, so that it holds out of step too.
`CaptureInv` says that the shutter is only ever pressed on a camera that has
`EOSRemoteReleaseOn`, so that the `release` branch of `capture()`, chosen by a
`DeviceInfo` of the camera's own, never meets a pressed one. `AgreementInv` follows
the session from the answer to `OpenSession` on; a garbled answer to it leaves a
camera with a session and an object without, which the implication allows, and a
garbled answer to `CloseSession` the reverse, which `link` excludes. `PollInv` says
why an event thread may have ended: it was told to stop, or saw the transport closed,
which no call opens again under an open session (`LostIsTerminal`).

`KeepsContract` maps every step to one of `CameraContract` or to a stutter. That
this holds for a Nikon too, whose calls are a part of those of a Canon, is a
result of the theorems alone: no passing run has that vendor.

### Transport and sockets

`PTPIP`: `StreamInv` says that what is in the stream is exactly the rest of the
answer to the request under way, a data phase whose packets are of its own id and
then a response, and nothing between requests; unless `UnexpectedPacket` was
thrown since the connection was opened. `ReadyInv` says how far the handshakes are
at each label. `OwnPacketsOnly` and the refinement follow: a response received in
step is that of the pending transaction.

`BufferedSocket`: `PrefixInv` says that what was received is the beginning of what
was sent, `PositionInv` where the reader stands: behind the last packet by as much
as it has read of the next one, whose length it knows once the length field has
been read. The boundaries of packets are sums over the sequence of their sizes;
that they grow strictly, so that a position determines its packet, is proved by
induction. `SentInv` is what `NothingAfterAPartialSend` needs.

### Dispatcher

`IteratorInv` says that an iterator points to a handler that exists in the map its
loop walks over, and to one of its own type while that handler runs. `NestingInv` is the reason why no callback can make it dangle:
an outer loop is either calling a handler without a budget, which no inner loop
erases, or it has caught an exception, and the loop above it runs over another
map. `OwedInv` says that what a loop still owes a call lies ahead of its iterator,
which the order of ids gives. `BudgetInv` adds what is left of each budget. The two
rules the application keeps (section 2) are guards of `UserRuns`; the proofs need
both.

### Wrapper

`CameraEventsInOrder` and `ConnectionEventsInOrder` are nearly inductive: what was
popped, then what waits in the wrapper's queue, then in the camera's, is what was
pushed. `NoCamera` (no event of a camera before there is one) is what keeps the
wrapper's own `DisconnectEvent` from overtaking one, and `Dispatched` says which
call is where. The events of one source are a recursive function over the
sequence (`Picks`); that it distributes over concatenation and sees only the
elements it reads is proved by induction.

### Discovery

`EventsMatchAdvertisements` compares what the application will have learnt, its
view with the last waiting event of each camera applied (`Knows`), with the
advertisements. It needs `KeysInv` (an entry is found under the service of its
camera), `MessagesInv`, and `FetchInv`: what is fetched is not stored by anything
else while the fetch blocks. The theorems assume `DistinctServices`: two cameras
of one service share an entry, and the goodbye or the expiry of one is then taken
for the other's. That the hypothesis cannot be dropped is finding 2.

### Canon properties

    IInv == TypeOK /\ (NothingLost => \A p \in Props : OnItsWay(p))

`OnItsWay(p)` looks at the way of a change backwards, from the camera to the
application: the last change of `p` that has not been reported has the value
`lastKnown[p]`; or there is none, and the last one in the batch has it; or there is
none, and the last event of `p` in the queue has the value that the tables give it;
or there is none, and the application has that value. `NothingLost` ends with the
connection or an `ExceptionEvent`. `TablesAreInvertible` is used in both
directions: a translated value is translated back to the code it came from, and
no two codes are of one property, so that a change of another property never
speaks for this one.

### Packet codec

    IInv == TypeOK /\ Framed /\ Stands /\ ReadBack /\ Current

`ReadBack` is the heart of it: `Unpacked(buffer) = sent`, at any time, whoever packed
the bytes. `Framed` says that a packet with a length starts with its own, so that
`TCPPacket::recv` cuts it out of a stream; `Stands`, which bytes stand for anything:
all of a camera, and all that is packed with a length or without arrays; `Current`,
that the members after `unpack()` are those of the bytes. Nothing is assumed of what
the object held before: what `Pack` and `Unpack` do to a stale length, count or
text is part of the proof.

`CodecAssumption` leaves the width of a byte and of a word open (a word has at least
two bytes, as `WideString` needs) and the sign of a char; `MaxChars` is one
less than what a byte counts, which `BytesReadBack` needs for the terminator of a
PTP string. The proof goes from the bytes up:

* Integers: the digits that `Primitive::pack` writes make up the value
  (`DigitsMakeValue`, `IntReadsBack`, `LongReadsBack` with the sign of its lower half).
* Parts: `FlattenSeq` puts parts one after the other (`FlattenIs`), and `StandIn` names
  where each one ends.
* Packers: `ReadsAs(field, w, v)` says that the bytes `w` are the value `v` wherever
  they stand, whatever comes before and behind, and that the packer ends where they
  end; fields that take what is left have nothing behind. Each packer has its
  lemma (`WordReads`, `StringReads`, `PTPStringReads`, `ArrayReads`, `PacketsRead`, ...).
* Packets: `FieldsRead` takes the loop of `Packet::unpack` field by field, given where each
  one ends; `PackedReadsBack` is this for `Packet::pack`, where the second pass must
  have the length of the first (`SecondPassFits`), `CameraReadsBack` for a camera,
  where fields after the end are read at the limit (`DefaultReads`).
* `GarbageIsHeld`: from any bytes at all, members are read that the fields can hold.

`Readable` is a part of both properties; without the one about
numbers TLC finds `CameraUnderstood` violated, without the one about texts `RoundTrip`
(section 4).

### What is only model-checked

* All liveness (`CallsReturn`, `LossIsReported`, `CallsEnd`, `TransfersEnd`,
  `VanishedIsRemoved`, `SetIsTold`): it rests on fairness and `ENABLED`, which the
  prover does not handle.
* `ImplementsDiscovery` and `DescriptionIsServed` of `SSDPText`: what a text is
  taken for is computed by nested searches and folds over it. `XMLDocument`
  also declares a `RECURSIVE` operator, to pack a tree, with which no theorem can be
  proved in a module that extends it.

The induction theorems of the library take an operator as parameter and cannot be
instantiated here. Where a proof needs induction it goes by a set of naturals
instead: the set of the indexes at which the claim holds has no least counterexample
(`NatLessThanWellFounded` and `WFMin`). That a recursive function over `0..n` exists
is proved in the same way, for steps given as functions (`IterationExists` of
`PacketCodec_proofs`). That is enough for sums, selections and the packers, not for
recursion over nested data.

## 6. Not modelled

* Of the packet codec `DevicePropDesc`, a packet nothing asks for. Lengths are assumed
  to be at least that of the length field. The PTP/IP models have packets as
  records.
* Of discovery `begin()` and `bind()` of its sockets and a constructor that fails;
  at the level of texts the camera that vanishes, and liveness: the texts make the
  state graph too large for it. Documents are shorter than `MaxNumber` tokens,
  header fields are those that discovery reads, `Content-Type` and `EXT`.
* The operation, property and format codes that nothing uses (`canonData.h`,
  `nikonData.h`, `ptpData.h`). Logging.
* That the tables of an EOS are those of the cameras themselves: a camera may know
  other codes, as in the dials of `canon_properties`.
* A length field smaller than itself (`tcp.cpp:16`), with which `TCPPacket::recv` would
  receive a negative number of bytes.
* `CameraManager`, which is only declared.
* The WinSock and WiFiClient calls, beyond what they return.
* Memory-model effects of the unguarded session variables: `SessionWritesUncontended`
  shows that no other thread that reads them runs at such a write.
* `getDevicePropDesc()`, which nothing calls.

## 7. Plan

1. (done) The camera object with its proofs, then transport, sockets, dispatcher,
   discovery, wrapper, and the contracts between them.
2. (done) `PacketCodec`; `DelimitedText` with HTTP, XML and the fetch of a
   description over them; the tables of Canon with `setProp()` and the values of
   its events.
3. (done) Proofs of all safety properties of the camera object, the transport, the
   sockets, the dispatcher, the wrapper, discovery, `CanonProperties` and
   `PacketCodec`, with the refinements of `CameraContract`, `PTPTransport` and
   `PacketChannel`.
4. Proofs left: of `SSDPText` the part of `DescriptionIsServed` that is about the one
   socket (`Connect` closes what the fetch before left), which does not depend on how
   texts are read; it needs a module between the texts and the sockets that
   `XMLDocument` is no part of. The packers of `DelimitedText` could follow those of
   `PacketCodec`.
