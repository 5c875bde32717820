------------------------------- MODULE SSDPText --------------------------------
(***************************************************************************)
(* SSDPDiscovery with its datagrams as texts, and with the fetch of a      *)
(* description step by step: URL::request over the one TCP socket, the     *)
(* HTTP answer, the XML document.  It implements SSDPDiscovery, where a    *)
(* datagram is what its sender means and a fetch ends or fails.            *)
(***************************************************************************)
EXTENDS SSDPDiscovery, HTTPMessage, XMLDocument

CONSTANTS
    Texts,              \* advertisement -> the text its camera sends
    NoiseTexts,         \* kind of noise -> the texts of that kind
    Server,             \* camera -> [hostname, port, path] of its Location
    Served,             \* camera -> the description it means to give
    Answers             \* camera, outcome -> the text its server answers

VARIABLES
    stage,          \* where URL::request is, within pc = "fetch"
    tcpSocket,      \* tcpSocket, and what waits on its connection to be read
    buffer,         \* what HTTPMessage::recv has read
    willing         \* the server means to serve what is fetched (ghost)

fetchVars == <<stage, tcpSocket, buffer, willing>>
textVars == <<vars, fetchVars>>

-----------------------------------------------------------------------------
(* The network (external): a datagram is what it means and its text.       *)

Means(m) == [kind |-> m.kind, from |-> m.from, service |-> m.service, age |-> m.age]

Occurs(part, text) == \E i \in 0..Len(text) : IsPrefix(part, SubSeq(text, i + 1, Len(text)))

\* A camera answers a search that it understands.
Searched ==
    {c \in Cameras :
        LET text == PackMessage(SearchMessage(ServiceOf[c]))
            asks == {<<"ST", ":", " ">> \o ServiceOf[c] \o CRLF,
                     <<"Man", ":", " ", "\"", "ssdp", ":", "discover", "\"">> \o CRLF}
        IN  /\ IsPrefix(<<"M-SEARCH", " ", "*", " ">> \o HTTPVersion \o CRLF, text)
            /\ IsSuffix(CRLF \o CRLF, text)
            /\ \A a \in asks : Occurs(a, text)}

SendText(c) ==
    /\ c \notin gone
    /\ \E kind \in {"alive", "response", "byebye"}, age \in AgesSent \cup {BadAge} :
          /\ IF kind = "byebye" THEN age = BadAge ELSE age \in AgesSent
          /\ kind = "response" => c \in Searched
          /\ LET m == Advertisement(kind, c, age)
             IN  Arrives([meant |-> m, text |-> Texts[m]],
                         IF kind = "response" THEN "unicast" ELSE "multicast")
    /\ UNCHANGED fetchVars

DisturbText ==
    /\ "noise" \in Faults
    /\ \E m \in Noise, socket \in {"multicast", "unicast"} :
          \E text \in NoiseTexts[m.kind] : Arrives([meant |-> m, text |-> text], socket)
    /\ UNCHANGED fetchVars

-----------------------------------------------------------------------------
(* The loops over the sockets.                                             *)

\* The seconds of Cache-Control: none without "=", or without anything after it.
CacheAge(value) ==
    LET equals == {i \in 1..Len(value) : value[i] = "="}
        duration == IF equals = {} THEN <<>>
                    ELSE SubSeq(value, Min(equals) + 1, Len(value))
    IN  IF duration = <<>> THEN 0
        ELSE IF NumberIn(duration) = NoNumber THEN BadAge
        ELSE NumberIn(duration)

Advertised(kind, from, service, m) ==
    [kind |-> kind, from |-> from, service |-> service,
     age |-> IF kind = "byebye" THEN BadAge ELSE CacheAge(Header(m, "Cache-Control")),
     location |-> Header(m, "Location")]

\* What the code takes a datagram of the multicast socket for, and of the
\* unicast socket; its address is that of the sender.
NotifySays(text, from) ==
    LET notify(m, service, nts) ==
            IF m.line[1] # <<"NOTIFY">> \/ service \notin Services THEN [kind |-> "other"]
            ELSE CASE nts = <<"ssdp", ":", "byebye">> -> Advertised("byebye", from, service, m)
                   [] nts = <<"ssdp", ":", "alive">> -> Advertised("alive", from, service, m)
                   [] OTHER -> [kind |-> "other"]
        says(m) == IF m.contentLength = NoNumber THEN [kind |-> "broken"]
                   ELSE notify(m, Header(m, "NT"), Header(m, "NTS"))
    IN  IF text = <<>> THEN [kind |-> "empty"] ELSE says(UnpackMessage(text))

ResponseSays(text, from) ==
    LET says(m, service) ==
            IF m.contentLength = NoNumber THEN [kind |-> "broken"]
            ELSE IF m.line[2] # <<"200">> \/ service \notin Services THEN [kind |-> "other"]
            ELSE Advertised("response", from, service, m)
        response(m) == says(m, Header(m, "ST"))
    IN  IF text = <<>> THEN [kind |-> "empty"] ELSE response(UnpackMessage(text))

Sender(d) == IF "from" \in DOMAIN d.meant THEN d.meant.from ELSE CHOOSE c \in Cameras : TRUE

ReadMulticastText ==
    /\ pc = "multicast" /\ multicast # <<>>
    /\ multicast' = Tail(multicast) /\ UNCHANGED unicast
    /\ LET d == Head(multicast) IN Handle(NotifySays(d.text, Sender(d)))
    /\ stage' = IF pc' = "fetch" THEN "connect" ELSE "none"
    /\ UNCHANGED <<tcpSocket, buffer, willing>>

ReadUnicastText ==
    /\ pc = "unicast" /\ unicast # <<>>
    /\ unicast' = Tail(unicast) /\ UNCHANGED multicast
    /\ LET d == Head(unicast) IN Handle(ResponseSays(d.text, Sender(d)))
    /\ stage' = IF pc' = "fetch" THEN "connect" ELSE "none"
    /\ UNCHANGED <<tcpSocket, buffer, willing>>

-----------------------------------------------------------------------------
(* URL::request and HTTPMessage::recv.                                     *)

Closed == [peer |-> <<>>, stream |-> <<>>]
OpenTo(c) == [peer |-> <<c>>, stream |-> <<>>]

At(s) == pc = "fetch" /\ stage = s

\* An exception of the fetch, out of popEvent().
FetchThrows ==
    /\ Goto("idle") /\ stage' = "none"
    /\ current' = <<>>
    /\ buffer' = <<>> /\ willing' = FALSE
    /\ UNCHANGED <<multicast, unicast, advertisements, events, known, gone>>

Advance(s) ==
    /\ stage' = s
    /\ UNCHANGED vars

Location == UnpackURL(current.message.location)

\* The sockets a connect() may leave: it closes a connection that is open first.
Connections(url) ==
    LET servers == {c \in Cameras : /\ Server[c].hostname = url.hostname
                                    /\ Server[c].port = PortNumber(url)}
    IN  {OpenTo(c) : c \in servers}
            \cup (IF servers = {} \/ "fetch" \in Faults THEN {Closed} ELSE {})

\* Mutant: a connection that is open, and what waits on it, is kept.
Connect_Keeps ==
    /\ At("connect") /\ PortNumber(Location) # NoNumber
    /\ \E s \in Connections(Location) :
          tcpSocket' = [s EXCEPT !.stream = tcpSocket.stream]
    /\ Advance("request")
    /\ UNCHANGED <<buffer, willing>>

\* The result of connect() is not looked at.
Connect ==
    /\ At("connect") /\ PortNumber(Location) # NoNumber
    /\ tcpSocket' \in Connections(Location)
    /\ Advance("request")
    /\ UNCHANGED <<buffer, willing>>

\* std::stoi throws, before connect().
PortThrows ==
    /\ At("connect") /\ PortNumber(Location) = NoNumber
    /\ FetchThrows /\ UNCHANGED tcpSocket

\* What a server (external) does with a request: serve it, if it is one for its
\* document; refuse, answer without a length or with one that is no number, fall
\* silent or do so midway.
Outcomes == {"served"} \cup (IF "fetch" \notin Faults THEN {}
                              ELSE {"refused", "noLength", "badLength", "silent", "cut"})

Understood(c, request) ==
    LET host == <<"Host", ":", " ">> \o Server[c].hostname
    IN  /\ IsPrefix(<<"GET", " ">> \o Server[c].path \o <<" ">> \o HTTPVersion \o CRLF, request)
        /\ IsSuffix(CRLF \o CRLF, request)
        /\ Occurs(host, request)

SendRequest ==
    /\ At("request") /\ tcpSocket.peer # <<>>
    /\ LET c == tcpSocket.peer[1]
           request == PackMessage(RequestTo(Location))
       IN  \E outcome \in Outcomes :
              /\ willing' = (outcome = "served")
              /\ tcpSocket' = [tcpSocket EXCEPT !.stream = @ \o
                    Answers[c, IF outcome = "served" /\ ~Understood(c, request)
                               THEN "refused" ELSE outcome]]
    /\ buffer' = <<>>
    /\ Advance("header")

\* sendAttempt() throws on a socket that is not connected.
SendThrows ==
    /\ At("request") /\ tcpSocket.peer = <<>>
    /\ FetchThrows /\ UNCHANGED tcpSocket

\* Reads to the end of the header block, four characters first, then one by one:
\* as far as offset n of the stream; -1 if it never comes.
HeaderEnd(stream) ==
    LET ends == {n \in 4..Len(stream) : SubSeq(stream, n - 3, n) = CRLF \o CRLF}
    IN  IF ends = {} THEN -1 ELSE Min(ends)

Receive(n) ==
    /\ buffer' = buffer \o SubSeq(tcpSocket.stream, 1, n)
    /\ tcpSocket' = [tcpSocket EXCEPT !.stream = SubSeq(@, n + 1, Len(@))]

RecvHeader ==
    /\ At("header") /\ HeaderEnd(tcpSocket.stream) # -1
    /\ Receive(HeaderEnd(tcpSocket.stream))
    /\ UNCHANGED willing
    /\ LET length == UnpackMessage(buffer').contentLength
       IN  /\ length # NoNumber
           /\ Advance(IF length > 0 THEN "body" ELSE "parse")

\* std::stoul throws: the connection stays, and what waits on it.
LengthThrows ==
    /\ At("header")
    /\ LET n == HeaderEnd(tcpSocket.stream)
       IN  /\ n # -1
           /\ UnpackMessage(buffer \o SubSeq(tcpSocket.stream, 1, n)).contentLength = NoNumber
           /\ tcpSocket' = [tcpSocket EXCEPT !.stream = SubSeq(@, n + 1, Len(@))]
    /\ FetchThrows

RecvBody ==
    LET length == UnpackMessage(buffer).contentLength
    IN  /\ At("body") /\ Len(tcpSocket.stream) >= length
        /\ Receive(length)
        /\ Advance("parse")
        /\ UNCHANGED willing

\* recvAttempt() times out, closes the socket and throws.
RecvThrows ==
    /\ \/ At("header") /\ HeaderEnd(tcpSocket.stream) = -1
       \/ At("body") /\ Len(tcpSocket.stream) < UnpackMessage(buffer).contentLength
    /\ tcpSocket' = Closed
    /\ FetchThrows

\* The document is parsed and the event pushed; without a name the root is
\* undefined behaviour, which a build may also go through unharmed.
Parse ==
    /\ At("parse")
    /\ events' = Append(events, AddEvent(current.message.from)
                    @@ [description |-> Description(UnpackMessage(buffer).body)])
    /\ Record(current.message, current.loop)
    /\ current' = <<>>
    /\ stage' = "none" /\ tcpSocket' = Closed /\ buffer' = <<>> /\ willing' = FALSE
    /\ UNCHANGED <<multicast, unicast, known, gone>>

ParseAborts ==
    /\ At("parse") /\ NamelessRoot(UnpackMessage(buffer).body)
    /\ stage' = "aborted"
    /\ UNCHANGED <<vars, tcpSocket, buffer, willing>>

-----------------------------------------------------------------------------

TextInit ==
    /\ Init
    /\ stage = "none"
    /\ tcpSocket = Closed
    /\ buffer = <<>>
    /\ willing = FALSE

FetchStep ==
    \/ Connect \/ PortThrows \/ SendRequest \/ SendThrows
    \/ RecvHeader \/ LengthThrows \/ RecvBody \/ RecvThrows
    \/ Parse \/ ParseAborts

TextPollStep ==
    \/ ReadMulticastText \/ ReadUnicastText \/ FetchStep
    \/ (Poll \/ Drained \/ Expire \/ Pop) /\ UNCHANGED fetchVars

TextEnvironment ==
    \/ \E c \in Cameras : SendText(c)
    \/ DisturbText
    \/ Tick /\ UNCHANGED fetchVars

TextNext == TextPollStep \/ TextEnvironment

TextSpec == TextInit /\ [][TextNext]_textVars

-----------------------------------------------------------------------------
(* Properties.                                                             *)

Meant(datagrams) == [i \in 1..Len(datagrams) |-> datagrams[i].meant]

Abstract == INSTANCE SSDPDiscovery WITH
    multicast <- Meant(multicast),
    unicast <- Meant(unicast),
    current <- IF current = <<>> THEN <<>> ELSE [current EXCEPT !.message = Means(@)],
    events <- [i \in 1..Len(events) |-> [type |-> events[i].type, ip |-> events[i].ip]]

\* Every datagram is taken for what its sender means, in whatever legal way it is
\* written, and a fetch adds a camera once or throws with nothing stored.
ImplementsDiscovery == Abstract!Spec

Nothing == [serialNumber |-> <<>>, manufacturer |-> <<>>, modelName |-> <<>>,
            friendlyName |-> <<>>]

\* A camera is added with the description it serves itself at its Location, or
\* without any if its server does not serve one: never with that of another
\* camera, and never with what an earlier fetch left on the socket.
DescriptionIsServed ==
    [][Len(events') > Len(events) /\ Last(events').type = "Add"
       => Last(events').description =
             IF willing THEN Served[Last(events').ip] ELSE Nothing]_textVars
=============================================================================
