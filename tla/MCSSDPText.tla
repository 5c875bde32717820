------------------------------ MODULE MCSSDPText -------------------------------
(***************************************************************************)
(* SSDPText on two cameras.  c1 writes what the library's own packers      *)
(* write; c2 writes the same messages in another way that HTTP and XML     *)
(* allow, blanks, empty headers and self-closing tags among them.          *)
(***************************************************************************)
EXTENDS SSDPText

CONSTANTS c1, c2

Service1 == <<"urn", ":", "icpo">>
Service2 == <<"urn", ":", "mtp">>
TwoServices == {Service1, Service2}
Distinct == c1 :> Service1 @@ c2 :> Service2
AllFaults == {"fetch", "age", "noise"}

TwoServers ==
    c1 :> [hostname |-> <<"h1">>, port |-> 80, path |-> <<"/">>] @@
    c2 :> [hostname |-> <<"h2">>, port |-> 81, path |-> <<"/", "desc", ".", "xml">>]

TwoServed ==
    c1 :> [serialNumber |-> <<"s1">>, manufacturer |-> <<"f1">>,
           modelName |-> <<"m", " ", "1">>, friendlyName |-> <<"n1">>] @@
    c2 :> [serialNumber |-> <<>>, manufacturer |-> <<>>,
           modelName |-> <<"m2">>, friendlyName |-> <<"n2", " ">>]

-----------------------------------------------------------------------------
(* Advertisements.                                                         *)

Duration(age) == <<"max", "-", "age", "=">> \o (IF age = BadAge THEN <<"x">> ELSE Numeral(age))
Location1 == <<"http", ":", "/", "/", "h1">>
Location2(port) ==
    <<"http", ":", "/", "/", "h2", ":", port, "/", "desc", ".", "xml", "?", "q", "#", "f">>

Packed(m) ==
    LET headers == <<"Cache-Control">> :> Duration(m.age) @@ <<"Location">> :> Location1
        name == IF m.kind = "response" THEN <<"ST">> ELSE <<"NT">>
        nts == <<"ssdp", ":", IF m.kind = "byebye" THEN "byebye" ELSE "alive">>
    IN  PackMessage(
           [line |-> IF m.kind = "response" THEN <<HTTPVersion, <<"200">>, <<"OK">> >>
                     ELSE << <<"NOTIFY">>, <<"*">>, HTTPVersion>>,
            headers |-> (name :> m.service)
                @@ (IF m.kind = "response" THEN <<>> ELSE (<<"NTS">> :> nts))
                @@ (IF m.kind = "byebye" THEN <<>> ELSE headers),
            body |-> <<>>])

\* With a duration that is no number goes a port that is none.
Handwritten(m) ==
    LET port == IF m.age = BadAge THEN "x" ELSE "81"
        headers == <<"Location", ":">> \o Location2(port) \o <<" ">> \o CRLF
                \o <<"EXT", ":">> \o CRLF
                \o <<"Cache-Control", " ", ":", "\t">> \o Duration(m.age) \o CRLF
        service == <<":", " ">> \o m.service \o <<"\t", " ">> \o CRLF
        nts == <<"NTS", ":", "ssdp", ":", IF m.kind = "byebye" THEN "byebye" ELSE "alive", " ">>
    IN  IF m.kind = "response"
        THEN HTTPVersion \o <<" ", "200", " ", "O", " ", "K">> \o CRLF
                \o headers \o <<"ST">> \o service \o CRLF
        ELSE <<"NOTIFY", " ", "*", " ">> \o HTTPVersion \o CRLF
                \o (IF m.kind = "byebye" THEN <<>> ELSE headers)
                \o <<"NT">> \o service \o nts \o CRLF \o CRLF

TextsSent ==
    [m \in {Advertisement(kind, c, age) : kind \in {"alive", "byebye", "response"},
                                          c \in Cameras, age \in Ages \cup {BadAge}}
        |-> IF m.from = c1 THEN Packed(m) ELSE Handwritten(m)]

\* Another control point's search, another service, an NTS this code does not
\* know; a status that is not 200.
TwoNoises ==
    "other" :> {PackMessage(SearchMessage(Service1)),
                PackMessage([line |-> << <<"NOTIFY">>, <<"*">>, HTTPVersion>>, body |-> <<>>,
                             headers |-> <<"NT">> :> Service1
                                      @@ <<"NTS">> :> <<"ssdp", ":", "update">>])} @@
    "broken" :> {<<"NOTIFY", " ", "*", " ">> \o HTTPVersion \o CRLF
                    \o <<"Content-Length", ":", " ", "x">> \o CRLF \o CRLF} @@
    "empty" :> {<<>>}

-----------------------------------------------------------------------------
(* Answers.                                                                *)

Leaf(name, text) == Element(<<name>>, <<>>, <<Text(text)>>)

Document1 ==
    LET d == TwoServed[c1]
    IN  PackDoc(<<" ", "version">>,
           Element(<<"root">>, <<"xmlns">> :> <<"urn">>,
              <<Element(<<"device">>, <<>>,
                  <<Leaf("serialNumber", d.serialNumber), Leaf("manufacturer", d.manufacturer),
                    Leaf("modelName", d.modelName), Leaf("friendlyName", d.friendlyName)>>)>>))

Document2 ==
    LET d == TwoServed[c2]
        open(name) == <<"<", name, ">">>
        close(name) == <<"<", "/", name, " ", ">">> \o CRLF
    IN  <<"<", "?", "xml", " ", "version", "?", ">">> \o CRLF
            \o <<"<", "root">> \o CRLF \o <<"xmlns", " ", "=", "'", "urn", "'", " ", ">">> \o CRLF
            \o open("spec") \o open("friendlyName") \o <<"n1">> \o close("friendlyName") \o close("spec")
            \o open("device") \o CRLF \o <<"\t", "<", "icon", " ", "w", "=", "\"", "1", "\"", "/", ">">>
            \o open("friendlyName") \o d.friendlyName \o close("friendlyName")
            \o <<"<", "modelName", "\t", ">">> \o d.modelName \o close("modelName")
            \o <<"<", "serialNumber", "/", ">">>
            \o close("device") \o close("root")

Document(c) == IF c = c1 THEN Document1 ELSE Document2

Response(status, headers, body) ==
    HTTPVersion \o <<" ", status, " ", "text">> \o CRLF \o headers \o CRLF \o body

Length(text) == <<"Content-Length", ":", " ">> \o text \o CRLF
TypeXML == <<"Content-Type", ":", "text", "/", "xml">> \o CRLF

AnswerText(c, outcome) ==
    LET document == Document(c)
        full == Response("200", TypeXML \o Length(Numeral(Len(document))), document)
    IN  CASE outcome = "served" -> full
          [] outcome = "refused" ->
                Response("404", Length(Numeral(9)),
                         <<"<", "a", ">", "no", "<", "/", "a", ">", " ">>)
          [] outcome = "noLength" -> Response("200", TypeXML, document)
          [] outcome = "badLength" -> Response("200", Length(<<"x">>), document \o CRLF \o CRLF)
          [] outcome = "silent" -> <<>>
          [] outcome = "cut" -> SubSeq(full, 1, Len(full) - 1)
TextsAnswered == [c \in Cameras, outcome \in Outcomes |-> AnswerText(c, outcome)]
=============================================================================
