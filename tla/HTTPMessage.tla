----------------------------- MODULE HTTPMessage ------------------------------
(***************************************************************************)
(* HTTPRequest, HTTPResponse and URL (src/cb/protocols/http.h, http.cpp):  *)
(* a message is its line of three fields, its headers (a function from     *)
(* names to values) and its body.                                          *)
(***************************************************************************)
EXTENDS DelimitedText, FiniteSetsExt, TLC

CR == "\r"
LF == "\n"
CRLF == <<CR, LF>>

HTTPVersion == <<"HTTP/1.1">>

\* The line of a request (method, target, version) or of a response (version,
\* statusCode, statusText).
MessageLine == <<Delimited(<<>>, << <<" ">> >>, <<>>), Delimited(<<>>, << <<" ">> >>, <<>>),
                 Delimited(<<>>, <<CRLF>>, <<>>)>>

HeaderName ==
    [Delimited(<<>>, << <<":">>, CRLF>>, <<" ", "\t">>) EXCEPT !.packTrim = TRUE]
HeaderValue == Delimited(<<>>, <<CRLF>>, <<" ", "\t">>)

-----------------------------------------------------------------------------
(* Numbers in texts: std::to_string, std::stoi and std::stoul.             *)

MaxNumber == 255    \* bound on the numbers in texts

Numeral(n) == <<ToString(n)>>

\* The number a text starts with, after blanks; NoNumber, where std::stoi and
\* std::stoul throw.
NoNumber == -1

NumberIn(text) ==
    LET word == SelectSeq(text, LAMBDA c : c # " ")
        found == {n \in 0..MaxNumber : word # <<>> /\ Head(word) = ToString(n)}
    IN  IF found = {} THEN NoNumber ELSE Min(found)

-----------------------------------------------------------------------------
(* Messages.                                                               *)

ContentLength == <<"Content-Length">>

\* HTTPMessage::pack: the headers, of which one is the length of the body.
PackMessage(m) ==
    LET line(name, value) == PackText(HeaderName, name) \o PackText(HeaderValue, value)
        block(headers) == FoldLeft(LAMBDA text, name : text \o line(name, headers[name]),
                                   <<>>, SetToSeq(DOMAIN headers))
    IN  PackFields(MessageLine, m.line)
            \o block(IF m.body = <<>> THEN m.headers
                     ELSE (ContentLength :> Numeral(Len(m.body))) @@ m.headers)
            \o PackText(HeaderValue, <<>>) \o m.body

\* The headers from an offset, up to an empty name; of two with one name the
\* later counts.
UnpackHeaders(b, at) ==
    LET put(rest, name, value) == [rest EXCEPT !.headers = @ @@ (name :> value)]
        lines[o \in at..Len(b)] ==
            LET after(name, value) == put(lines[value.at], name, value.value)
                line(name) ==
                    IF name.value = <<>> THEN [headers |-> <<>>, at |-> name.at]
                    ELSE after(name.value, UnpackText(HeaderValue, b, name.at))
            IN  line(UnpackText(HeaderName, b, o))
    IN  lines[at]

Header(m, name) == IF <<name>> \in DOMAIN m.headers THEN m.headers[<<name>>] ELSE <<>>

LengthIn(headers) ==
    IF ContentLength \in DOMAIN headers THEN NumberIn(headers[ContentLength]) ELSE 0

\* HTTPMessage::unpack: the body is as long as its header says, or as the text
\* is; without the header it is empty, and std::stoul may throw at it.
UnpackMessage(b) ==
    LET message(line, rest, length) ==
            [line |-> line, headers |-> rest.headers, contentLength |-> length,
             body |-> SubSeq(b, rest.at + 1, Min({rest.at + length, Len(b)}))]
        after(line, rest) == message(line, rest, LengthIn(rest.headers))
        from(line) == after(line.values, UnpackHeaders(b, line.at))
    IN  from(UnpackFields(MessageLine, b))

-----------------------------------------------------------------------------
(* URLs.                                                                   *)

\* Of a field that leaves its end to the next one.
UpTo(start, end) == [Delimited(start, end, <<>>) EXCEPT !.seekEnd = FALSE]

URLFields ==
    <<Delimited(<<>>, << <<":", "/", "/">> >>, <<>>),
      UpTo(<<>>, << <<":">>, <<"/">> >>),
      UpTo(<< <<":">> >>, << <<"/">> >>),
      UpTo(<<>>, << <<"?">>, <<"#">> >>),
      UpTo(<< <<"?">> >>, << <<"#">> >>),
      UpTo(<< <<"#">> >>, <<>>)>>

UnpackURL(text) ==
    LET url(values) == [hostname |-> values[2], port |-> values[3], path |-> values[4]]
    IN  url(UnpackFields(URLFields, text).values)

PortNumber(url) == IF url.port = <<>> THEN 80 ELSE NumberIn(url.port)

\* The request URL::request sends: the path without query and fragment.
RequestTo(url) ==
    [line |-> << <<"GET">>, IF url.path = <<>> THEN <<"/">> ELSE url.path, HTTPVersion>>,
     headers |-> <<"Host">> :> url.hostname \o
                        (IF url.port = <<>> THEN <<>> ELSE <<":">> \o url.port)
                 @@ <<"Connection">> :> <<"close">>,
     body |-> <<>>]

\* SSDPSearchMessage
SearchMessage(searchTarget) ==
    [line |-> << <<"M-SEARCH">>, <<"*">>, HTTPVersion>>,
     headers |-> <<"Host">> :> <<"239.255.255.250", ":", "1900">>
                 @@ <<"Man">> :> <<"\"", "ssdp", ":", "discover", "\"">>
                 @@ <<"MX">> :> Numeral(3)
                 @@ <<"ST">> :> searchTarget,
     body |-> <<>>]
=============================================================================
