----------------------------- MODULE XMLDocument ------------------------------
(***************************************************************************)
(* XMLDoc, XMLElement and XMLText (src/cb/protocols/xml.h, xml.cpp), and   *)
(* what SSDPDiscovery reads of a device description.                       *)
(***************************************************************************)
EXTENDS DelimitedText, FiniteSets, TLC

XMLWhitespace == <<" ", "\r", "\n", "\t">>

NamePacker ==
    [Delimited(<< <<"<">> >>,
               << <<" ">>, <<"\r">>, <<"\n">>, <<"\t">>, <<">">>, <<"/", ">">> >>,
               XMLWhitespace) EXCEPT !.keepEnd = TRUE]
AttributeName == Delimited(<<>>, << <<"=">> >>, XMLWhitespace)
AttributeValue ==
    [Delimited(<< <<"\"">>, <<"'">> >>, << <<"\"">>, <<"'">> >>, XMLWhitespace)
        EXCEPT !.packTrim = TRUE]
ClosePacker == Delimited(<<>>, << <<">">> >>, XMLWhitespace)
EndPacker == Delimited(<< <<"<", "/">> >>, << <<">">> >>, XMLWhitespace)
Declaration == Delimited(<< <<"<", "?", "xml">> >>, << <<"?", ">">> >>, XMLWhitespace)

Text(text) == [kind |-> "text", text |-> text]
Element(name, attributes, children) ==
    [kind |-> "element", name |-> name, attributes |-> attributes, children |-> children]

-----------------------------------------------------------------------------
(* Packing.                                                                *)

RECURSIVE PackNode(_)

\* XMLText::pack and XMLElement::pack; an element without children has an end tag.
PackNode(node) ==
    IF node.kind = "text" THEN node.text
    ELSE LET attribute(n) == PackText(AttributeName, n)
                                \o PackText(AttributeValue, node.attributes[n])
         IN  PackText(NamePacker, node.name)
                \o FoldLeft(LAMBDA text, n : text \o attribute(n),
                            <<>>, SetToSeq(DOMAIN node.attributes))
                \o PackText(ClosePacker, <<>>)
                \o FoldLeft(LAMBDA text, child : text \o PackNode(child), <<>>, node.children)
                \o PackText(EndPacker, node.name)

\* XMLDoc::pack
PackDoc(declaration, root) ==
    (IF declaration = <<>> THEN <<>> ELSE PackText(Declaration, declaration))
        \o PackNode(root)

-----------------------------------------------------------------------------
(* Unpacking.                                                              *)

\* XMLText::unpack: up to the next tag.
UnpackTextNode(b, at) ==
    LET end[o \in at..Len(b)] == IF o < Len(b) /\ b[o + 1] # "<" THEN end[o + 1] ELSE o
        upTo(o) == [node |-> Text(SubSeq(b, at + 1, o)), at |-> o]
    IN  upTo(end[at])

\* The attributes from an offset, up to the end of the tag.
UnpackAttributes(b, at) ==
    LET put(rest, name, value) == [rest EXCEPT !.attributes = @ @@ (name :> value)]
        from[o \in at..Len(b)] ==
            LET after(name, value) == put(from[value.at], name, value.value)
                named(name) == after(name.value, UnpackText(AttributeValue, b, name.at))
            IN  IF o = Len(b) \/ b[o + 1] \in {"/", ">"}
                THEN [attributes |-> <<>>, at |-> o]
                ELSE named(UnpackText(AttributeName, b, o))
    IN  from[at]

\* The tag of an element: its name, which loses its last character, its
\* attributes, and whether it closes itself.
UnpackTag(b, at) ==
    LET tag(name, attributes, closing, o) ==
            [name |-> SubSeq(name, 1, Len(name) - 1), attributes |-> attributes,
             selfClosing |-> closing, at |-> o]
        closed(name, attributes, close) ==
            tag(name, attributes, close.value = <<"/">>, close.at)
        attributed(name, rest) ==
            closed(name, rest.attributes, UnpackText(ClosePacker, b, rest.at))
        named(name, o) ==
            IF IsSuffix(<<"/", ">">>, name) THEN tag(Front(name), <<>>, TRUE, o)
            ELSE IF IsSuffix(<<">">>, name) THEN tag(name, <<>>, FALSE, o)
            ELSE attributed(name, UnpackAttributes(b, o))
        start(r) == named(r.value, r.at)
    IN  start(UnpackText(NamePacker, b, at))

\* An end tag is next; a "<" that ends the text is none.
AtEndTag(b, o) == o + 1 < Len(b) /\ b[o + 1] = "<" /\ b[o + 2] = "/"

\* XMLElement::unpack
UnpackElement(b, at) ==
    LET element[o \in 0..Len(b)] ==
            LET children[i \in o..Len(b)] ==
                    LET put(node, rest) == [nodes |-> <<node>> \o rest.nodes, at |-> rest.at]
                        next(child) == put(child.node, children[child.at])
                    IN  IF i = Len(b) \/ AtEndTag(b, i) THEN [nodes |-> <<>>, at |-> i]
                        ELSE next(IF b[i + 1] = "<" THEN element[i] ELSE UnpackTextNode(b, i))
                result(tag, nodes, end) ==
                    [node |-> Element(tag.name, tag.attributes, nodes), at |-> end]
                inside(tag, inner) ==
                    result(tag, inner.nodes, UnpackText(EndPacker, b, inner.at).at)
                tagged(tag) == IF tag.selfClosing THEN result(tag, <<>>, tag.at)
                               ELSE inside(tag, children[tag.at])
            IN  tagged(UnpackTag(b, o))
    IN  element[at]

\* XMLDoc::unpack, as the root element.
UnpackDoc(b) == UnpackElement(b, UnpackText(Declaration, b, 0).at).node

\* The name of the root is empty, and pop_back() of it undefined.
NamelessRoot(b) ==
    UnpackText(NamePacker, b, UnpackText(Declaration, b, 0).at).value = <<>>

-----------------------------------------------------------------------------
(* Reading.                                                                *)

\* XMLElement::notFound
NotFound == Element(<<>>, <<>>, <<>>)

\* XMLElement::getTagByName: the first child with that name.
TagByName(e, name) ==
    LET first(found) == IF found = <<>> THEN NotFound ELSE found[1]
    IN  first(SelectSeq(e.children, LAMBDA n : n.kind = "element" /\ n.name = <<name>>))

\* XMLElement::operator std::string
TextOf(e) ==
    IF e.children # <<>> /\ e.children[1].kind = "text" THEN e.children[1].text ELSE <<>>

\* What a DiscoveryAddEvent says of the device that document b describes.
Description(b) ==
    LET of(device) == [tag \in {"serialNumber", "manufacturer", "modelName", "friendlyName"}
                          |-> TextOf(TagByName(device, tag))]
    IN  of(TagByName(UnpackDoc(b), "device"))
=============================================================================
