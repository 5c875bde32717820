---------------------------- MODULE DelimitedText -----------------------------
(***************************************************************************)
(* DelimitedString (packet.h, packet.cpp), the packer that HTTP, XML and   *)
(* URLs are made of.  A text is a sequence of tokens: a run of letters and *)
(* digits is one token, any other character is a token of its own.         *)
(*                                                                         *)
(* A reader returns the value and the offset after it, as in PacketCodec;  *)
(* no text has a length field, its only limit is its end.                  *)
(***************************************************************************)
EXTENDS Integers, Sequences, SequencesExt

\* A packer with the default flags; starts and ends are sequences of texts,
\* trim is a sequence of characters.
Delimited(start, end, trim) ==
    [start |-> start, end |-> end, trim |-> trim, packTrim |-> FALSE,
     packEmpty |-> TRUE, keepEnd |-> FALSE, seekEnd |-> TRUE]

FirstOf(texts) == IF texts = <<>> THEN <<>> ELSE texts[1]

\* DelimitedString::pack
PackText(p, value) ==
    IF value = <<>> /\ ~p.packEmpty THEN <<>>
    ELSE FirstOf(p.start) \o value
            \o (IF p.seekEnd THEN FirstOf(p.end) ELSE <<>>)
            \o (IF p.packTrim /\ p.trim # <<>> THEN <<p.trim[1]>> ELSE <<>>)

\* The offset of the first character at or after one that is not trimmed.
SkipTrim(p, b, at) ==
    LET skip[o \in at..Len(b)] ==
            IF o < Len(b) /\ Contains(p.trim, b[o + 1]) THEN skip[o + 1] ELSE o
    IN  skip[at]

\* Where the value starts: after one of the start texts, which trimmed
\* characters may interrupt, and which something must follow; -1 if there is none.
AfterStart(p, b, from) ==
    LET tested(o) == SelectSeq(SubSeq(b, from + 1, o), LAMBDA c : ~Contains(p.trim, c))
        scan[o \in from..Len(b)] ==
            IF o >= Len(b) THEN -1
            ELSE IF Contains(p.start, tested(o)) THEN o
            ELSE IF \A s \in ToSet(p.start) : Len(tested(o)) >= Len(s) THEN -1
            ELSE scan[o + 1]
    IN  IF p.start = <<>> THEN from ELSE scan[from]

\* Mutant: blanks before the end belong to the value.
EndDistance_KeepsBlanks(p, b, from, o, e) ==
    IF o - from >= Len(e) /\ SubSeq(b, o - Len(e) + 1, o) = e THEN Len(e) ELSE 0

\* How far before offset o the value that starts at an offset ends, if it is
\* followed there by the text e; 0 if it is not.  Trimmed characters within the
\* end and before it count as the end.
EndDistance(p, b, from, o, e) ==
    LET back[i \in from..o, j \in 0..Len(e)] ==
            IF j = 0 /\ (i = from \/ ~Contains(p.trim, b[i])) THEN o - i
            ELSE IF j = 0 THEN back[i - 1, 0]
            ELSE IF i = from THEN 0
            ELSE IF b[i] = e[j] THEN back[i - 1, j - 1]
            ELSE IF Contains(p.trim, b[i]) THEN back[i - 1, j]
            ELSE 0
    IN  back[o, Len(e)]

\* The first offset at which an end text is complete, and the distance from there
\* back to the end of the value, by the first such text in order; without an end
\* text the end of b.
FirstEnd(p, b, from) ==
    LET distances(o) ==
            SelectSeq([k \in 1..Len(p.end) |-> EndDistance(p, b, from, o, p.end[k])],
                      LAMBDA d : d > 0)
        scan[o \in from..Len(b)] ==
            IF o = Len(b) \/ distances(o) # <<>> THEN o ELSE scan[o + 1]
        end(o, ds) == [at |-> o, distance |-> IF ds = <<>> THEN 0 ELSE ds[1]]
        endAt(o) == end(o, distances(o))
    IN  endAt(scan[from])

\* DelimitedString::unpack: without its start the value is empty, without an end
\* it is the rest of the text.
UnpackText(p, b, at) ==
    LET upTo(start, end) ==
            [value |-> SubSeq(b, start + 1, end.at - IF p.keepEnd THEN 0 ELSE end.distance),
             at |-> IF p.seekEnd THEN SkipTrim(p, b, end.at) ELSE end.at - end.distance]
        after(start, from) ==
            IF start = -1 THEN [value |-> <<>>, at |-> from]
            ELSE upTo(start, FirstEnd(p, b, start))
        valueFrom(from) == after(AfterStart(p, b, from), from)
    IN  valueFrom(SkipTrim(p, b, at))

\* Packet::pack and Packet::unpack of a packet whose fields are delimited texts.
PackFields(packers, values) ==
    FlattenSeq([i \in 1..Len(packers) |-> PackText(packers[i], values[i])])

UnpackFields(packers, b) ==
    LET add(acc, r) == [values |-> Append(acc.values, r.value), at |-> r.at]
    IN  FoldLeft(LAMBDA acc, p : add(acc, UnpackText(p, b, acc.at)),
                 [values |-> <<>>, at |-> 0], packers)
=============================================================================
