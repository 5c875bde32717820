----------------------------- MODULE PacketCodec ------------------------------
(***************************************************************************)
(* Packets and their bytes (packet.h, packet.cpp and ptpData.cpp): a       *)
(* packet is a sequence of fields, each with a packer that writes it and   *)
(* reads it back within a limit.  One packet object is assigned, packed    *)
(* and unpacked over and over (Logger::log packs what was received); the   *)
(* bytes it unpacks are its own, or those a camera sent by the rules of    *)
(* PTP.                                                                    *)
(*                                                                         *)
(* A packer that reads returns the value and the offset after it; its      *)
(* limit is getUnpackLimit(buffer.size(), limitOffset) throughout.         *)
(***************************************************************************)
EXTENDS Integers, Sequences, SequencesExt

CONSTANTS
    Base,           \* number of values of a byte, 256 in the code
    Word,           \* bytes of a uint32_t and of an int, 4 in the code
    MaxChars,       \* PTPString::MAX_CHARS, 254 in the code
    CharIsSigned,   \* of the build: char is signed (windows), or not (esp32)
    Inputs          \* the values that are assigned, for each kind of field

Half == Base \div 2
Long == 2 * Word    \* bytes of a uint64_t

\* An int is no shorter than a uint16_t.
ASSUME CodecAssumption ==
    /\ Base \in Nat /\ Half > 0 /\ Base = 2 * Half
    /\ Word \in Nat /\ Word >= 2
    /\ MaxChars = Base - 2
    /\ CharIsSigned \in BOOLEAN

VARIABLES
    kind,       \* the class of the packet
    values,     \* the members of the packet object, one per field
    buffer,     \* the bytes last packed
    packedBy,   \* history: who packed them, "nobody" at first
    sent,       \* history: the values they stand for
    fromBytes   \* history: the members are what was read from the bytes

vars == <<kind, values, buffer, packedBy, sent, fromBytes>>

-----------------------------------------------------------------------------
(* The packets the library defines, as far as their fields differ in kind. *)

Layouts ==
    [InitCommandRequest |-> <<"length", "word", "string", "word">>,
     OperationResponse  |-> <<"length", "word", "byte", "word">>,
     StartData          |-> <<"length", "word", "long">>,
     EndData            |-> <<"length", "word", "rest">>,
     EventContainer     |-> <<"length", "word", "string", "packets">>,
     DeviceInfo         |-> <<"byte", "ptpString", "ptpArray", "ptpString">>,
     EOSDeviceInfo      |-> <<"length", "ptpArray", "ptpArray">>,
     EOSEventData       |-> <<"packets">>]

Layout == Layouts[kind]
HasLength == Layout[1] = "length"

\* Received with TCPPacket::recv; the others are data of a transaction.
IsFramed == kind \in {"InitCommandRequest", "OperationResponse", "StartData",
                      "EndData", "EventContainer"}

Default(field) ==
    CASE field \in {"length", "byte", "word", "long"} -> 0
      [] field = "ptpArray" -> [numElements |-> 0, array |-> <<>>]
      [] OTHER -> <<>>

\* Fields that take what is left.
Greedy == {"rest", "packets"}

Width(field) == CASE field = "byte" -> 1 [] field = "long" -> Long [] OTHER -> Word

Least(a, b) == IF a < b THEN a ELSE b

\* 1 << n * 8: one more than n bytes can hold.
Power[n \in 0..Long] == IF n = 0 THEN 1 ELSE Base * Power[n - 1]

Byte == 0..(Base - 1)
Words == 0..(Power[Word] - 1)

\* A text has no 0: it would end there.
Text == Seq(1..(Base - 1))

-----------------------------------------------------------------------------
(* Writing.                                                                *)

\* Primitive::pack, little endian: the lowest byte of value >> i * 8, for each i.
WriteInt(v, width) ==
    LET shifted[i \in 0..width] == IF i = 0 THEN v ELSE shifted[i - 1] \div Base
    IN  [i \in 1..width |-> shifted[i - 1] % Base]

\* WideString::pack: a char is converted to uint16_t, with its sign.
WriteString(s) ==
    FlattenSeq([i \in 1..Len(s) |->
        <<s[i], IF CharIsSigned /\ s[i] >= Half THEN Base - 1 ELSE 0>>]) \o <<0, 0>>

\* Mutant: a string of any length is written.
WritePTPString_Uncut(s) == WriteInt(Len(s) + 1, 1) \o WriteString(s)

\* PTPString::pack: cut to MAX_CHARS, and counted with its terminator.
WritePTPString(s) ==
    LET cut == SubSeq(s, 1, Least(Len(s), MaxChars))
    IN  WriteInt(Len(cut) + 1, 1) \o WriteString(cut)

WriteInts(s) == FlattenSeq([i \in 1..Len(s) |-> WriteInt(s[i], Word)])

Write(field, v) ==
    CASE field = "string" -> WriteString(v)
      [] field = "ptpString" -> WritePTPString(v)
      [] field = "ptpArray" -> WriteInt(v.numElements, Word) \o WriteInts(v.array)
      [] field = "rest" -> v
      [] field = "packets" -> FlattenSeq(v)
      [] OTHER -> WriteInt(v, Width(field))

Bytes(vs) == FlattenSeq([i \in 1..Len(vs) |-> Write(Layout[i], vs[i])])

\* What packing leaves in the members: PTPString is cut, the numElements of a
\* PTPArray is set, after it was written, and so is the length.
AfterPass(vs) ==
    [i \in 1..Len(vs) |->
        CASE Layout[i] = "ptpString" -> SubSeq(vs[i], 1, Least(Len(vs[i]), MaxChars))
          [] Layout[i] = "ptpArray" -> [vs[i] EXCEPT !.numElements = Len(vs[i].array)]
          [] Layout[i] = "length" -> Len(Bytes(vs))
          [] OTHER -> vs[i]]

\* Packet::pack: with a length field, the fields are written a second time over
\* the first, when all counts and the length are known.
Packed(vs) == IF HasLength THEN Bytes(AfterPass(vs)) ELSE Bytes(vs)

-----------------------------------------------------------------------------
(* Reading.                                                                *)

\* Primitive::unpack: bytes beyond the limit count as 0.  Each byte is shifted
\* as an int: the last byte of one extends its sign into a uint64_t.  (Shifting
\* a byte further is undefined: no value assigned has one there but 0.)
ReadInt(b, at, limit, width) ==
    LET n == IF at < limit THEN Least(width, limit - at) ELSE 0
        \* value of the last k of the n bytes
        value[k \in 0..n] == IF k = 0 THEN 0 ELSE b[at + n - k + 1] + Base * value[k - 1]
    IN  [value |-> IF width > Word /\ n >= Word /\ b[at + Word] >= Half
                   THEN Power[width] - Power[Word] + value[n] ELSE value[n],
         at |-> at + n]

\* How many elements of a width start before the limit.
Starting(at, limit, width) ==
    IF at < limit THEN (limit - at + width - 1) \div width ELSE 0

\* WideString::unpack: up to the terminator or the limit.
ReadString(b, at, limit) ==
    LET n == Starting(at, limit, 2)
        char(k) == ReadInt(b, at + 2 * (k - 1), limit, 2).value
        zeros == {k \in 1..n : char(k) = 0}
        len == IF zeros = {} THEN n ELSE Min(zeros) - 1
    IN  [value |-> [k \in 1..len |-> char(k) % Base],
         at |-> IF n = 0 THEN at ELSE Least(at + 2 * (len + 1), limit)]

\* Mutant: an empty string is read like any other.
ReadPTPString_NoEmpty(b, at, limit) ==
    ReadString(b, ReadInt(b, at, limit, 1).at, limit)

\* PTPString::unpack: a single 0 is an empty string; otherwise the string ends
\* where its terminator is, whatever numChars says.
ReadPTPString(b, at, limit) ==
    IF at >= limit THEN [value |-> <<>>, at |-> at]
    ELSE IF b[at + 1] = 0 THEN [value |-> <<>>, at |-> at + 1]
    ELSE ReadString(b, ReadInt(b, at, limit, 1).at, limit)

\* PTPArray: numElements, and a Vector of that many elements, or those that
\* start before the limit.
ReadPTPArray(b, at, limit) ==
    LET count == ReadInt(b, at, limit, Word)
        n == Least(count.value, Starting(count.at, limit, Word))
    IN  [value |-> [numElements |-> count.value,
                    array |-> [i \in 1..n |->
                        ReadInt(b, count.at + Word * (i - 1), limit, Word).value]],
         at |-> IF n = 0 THEN count.at ELSE Least(count.at + Word * n, limit)]

\* PacketBuffer::unpack: where the packet that starts at an offset ends.
PacketEnd(b, at, limit) == Least(at + ReadInt(b, at, limit, Word).value, limit)

\* A Vector of PacketBuffers, up to the limit.  An empty packet would be read
\* for ever: the result ends with it.
ReadPackets(b, at, limit) ==
    LET from[o \in 0..limit] ==
            IF o = limit THEN <<>>
            ELSE LET end == PacketEnd(b, o, limit)
                 IN  IF end = o THEN << <<>> >>
                     ELSE <<SubSeq(b, o + 1, end)>> \o from[end]
    IN  IF at >= limit THEN [value |-> <<>>, at |-> at]
        ELSE [value |-> from[at], at |-> limit]

Read(field, b, at, limit) ==
    CASE field = "string" -> ReadString(b, at, limit)
      [] field = "ptpString" -> ReadPTPString(b, at, limit)
      [] field = "ptpArray" -> ReadPTPArray(b, at, limit)
      [] field = "rest" -> [value |-> SubSeq(b, at + 1, limit),
                            at |-> IF at < limit THEN limit ELSE at]
      [] field = "packets" -> ReadPackets(b, at, limit)
      [] OTHER -> ReadInt(b, at, limit, Width(field))

\* Once the length is known and not 0, it limits the fields after it.
LimitAfter(field, value, limit) ==
    IF field = "length" /\ value > 0 THEN Least(value, limit) ELSE limit

\* Packet::unpack: after k fields, where the next starts, what limits it, and the
\* value of the last one.
Unpacked(b) ==
    LET after[k \in 0..Len(Layout)] ==
            IF k = 0 THEN [at |-> 0, limit |-> Len(b), value |-> <<>>]
            ELSE LET before == after[k - 1]
                     r == Read(Layout[k], b, before.at, before.limit)
                 IN  [at |-> r.at, value |-> r.value,
                      limit |-> LimitAfter(Layout[k], r.value, before.limit)]
    IN  [k \in 1..Len(Layout) |-> after[k].value]

\* TCPPacket::recv unpacks the length field first, then as many bytes as it says.
\* The data of a transaction is unpacked at once.
Received(stream) ==
    Unpacked(IF IsFramed
             THEN SubSeq(stream, 1, ReadInt(stream, 0, Word, Word).value)
             ELSE stream)

-----------------------------------------------------------------------------

\* The bytes of a packet that starts with its own length.
Sized ==
    {p \in Seq(Byte) : /\ Len(p) >= Word /\ Len(p) \in Words
                       /\ SubSeq(p, 1, Word) = WriteInt(Len(p), Word)}

\* What a member of each kind holds in the application's hands.
ASSUME InputsAssumption ==
    /\ Inputs.byte \subseteq Byte
    /\ Inputs.word \subseteq Words
    /\ Inputs.long \subseteq 0..(Power[Long] - 1)
    /\ Inputs.string \subseteq Text
    /\ Inputs.ptpString \subseteq Text
    /\ Inputs.ptpArray \subseteq Seq(Words)
    /\ Inputs.rest \subseteq Seq(Byte)
    /\ Inputs.packets \subseteq Seq(Sized)

Init ==
    /\ kind \in DOMAIN Layouts
    /\ values = [i \in 1..Len(Layout) |-> Default(Layout[i])]
    /\ buffer = <<>>
    /\ packedBy = "nobody"
    /\ sent = <<>>
    /\ fromBytes = FALSE

\* All sequences of one input per field.
Assignments ==
    LET chosen[k \in 0..Len(Layout)] ==
            IF k = 0 THEN {<<>>}
            ELSE {Append(c, v) : c \in chosen[k - 1], v \in Inputs[Layout[k]]}
    IN  chosen[Len(Layout)]

\* Bound: the length of a packet fits its length field.
Fits(bytes) == Len(bytes) < Power[Word]

\* The application assigns members; the length and numElements stay those of the
\* packing or unpacking before.
Assign ==
    /\ \E chosen \in Assignments :
          values' = [i \in 1..Len(Layout) |->
                        CASE Layout[i] = "length" -> values[i]
                          [] Layout[i] = "ptpArray" -> [values[i] EXCEPT !.array = chosen[i]]
                          [] OTHER -> chosen[i]]
    /\ fromBytes' = FALSE
    /\ UNCHANGED <<kind, buffer, packedBy, sent>>

\* Every count that is written in the only pass is right.
Counted(vs) ==
    \A i \in 1..Len(vs) :
        Layout[i] = "ptpArray" => vs[i].numElements = Len(vs[i].array)

\* Without a length field the count of an assigned array is written before it
\* is set: such bytes do not stand for the values, and sent is empty.
Pack ==
    /\ Fits(Bytes(values))
    /\ buffer' = Packed(values)
    /\ values' = AfterPass(values)
    /\ sent' = IF HasLength \/ Counted(values) THEN values' ELSE <<>>
    /\ packedBy' = "application"
    /\ fromBytes' = FALSE
    /\ UNCHANGED kind

\* A framed packet is followed by others in its stream.
Unpack ==
    /\ packedBy # "nobody"
    /\ values' = Received(IF IsFramed THEN buffer \o buffer ELSE buffer)
    /\ fromBytes' = TRUE
    /\ UNCHANGED <<kind, buffer, packedBy, sent>>

-----------------------------------------------------------------------------
(* The camera.                                                             *)

FromCamera == {"OperationResponse", "StartData", "EndData", "DeviceInfo",
               "EOSDeviceInfo", "EOSEventData"}

\* By the rules of PTP an empty string is a single 0, any other is counted with
\* its terminator; characters are 16 bits, of which the high byte is 0 here.
CameraWrites(field, v) ==
    CASE field = "ptpString" ->
            IF v = <<>> THEN <<0>>
            ELSE WriteInt(Len(v) + 1, 1)
                    \o FlattenSeq([i \in 1..Len(v) |-> <<v[i], 0>>]) \o <<0, 0>>
      [] field = "ptpArray" -> WriteInt(Len(v), Word) \o WriteInts(v)
      [] OTHER -> Write(field, v)

IsGreedy == Layout[Len(Layout)] \in Greedy

\* It leaves out the last fields, as a response with fewer parameters does, or
\* sends one more than the library knows, as a newer camera does.
CameraPacks ==
    /\ kind \in FromCamera
    /\ \E chosen \in Assignments, k \in (IF HasLength THEN 2 ELSE 1)..Len(Layout),
          more \in {<<>>, WriteInt(1, Word)} :
          LET body == FlattenSeq([i \in 1..k |-> IF Layout[i] = "length" THEN <<>>
                                     ELSE CameraWrites(Layout[i], chosen[i])]) \o more
              length == Word + Len(body)
          IN  /\ more # <<>> => k = Len(Layout) /\ ~IsGreedy
              /\ \A i \in 1..k : Layout[i] = "ptpString" => Len(chosen[i]) <= MaxChars
              /\ length < Power[Word]
              /\ buffer' = IF HasLength THEN WriteInt(length, Word) \o body ELSE body
              /\ sent' = [i \in 1..Len(Layout) |->
                    IF i > k THEN Default(Layout[i])
                    ELSE CASE Layout[i] = "length" -> length
                           [] Layout[i] = "ptpArray" ->
                                 [numElements |-> Len(chosen[i]), array |-> chosen[i]]
                           [] OTHER -> chosen[i]]
    /\ packedBy' = "camera"
    /\ fromBytes' = FALSE
    /\ UNCHANGED <<kind, values>>

Next == Assign \/ Pack \/ Unpack \/ CameraPacks

Spec == Init /\ [][Next]_vars

-----------------------------------------------------------------------------
(* Properties.                                                             *)

\* Left out of the properties: a uint64_t of 2^31 and more, which the sign of a
\* byte shifted as an int spoils, and a text with a 0, of which only what is
\* before it comes back.  The application assigns none, but a member can hold one
\* after garbage was unpacked: a 16 bit character is narrowed to a char.
Readable ==
    \A i \in 1..Len(sent) :
        /\ Layout[i] = "long" => sent[i] < Power[Word] \div 2
        /\ Layout[i] \in {"string", "ptpString"} => sent[i] \in Text

\* Whatever was assigned to, packed or unpacked by the object before, the bytes
\* it packs are read back as the values it has then: fields of varying size
\* end where the next begins, counts are those of the contents, and the length
\* is that of the bytes, so that TCPPacket::recv at the other end stops where the
\* next packet begins (Packet::pack and Packet::unpack, with every packer).
RoundTrip ==
    fromBytes /\ packedBy = "application" /\ sent # <<>> /\ Readable
        => values = sent

\* What a camera sends is understood: every field it sends is read as it was
\* sent, the ones it leaves out are zero or empty, whatever the object held
\* before, and what follows the last known field changes nothing.
CameraUnderstood ==
    fromBytes /\ packedBy = "camera" /\ Readable => values = sent

-----------------------------------------------------------------------------
(* The inductive invariant.                                                *)

\* What a member can hold at all: the only strings with a 0 are PTPStrings, which
\* are read from garbage when a count before them was wrong.
Held(field) ==
    CASE field = "byte" -> Byte
      [] field \in {"length", "word"} -> Words
      [] field = "long" -> Nat
      [] field = "string" -> Text
      [] field = "ptpString" -> Seq(Byte)
      [] field = "ptpArray" -> [numElements : Words, array : Seq(Words)]
      [] field = "rest" -> Seq(Byte)
      [] field = "packets" -> Seq(Sized)

Holding(vs) ==
    /\ Len(vs) = Len(Layout)
    /\ vs = [i \in 1..Len(Layout) |-> vs[i]]
    /\ \A i \in 1..Len(Layout) : vs[i] \in Held(Layout[i])

TypeOK ==
    /\ kind \in DOMAIN Layouts
    /\ Holding(values)
    /\ buffer \in Seq(Byte)
    /\ packedBy \in {"nobody", "application", "camera"}
    /\ sent # <<>> => Holding(sent)
    /\ fromBytes \in BOOLEAN

\* A packet with a length starts with its own.
Framed == packedBy # "nobody" /\ HasLength => buffer \in Sized

\* Only counts that were written too early make bytes that stand for nothing.
Stands ==
    packedBy = "camera" \/ (packedBy = "application" /\ kind # "DeviceInfo") => sent # <<>>

\* The bytes read as what they stand for, whoever reads them.
ReadBack == packedBy # "nobody" /\ sent # <<>> /\ Readable => Unpacked(buffer) = sent

\* The members are those of the bytes.
Current == fromBytes => packedBy # "nobody" /\ values = Unpacked(buffer)

IInv == TypeOK /\ Framed /\ Stands /\ ReadBack /\ Current
=============================================================================
