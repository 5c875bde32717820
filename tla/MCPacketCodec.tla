---------------------------- MODULE MCPacketCodec -----------------------------
(***************************************************************************)
(* Bytes of two bits and words of two bytes: packets of up to 15 bytes,    *)
(* strings of up to two characters, of which 2 and 3 are negative chars.   *)
(***************************************************************************)
EXTENDS PacketCodec

\* An event with its length, a type and no more, and one with another byte.
SmallEvent == <<0, 1, 1, 0>>
LargeEvent == <<1, 1, 2, 0, 3>>

MCInputs ==
    [length |-> {0},
     byte |-> {3},
     word |-> {6},
     long |-> {0, 7, 12},
     string |-> {<<>>, <<3>>, <<1, 2>>},
     ptpString |-> {<<>>, <<2>>, <<1, 3, 2>>},
     ptpArray |-> {<<>>, <<1>>, <<0, 14>>},
     rest |-> {<<>>, <<0>>, <<3, 0, 2>>},
     packets |-> {<<>>, <<SmallEvent>>, <<LargeEvent, SmallEvent>>}]
=============================================================================
