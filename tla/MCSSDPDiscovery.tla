--------------------------- MODULE MCSSDPDiscovery ----------------------------
(* SSDPDiscovery on small instances.                                       *)
EXTENDS SSDPDiscovery, TLC

CONSTANTS c1, c2, s1, s2

Distinct == c1 :> s1 @@ c2 :> s2
Shared == c1 :> s1 @@ c2 :> s1
AllFaults == {"fetch", "age", "noise"}
=============================================================================
