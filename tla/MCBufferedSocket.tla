-------------------------- MODULE MCBufferedSocket ----------------------------
(* BufferedSocket on small instances: what may fail.                       *)
EXTENDS BufferedSocket

AllFaults == {"error", "peerClose"}
=============================================================================
