----------------------------- MODULE MCPTPCamera -----------------------------
(* PTPCamera on small instances.                                           *)
EXTENDS PTPCamera, TLC

CONSTANTS w1, w2

\* The operations of an EOS that has all the code asks for, of one with only the
\* single release operation and no DeviceInfoEx, and of a camera that is no EOS.
EosOps == {"EOSRemoteRelease", "EOSRemoteReleaseOn", "EOSSetRemoteMode",
           "EOSGetDeviceInfoEx"}
OldEosOps == {"EOSRemoteRelease"}
NoOps == {}

Symmetry == Permutations(Workers)
=============================================================================
