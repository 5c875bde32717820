------------------------------- MODULE MCPTPIP --------------------------------
(* PTPIP on a small instance, with every fault.                            *)
EXTENDS PTPIP

AllFaults == {"refuse", "timeout", "drop", "badLength", "unexpected"}
=============================================================================
