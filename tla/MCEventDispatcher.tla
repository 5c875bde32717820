-------------------------- MODULE MCEventDispatcher ---------------------------
(* EventDispatcher on a small instance.                                    *)
EXTENDS EventDispatcher, TLC

CONSTANTS connected, captured

AllBudgets == {1, 2, Unlimited}
Symmetry == Permutations(Types)
=============================================================================
