---------------------------- MODULE MC_EventLock ----------------------------
(***************************************************************************)
(* The calls of acquire() that TLC explores: a holder, a waiter that can   *)
(* be cancelled or resumed, and one that arrives meanwhile.                *)
(***************************************************************************)
EXTENDS EventLock

CONSTANTS w1, w2, w3, w4

ThreeCalls == {w1, w2, w3}
FourCalls == {w1, w2, w3, w4}
=============================================================================
