--------------------------- MODULE MC_AtomicQueue ---------------------------
(***************************************************************************)
(* Three nodes: a removed node can have a neighbour on either side.        *)
(***************************************************************************)
EXTENDS AtomicQueue

CONSTANTS n1, n2, n3

MCNodes == {n1, n2, n3}
=============================================================================
