----------------------------- MODULE MC_HashMap -----------------------------
(***************************************************************************)
(* Four keys, which a table of four places outgrows.  With the first hash  *)
(* function three keys collide and the third displaces the fourth, with    *)
(* the others searches wrap around the end of the table, of four places    *)
(* and of eight; 3 and 7 agree modulo 4 only.                              *)
(***************************************************************************)
EXTENDS HashMap, TLC

CONSTANTS k1, k2, k3, k4, v1, v2

FourKeys == {k1, k2, k3, k4}
TwoValues == {v1, v2}
Hashes ==
  {(k1 :> 0 @@ k2 :> 0 @@ k3 :> 0 @@ k4 :> 2),
   (k1 :> 7 @@ k2 :> 3 @@ k3 :> 7 @@ k4 :> 0),
   (k1 :> 7 @@ k2 :> 7 @@ k3 :> 6 @@ k4 :> 0)}
=============================================================================
