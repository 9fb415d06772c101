----------------------------- MODULE MC_Channel -----------------------------
(***************************************************************************)
(* Two puts and two gets meet in every order, with a getOrNull() between.  *)
(***************************************************************************)
EXTENDS Channel

CONSTANTS p1, p2, g1, g2, n1

TwoPuts == {p1, p2}
TwoGets == {g1, g2}
OneOrNull == {n1}
=============================================================================
