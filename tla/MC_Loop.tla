------------------------------ MODULE MC_Loop ------------------------------
(***************************************************************************)
(* Two workers share one eventfd node, so a tick can be queued while the   *)
(* node is in another thread's hands; one worker has none.                 *)
(***************************************************************************)
EXTENDS Loop

CONSTANTS main, w1, n1, c1, c2

OneWorker == {main}
TwoWorkers == {main, w1}
OneNode == {n1}
OneCoro == {c1}
TwoCoros == {c1, c2}
=============================================================================
