------------------------------ MODULE MC_Mutex ------------------------------
(***************************************************************************)
(* Three threads: one can own the mutex while a second sleeps and a third  *)
(* races with the release.                                                 *)
(***************************************************************************)
EXTENDS Mutex

CONSTANTS t1, t2, t3, nobody

MCThreads == {t1, t2, t3}
=============================================================================
