----------------------------- MODULE MC_RwLock -----------------------------
(***************************************************************************)
(* Two readers share the lock while a third call or a writer races with    *)
(* the last release; two writers compete.                                  *)
(***************************************************************************)
EXTENDS RwLock

CONSTANTS r1, r2, r3, w1, w2

TwoReaders == {r1, r2}
ThreeReaders == {r1, r2, r3}
OneWriter == {w1}
TwoWriters == {w1, w2}
=============================================================================
