--------------------------- MODULE AbstractMutex ---------------------------
(***************************************************************************)
(* What std.Mutex promises (src/std/mutex.zig:10-11, "Lock may be held     *)
(* only once"): ownership passes between "nobody" and one thread, and only *)
(* the owner gives it back.  The futex mutex of module Mutex is shown to   *)
(* implement this specification.                                           *)
(***************************************************************************)
CONSTANTS Threads, Nobody

VARIABLE owner

TypeOK == owner \in Threads \cup {Nobody}

Init == owner = Nobody

Acquire(t) == owner = Nobody /\ owner' = t

Release(t) == owner = t /\ owner' = Nobody

Next == \E t \in Threads : Acquire(t) \/ Release(t)

Spec == Init /\ [][Next]_owner
=============================================================================
