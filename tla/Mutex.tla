------------------------------- MODULE Mutex -------------------------------
(***************************************************************************)
(* std.Mutex on Linux (src/std/mutex.zig:47-92), the futex lock that       *)
(* protects std.atomic.Queue and through it every queue of the event loop. *)
(* Each action is one atomic instruction or one futex system call of       *)
(* acquire() or Held.release(); a thread loops through both forever.       *)
(*                                                                         *)
(* pc[t] is where thread t stands:                                         *)
(*   idle    outside the mutex, about to run the @cmpxchgWeak of acquire   *)
(*   xchg    about to exchange lock with 2 (lines 80 and 88)               *)
(*   wait    about to call futex_wait(&lock, 2) (line 82)                  *)
(*   asleep  blocked in the kernel                                         *)
(*   held    acquire has returned, release not yet called                  *)
(*   unlock  release has subtracted 1 and must store 0 (line 59)           *)
(*   wake    about to call futex_wake(&lock, 1) (line 60)                  *)
(***************************************************************************)
EXTENDS Naturals

CONSTANTS Threads, Nobody

ASSUME NobodyAssumption == Nobody \notin Threads

VARIABLES
  lock,   \* the futex word: 0 unlocked, 1 locked, 2 locked with waiters
  pc

vars == <<lock, pc>>

Locations == {"idle", "xchg", "wait", "asleep", "held", "unlock", "wake"}

Goto(t, loc) == pc' = [pc EXCEPT ![t] = loc]

Init ==
  /\ lock = 0
  /\ pc = [t \in Threads |-> "idle"]

(***************************************************************************)
(* acquire(): lines 76-91.  A weak compare-exchange may fail although the  *)
(* word is 0; its result is then 0 and differs from 2 like any other.      *)
(***************************************************************************)
\* Mutant: the word is stored without being compared.
CasSucceedsAlways(t) == pc[t] = "idle" /\ lock' = 1 /\ Goto(t, "held")

CasSucceeds(t) ==
  /\ pc[t] = "idle"
  /\ lock = 0
  /\ lock' = 1
  /\ Goto(t, "held")

CasFails(t) ==
  /\ pc[t] = "idle"
  /\ Goto(t, IF lock = 2 THEN "wait" ELSE "xchg")
  /\ UNCHANGED lock

\* Mutant: a waiter that gets the mutex stores 1 and hides other sleepers.
ExchangeForWaiterStoresOne(t) ==
  /\ pc[t] = "xchg"
  /\ lock' = IF lock = 0 THEN 1 ELSE 2
  /\ Goto(t, IF lock = 0 THEN "held" ELSE "wait")

\* Mutant: "while (c != 0)" written as "while (c == 2)".
ExchangeForWaiterTakesOne(t) ==
  /\ pc[t] = "xchg"
  /\ lock' = 2
  /\ Goto(t, IF lock = 2 THEN "wait" ELSE "held")

ExchangeForWaiter(t) ==
  /\ pc[t] = "xchg"
  /\ lock' = 2
  /\ Goto(t, IF lock = 0 THEN "held" ELSE "wait")

(***************************************************************************)
(* futex_wait sleeps only if the word is still 2, atomically with its      *)
(* check; otherwise it returns EAGAIN.  Both EAGAIN and EINTR lead back to *)
(* the exchange (lines 83-88).                                             *)
(***************************************************************************)
FutexWait(t) ==
  /\ pc[t] = "wait"
  /\ Goto(t, IF lock = 2 THEN "asleep" ELSE "xchg")
  /\ UNCHANGED lock

Interrupted(t) ==
  /\ pc[t] = "asleep"
  /\ Goto(t, "xchg")
  /\ UNCHANGED lock

(***************************************************************************)
(* Held.release(): lines 56-67.                                            *)
(***************************************************************************)
SubtractOne(t) ==
  /\ pc[t] = "held"
  /\ lock' = lock - 1
  /\ Goto(t, IF lock = 1 THEN "idle" ELSE "unlock")

StoreZero(t) ==
  /\ pc[t] = "unlock"
  /\ lock' = 0
  /\ Goto(t, "wake")

Sleepers == {s \in Threads : pc[s] = "asleep"}

\* Mutant: release() returns without futex_wake.
FutexWakeForgotten(t) ==
  pc[t] = "wake" /\ Goto(t, "idle") /\ UNCHANGED lock

FutexWake(t) ==
  /\ pc[t] = "wake"
  /\ \/ /\ Sleepers = {}
        /\ Goto(t, "idle")
     \/ \E s \in Sleepers : pc' = [pc EXCEPT ![t] = "idle", ![s] = "xchg"]
  /\ UNCHANGED lock

AcquireStep(t) ==
  CasFails(t) \/ CasSucceeds(t) \/ ExchangeForWaiter(t) \/ FutexWait(t)

ReleaseStep(t) == SubtractOne(t) \/ StoreZero(t) \/ FutexWake(t)

Next ==
  \E t \in Threads : AcquireStep(t) \/ ReleaseStep(t) \/ Interrupted(t)

(***************************************************************************)
(* A thread that has begun acquire() keeps running, and a holder releases  *)
(* eventually.  Beginning acquire() is the client's choice and a signal    *)
(* (EINTR) may never come: neither is fair.                                *)
(***************************************************************************)
Fairness ==
  \A t \in Threads :
    /\ WF_vars(ExchangeForWaiter(t))
    /\ WF_vars(FutexWait(t))
    /\ WF_vars(ReleaseStep(t))

Spec == Init /\ [][Next]_vars

FairSpec == Spec /\ Fairness

-----------------------------------------------------------------------------
TypeOK ==
  /\ lock \in 0..2
  /\ pc \in [Threads -> Locations]

\* A thread owns the mutex from the instruction that took it to the one that
\* makes the word 0 again.
Owns(t) == pc[t] \in {"held", "unlock"}

\* "Lock may be held only once" (mutex.zig:10): no two threads are between
\* acquire() and the end of release() at the same time.
MutualExclusion ==
  \A s, t \in Threads : Owns(s) /\ Owns(t) => s = t

\* The futex word tells the truth about ownership: it is 0 exactly when
\* nobody owns the mutex, so release() never subtracts from an unlocked word
\* and a successful exchange never takes a mutex that is owned.
WordMatchesOwner == (lock = 0) <=> (\A t \in Threads : ~Owns(t))

\* No lost wake-up: while a thread sleeps in the kernel, either the word
\* still says there are waiters, so the next release() will wake one, or a
\* release() is on its way to futex_wake, or a thread that was woken is about
\* to store 2 on the sleepers' behalf.
NoLostWakeup ==
  Sleepers # {} =>
    \/ lock = 2
    \/ \E t \in Threads : pc[t] \in {"xchg", "unlock", "wake"}

\* Liveness of acquire(): once some thread waits for the mutex, some thread
\* gets it.  It fails as soon as one wake-up is lost with everybody asleep.
WaitersProgress ==
  (\E t \in Threads : pc[t] \in {"xchg", "wait", "asleep"})
    ~> (\E t \in Threads : pc[t] = "held")

\* Refinement: ownership behaves as AbstractMutex says.
OwnerOf == IF \E t \in Threads : Owns(t)
           THEN CHOOSE t \in Threads : Owns(t)
           ELSE Nobody

Abstract == INSTANCE AbstractMutex WITH owner <- OwnerOf

\* The futex mutex implements the abstract one: ownership never passes from
\* one thread to another without being given back.
ImplementsAbstractMutex == Abstract!Spec

=============================================================================
