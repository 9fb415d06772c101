----------------------------- MODULE EventLock -----------------------------
(***************************************************************************)
(* std.event.Lock (src/std/event/lock.zig), the lock that coroutines wait  *)
(* for without blocking a thread.  One element of Calls is one call of     *)
(* acquire(), followed by at most one release() of the Held it returns.    *)
(* std.atomic.Queue is the FIFO queue that module AtomicQueue shows it to  *)
(* be: each of its operations is one step, and so is each atomic read or   *)
(* write of a bit.                                                         *)
(*                                                                         *)
(* A coroutine is suspended before its suspend block runs, so three        *)
(* program counters move independently for one call:                       *)
(*   coro[c]   the coroutine: idle, queued (suspended in the queue),       *)
(*             ticked (handed to onNextTick, not yet resumed), held,       *)
(*             released, or cancelled;                                     *)
(*   block[c]  the suspend block of acquire() after its put (lines         *)
(*             105-118), run by the thread that called acquire;            *)
(*   rel[c]    release() after its first get found nothing (lines 33-65).  *)
(*                                                                         *)
(* num_threads is how many threads the event loop has, fixed when the loop *)
(* is created: a suspend block or a release() occupies one from its start  *)
(* to its end.                                                             *)
(***************************************************************************)
EXTENDS Naturals, Sequences, FiniteSets

CONSTANTS
  Calls,
  ThreadCounts, \* the numbers of threads a loop may have
  Cancellable  \* the calls whose coroutine may be cancelled while it waits

ASSUME LockAssumption ==
  /\ IsFiniteSet(Calls)
  /\ ThreadCounts \subseteq Nat \ {0}
  /\ Cancellable \subseteq Calls

VARIABLES
  shared_bit,       \* 1 while the lock is taken
  queue_empty_bit,
  queue,
  coro, block, rel,
  arrivals,         \* history: the calls in the order of their put
  live,             \* deinit() has not been called
  num_threads

bits == <<shared_bit, queue_empty_bit>>
vars == <<bits, queue, coro, block, rel, arrivals, live, num_threads>>

CoroStates == {"idle", "queued", "ticked", "held", "released", "cancelled"}
BlockStates == {"none", "mark", "grab", "get"}
RelStates == {"none", "mark", "unlock", "check", "grab", "get"}

\* The threads that are inside a suspend block or inside release().
Busy == {c \in Calls : block[c] # "none"} \X {"acquire"}
          \cup {c \in Calls : rel[c] # "none"} \X {"release"}

ThreadFree == Cardinality(Busy) < num_threads

CutAt(s, i) == [j \in 1..(Len(s) - 1) |-> IF j < i THEN s[j] ELSE s[j + 1]]

\* init(): lines 69-76.
init ==
  /\ shared_bit = 0
  /\ coro = [c \in Calls |-> "idle"]

\* initLocked(), lines 78-85: somebody holds the lock from the start and
\* will release it, as std.event.Future does.
initLocked(c) ==
  /\ shared_bit = 1
  /\ coro = [d \in Calls |-> IF d = c THEN "held" ELSE "idle"]

Init ==
  /\ init \/ \E c \in Calls : initLocked(c)
  /\ queue_empty_bit = 1
  /\ queue = <<>>
  /\ block = [c \in Calls |-> "none"]
  /\ rel = [c \in Calls |-> "none"]
  /\ arrivals = <<>>
  /\ live = TRUE
  /\ num_threads \in ThreadCounts

-----------------------------------------------------------------------------
(* acquire(): lines 94-122. *)

Acquire(c) ==
  /\ live /\ coro[c] = "idle" /\ ThreadFree
  /\ queue' = Append(queue, c)
  /\ coro' = [coro EXCEPT ![c] = "queued"]
  /\ block' = [block EXCEPT ![c] = "mark"]
  /\ arrivals' = Append(arrivals, c)
  /\ UNCHANGED <<bits, rel, live, num_threads>>

BlockMark(c) ==
  /\ block[c] = "mark"
  /\ queue_empty_bit' = 0
  /\ block' = [block EXCEPT ![c] = "grab"]
  /\ UNCHANGED <<shared_bit, queue, coro, rel, arrivals, live, num_threads>>

\* Mutant: the old value of shared_bit is not looked at.
BlockGrabBlindly(c) ==
  /\ block[c] = "grab"
  /\ shared_bit' = 1
  /\ block' = [block EXCEPT ![c] = "get"]
  /\ UNCHANGED <<queue_empty_bit, queue, coro, rel, arrivals, live, num_threads>>

BlockGrab(c) ==
  /\ block[c] = "grab"
  /\ shared_bit' = 1
  /\ block' = [block EXCEPT ![c] = IF shared_bit = 0 THEN "get" ELSE "none"]
  /\ UNCHANGED <<queue_empty_bit, queue, coro, rel, arrivals, live, num_threads>>

\* Mutant: the block resumes its own coroutine and not the first in line.
BlockGetSelf(c) ==
  /\ block[c] = "get"
  /\ block' = [block EXCEPT ![c] = "none"]
  /\ \/ coro[c] # "queued" /\ UNCHANGED <<queue, coro>>
     \/ /\ coro[c] = "queued"
        /\ queue' = SelectSeq(queue, LAMBDA d : d # c)
        /\ coro' = [coro EXCEPT ![c] = "held"]
  /\ UNCHANGED <<bits, rel, arrivals, live, num_threads>>

\* Lines 114-117: whoever is first in line is resumed on this thread.
BlockGet(c) ==
  /\ block[c] = "get"
  /\ block' = [block EXCEPT ![c] = "none"]
  /\ \/ queue = <<>> /\ UNCHANGED <<queue, coro>>
     \/ /\ queue # <<>>
        /\ queue' = Tail(queue)
        /\ coro' = [coro EXCEPT ![Head(queue)] = "held"]
  /\ UNCHANGED <<bits, rel, arrivals, live, num_threads>>

\* The event loop resumes a coroutine from its next tick queue.
Resume(c) ==
  /\ coro[c] = "ticked" /\ ThreadFree
  /\ coro' = [coro EXCEPT ![c] = "held"]
  /\ UNCHANGED <<bits, queue, block, rel, arrivals, live, num_threads>>

\* Mutant: cancelling does not run the errdefer.
CancelLeavesNode(c) ==
  /\ c \in Cancellable /\ coro[c] = "queued" /\ ThreadFree
  /\ coro' = [coro EXCEPT ![c] = "cancelled"]
  /\ UNCHANGED <<bits, queue, block, rel, arrivals, live, num_threads>>

\* "cancel" of a coroutine waiting in the queue runs the errdefer of line
\* 101, which takes its node out of the queue.
Cancel(c) ==
  /\ c \in Cancellable /\ coro[c] = "queued" /\ ThreadFree
  /\ \E i \in 1..Len(queue) : queue[i] = c /\ queue' = CutAt(queue, i)
  /\ coro' = [coro EXCEPT ![c] = "cancelled"]
  /\ UNCHANGED <<bits, block, rel, arrivals, live, num_threads>>

-----------------------------------------------------------------------------
(* Held.release(): lines 25-66. *)

\* Mutant: the node is taken from the queue and onNextTick is forgotten.
ReleaseDropsNode(c) ==
  /\ coro[c] = "held" /\ ThreadFree
  /\ coro' = [coro EXCEPT ![c] = "released"]
  /\ \/ /\ queue # <<>>
        /\ queue' = Tail(queue)
        /\ UNCHANGED rel
     \/ /\ queue = <<>>
        /\ rel' = [rel EXCEPT ![c] = "mark"]
        /\ UNCHANGED queue
  /\ UNCHANGED <<bits, block, arrivals, live, num_threads>>

Release(c) ==
  /\ coro[c] = "held" /\ ThreadFree
  /\ \/ /\ queue # <<>>
        /\ queue' = Tail(queue)
        /\ coro' = [coro EXCEPT ![c] = "released", ![Head(queue)] = "ticked"]
        /\ UNCHANGED rel
     \/ /\ queue = <<>>
        /\ coro' = [coro EXCEPT ![c] = "released"]
        /\ rel' = [rel EXCEPT ![c] = "mark"]
        /\ UNCHANGED queue
  /\ UNCHANGED <<bits, block, arrivals, live, num_threads>>

RelMark(c) ==
  /\ rel[c] = "mark"
  /\ queue_empty_bit' = 1
  /\ rel' = [rel EXCEPT ![c] = "unlock"]
  /\ UNCHANGED <<shared_bit, queue, coro, block, arrivals, live, num_threads>>

\* Mutant: release() forgets to clear shared_bit.
RelUnlockForgotten(c) ==
  /\ rel[c] = "unlock"
  /\ rel' = [rel EXCEPT ![c] = "check"]
  /\ UNCHANGED <<bits, queue, coro, block, arrivals, live, num_threads>>

RelUnlock(c) ==
  /\ rel[c] = "unlock"
  /\ shared_bit' = 0
  /\ rel' = [rel EXCEPT ![c] = "check"]
  /\ UNCHANGED <<queue_empty_bit, queue, coro, block, arrivals, live, num_threads>>

RelCheck(c) ==
  /\ rel[c] = "check"
  /\ rel' = [rel EXCEPT ![c] = IF queue_empty_bit = 1 THEN "none" ELSE "grab"]
  /\ UNCHANGED <<bits, queue, coro, block, arrivals, live, num_threads>>

RelGrab(c) ==
  /\ rel[c] = "grab"
  /\ shared_bit' = 1
  /\ rel' = [rel EXCEPT ![c] = IF shared_bit = 0 THEN "get" ELSE "none"]
  /\ UNCHANGED <<queue_empty_bit, queue, coro, block, arrivals, live, num_threads>>

RelGet(c) ==
  /\ rel[c] = "get"
  /\ \/ /\ queue # <<>>
        /\ queue' = Tail(queue)
        /\ coro' = [coro EXCEPT ![Head(queue)] = "ticked"]
        /\ rel' = [rel EXCEPT ![c] = "none"]
     \/ /\ queue = <<>>
        /\ rel' = [rel EXCEPT ![c] = "mark"]
        /\ UNCHANGED <<queue, coro>>
  /\ UNCHANGED <<bits, block, arrivals, live, num_threads>>

-----------------------------------------------------------------------------
(* deinit(): lines 87-92, "must be called when not locked" and when all    *)
(* calls to acquire and release are complete.                              *)

\* Nothing is running or about to run: only queued coroutines may be left.
Quiet ==
  /\ Busy = {}
  /\ \A c \in Calls : coro[c] \notin {"ticked", "held"}

Deinit ==
  /\ live /\ Quiet
  /\ live' = FALSE
  /\ queue' = <<>>
  /\ coro' = [c \in Calls |-> IF coro[c] = "queued" THEN "cancelled" ELSE coro[c]]
  /\ UNCHANGED <<bits, block, rel, arrivals, num_threads>>

BlockStep(c) == BlockMark(c) \/ BlockGrab(c) \/ BlockGet(c)

RelStep(c) ==
  RelMark(c) \/ RelUnlock(c) \/ RelCheck(c) \/ RelGrab(c) \/ RelGet(c)

Next ==
  \/ \E c \in Calls :
       \/ Acquire(c) \/ BlockStep(c) \/ Resume(c) \/ Cancel(c)
       \/ Release(c) \/ RelStep(c)
  \/ Deinit

\* The loop's threads keep running: a suspend block and a release() finish,
\* a ticked coroutine is resumed.  A holder releases.  Nobody has to call
\* acquire, cancel or deinit.
Fairness ==
  \A c \in Calls :
    WF_vars(BlockStep(c)) /\ WF_vars(RelStep(c))
      /\ WF_vars(Resume(c)) /\ WF_vars(Release(c))

Spec == Init /\ [][Next]_vars

FairSpec == Spec /\ Fairness

-----------------------------------------------------------------------------
\* Type invariant of the lock.
TypeOK ==
  /\ shared_bit \in {0, 1}
  /\ queue_empty_bit \in {0, 1}
  /\ queue \in Seq(Calls)
  /\ coro \in [Calls -> CoroStates]
  /\ block \in [Calls -> BlockStates]
  /\ rel \in [Calls -> RelStates]
  /\ arrivals \in Seq(Calls)
  /\ live \in BOOLEAN
  /\ num_threads \in ThreadCounts

Queued(c) == \E i \in 1..Len(queue) : queue[i] = c

\* A node is in the queue exactly while its coroutine waits, and once: no
\* coroutine is resumed twice, after its cancellation, or not at all.
QueueHoldsWaiters ==
  /\ \A i, j \in 1..Len(queue) : queue[i] = queue[j] => i = j
  /\ \A c \in Calls : Queued(c) <=> coro[c] = "queued"

\* The right to hand out the lock: held by the coroutine that has the lock or
\* is about to be resumed with it, by the release() that has not cleared
\* shared_bit yet or has set it again, or by the suspend block that found 0.
Token(c, where) ==
  CASE where = "coro"  -> coro[c] \in {"ticked", "held"}
    [] where = "rel"   -> rel[c] \in {"mark", "unlock", "get"}
    [] where = "block" -> block[c] = "get"

Places == {"coro", "rel", "block"}

\* There is at most one token, and none while shared_bit is 0.
OneToken ==
  /\ \A c, d \in Calls : \A p, q \in Places :
       Token(c, p) /\ Token(d, q) => c = d /\ p = q
  /\ shared_bit = 0 => \A c \in Calls : \A p \in Places : ~Token(c, p)

\* "Allows only one actor to hold the lock" (lock.zig:13), whatever the
\* number of threads: at most one coroutine is resumed and not yet released.
MutualExclusion ==
  \A c, d \in Calls :
    coro[c] \in {"ticked", "held"} /\ coro[d] \in {"ticked", "held"} => c = d

\* Waiters are resumed "in order" (lock.zig:12): when a coroutine gets the
\* lock, no coroutine that was queued before it is still waiting.
ResumedInOrder ==
  [][\A i, j \in 1..Len(arrivals) :
       /\ coro[arrivals[j]] # "held"
       /\ coro'[arrivals[j]] = "held"
       /\ i < j
       => coro[arrivals[i]] \notin {"queued", "ticked"}]_vars

\* "Resumed when the lock is released" (lock.zig:11-12): a waiter is never
\* left in the queue when nothing will run any more.  release() relies on it
\* ("if queue_empty_bit is 1, some actor will attempt to grab the lock",
\* lines 108-109).
WaitersResumed == Quiet => queue = <<>>

\* On a loop with one thread, when no coroutine has the lock and all threads
\* are done, no waiter is left in the queue and the assertion of deinit
\* (line 90) holds: nobody has kept shared_bit.
NoStrandedWaiter ==
  num_threads = 1 => WaitersResumed /\ (Quiet => shared_bit = 0)

\* On a loop with one thread a waiting coroutine gets the lock or is
\* cancelled.
EventuallyHeld ==
  \A c \in Calls :
    num_threads = 1 /\ coro[c] = "queued" ~> coro[c] \in {"held", "cancelled"}
=============================================================================
