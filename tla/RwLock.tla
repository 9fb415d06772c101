------------------------------- MODULE RwLock -------------------------------
(***************************************************************************)
(* std.event.RwLock (src/std/event/rwlock.zig), the readers-writer lock of *)
(* the event loop.  An element of Readers is one call of acquireRead(), of *)
(* Writers one of acquireWrite(), each followed by at most one release().  *)
(* As in module EventLock, coro[c] is the coroutine of the call, block[c]  *)
(* its suspend block and rel[c] its release(), which move independently;   *)
(* every atomic operation and every queue operation is one step.           *)
(*                                                                         *)
(* coro[c] is chosen between the moment a suspend block has taken the node *)
(* as first_node (line 124) and the moment it resumes it (line 128).       *)
(***************************************************************************)
EXTENDS Naturals, Sequences, FiniteSets

CONSTANTS
  Readers, Writers,
  ThreadCounts,  \* the numbers of threads a loop may have
  Nobody

ASSUME RwLockAssumption ==
  /\ IsFiniteSet(Readers) /\ IsFiniteSet(Writers)
  /\ Readers \cap Writers = {}
  /\ Nobody \notin Readers \cup Writers
  /\ ThreadCounts \subseteq Nat \ {0}

Calls == Readers \cup Writers

VARIABLES
  shared_state,
  writer_queue, reader_queue,
  writer_queue_empty_bit, reader_queue_empty_bit,
  reader_lock_count,
  coro, block, rel,
  first_node,       \* the local variable of acquireRead's suspend block
  live,             \* deinit() has not been called
  num_threads       \* of the loop, fixed when it is created

queues == <<writer_queue, reader_queue>>
bits == <<writer_queue_empty_bit, reader_queue_empty_bit>>
others == <<first_node, live, num_threads>>
vars == <<shared_state, queues, bits, reader_lock_count, coro, block, rel, others>>

CoroStates ==
  {"idle", "counted", "queued", "chosen", "ticked", "held", "released",
   "cancelled"}

BlockStates == {"none", "put", "mark", "cas", "first", "rest", "get"}

RelStates ==
  {"none", "r_bit", "r_cas", "w_load", "w_toread", "drain", "w_bit", "w_unlock",
   "post_w", "pw_cas", "pw_get", "pw_bit", "pw_unlock",
   "post_r", "pr_cas", "pr_first", "pr_bit", "pr_unlock"}

Busy == {c \in Calls : block[c] # "none"} \X {"acquire"}
          \cup {c \in Calls : rel[c] # "none"} \X {"release"}

ThreadFree == Cardinality(Busy) < num_threads

BlockTo(c, loc) == block' = [block EXCEPT ![c] = loc]
RelTo(c, loc) == rel' = [rel EXCEPT ![c] = loc]

\* init(): lines 80-90.
Init ==
  /\ shared_state = "Unlocked"
  /\ writer_queue = <<>> /\ reader_queue = <<>>
  /\ writer_queue_empty_bit = 1 /\ reader_queue_empty_bit = 1
  /\ reader_lock_count = 0
  /\ coro = [c \in Calls |-> "idle"]
  /\ block = [c \in Calls |-> "none"]
  /\ rel = [c \in Calls |-> "none"]
  /\ first_node = [c \in Calls |-> Nobody]
  /\ live = TRUE
  /\ num_threads \in ThreadCounts

-----------------------------------------------------------------------------
(* acquireRead(): lines 100-133. *)

AcquireRead(c) ==
  /\ live /\ coro[c] = "idle" /\ ThreadFree
  /\ reader_lock_count' = reader_lock_count + 1
  /\ coro' = [coro EXCEPT ![c] = "counted"]
  /\ BlockTo(c, "put")
  /\ UNCHANGED <<shared_state, queues, bits, rel, others>>

ReadPut(c) ==
  /\ block[c] = "put"
  /\ reader_queue' = Append(reader_queue, c)
  /\ coro' = [coro EXCEPT ![c] = "queued"]
  /\ BlockTo(c, "mark")
  /\ UNCHANGED <<shared_state, writer_queue, bits, reader_lock_count, rel, others>>

ReadMark(c) ==
  /\ block[c] = "mark"
  /\ reader_queue_empty_bit' = 0
  /\ BlockTo(c, "cas")
  /\ UNCHANGED <<shared_state, queues, writer_queue_empty_bit, reader_lock_count,
                 coro, rel, others>>

\* Lines 120-121: it does not matter who locked it for reading.
ReadCas(c) ==
  /\ block[c] = "cas"
  /\ shared_state' = IF shared_state = "Unlocked" THEN "ReadLock" ELSE shared_state
  /\ BlockTo(c, IF shared_state = "WriteLock" THEN "none" ELSE "first")
  /\ UNCHANGED <<queues, bits, reader_lock_count, coro, rel, others>>

ReadFirst(c) ==
  /\ block[c] = "first"
  /\ \/ /\ reader_queue = <<>>
        /\ BlockTo(c, "none")
        /\ UNCHANGED <<reader_queue, coro, first_node>>
     \/ /\ reader_queue # <<>>
        /\ reader_queue' = Tail(reader_queue)
        /\ first_node' = [first_node EXCEPT ![c] = Head(reader_queue)]
        /\ coro' = [coro EXCEPT ![Head(reader_queue)] = "chosen"]
        /\ BlockTo(c, "rest")
  /\ UNCHANGED <<shared_state, writer_queue, bits, reader_lock_count, rel, live, num_threads>>

\* Hand the next waiting reader to onNextTick.
TickReader ==
  /\ reader_queue # <<>>
  /\ reader_queue' = Tail(reader_queue)
  /\ coro' = [coro EXCEPT ![Head(reader_queue)] = "ticked"]

ReadRest(c) ==
  /\ block[c] = "rest"
  /\ \/ TickReader /\ UNCHANGED <<block, first_node>>
     \/ /\ reader_queue = <<>>
        /\ coro' = [coro EXCEPT ![first_node[c]] = "held"]
        /\ first_node' = [first_node EXCEPT ![c] = Nobody]
        /\ BlockTo(c, "none")
        /\ UNCHANGED reader_queue
  /\ UNCHANGED <<shared_state, writer_queue, bits, reader_lock_count, rel, live, num_threads>>

(* acquireWrite(): lines 135-163. *)

AcquireWrite(c) ==
  /\ live /\ coro[c] = "idle" /\ ThreadFree
  /\ writer_queue' = Append(writer_queue, c)
  /\ coro' = [coro EXCEPT ![c] = "queued"]
  /\ BlockTo(c, "mark")
  /\ UNCHANGED <<shared_state, reader_queue, bits, reader_lock_count, rel, others>>

WriteMark(c) ==
  /\ block[c] = "mark"
  /\ writer_queue_empty_bit' = 0
  /\ BlockTo(c, "cas")
  /\ UNCHANGED <<shared_state, queues, reader_queue_empty_bit, reader_lock_count,
                 coro, rel, others>>

\* Mutant: a lock held for reading is taken too.
WriteCasOverReaders(c) ==
  /\ block[c] = "cas"
  /\ shared_state' = "WriteLock"
  /\ BlockTo(c, IF shared_state = "WriteLock" THEN "none" ELSE "get")
  /\ UNCHANGED <<queues, bits, reader_lock_count, coro, rel, others>>

\* Mutant: the result of the compare-exchange is not looked at.
WriteCasBlindly(c) ==
  /\ block[c] = "cas"
  /\ shared_state' = IF shared_state = "Unlocked" THEN "WriteLock" ELSE shared_state
  /\ BlockTo(c, "get")
  /\ UNCHANGED <<queues, bits, reader_lock_count, coro, rel, others>>

WriteCas(c) ==
  /\ block[c] = "cas"
  /\ shared_state' = IF shared_state = "Unlocked" THEN "WriteLock" ELSE shared_state
  /\ BlockTo(c, IF shared_state = "Unlocked" THEN "get" ELSE "none")
  /\ UNCHANGED <<queues, bits, reader_lock_count, coro, rel, others>>

WriteGet(c) ==
  /\ block[c] = "get"
  /\ BlockTo(c, "none")
  /\ \/ writer_queue = <<>> /\ UNCHANGED <<writer_queue, coro>>
     \/ /\ writer_queue # <<>>
        /\ writer_queue' = Tail(writer_queue)
        /\ coro' = [coro EXCEPT ![Head(writer_queue)] = "held"]
  /\ UNCHANGED <<shared_state, reader_queue, bits, reader_lock_count, rel, others>>

\* The event loop resumes a coroutine from its next tick queue.
Resume(c) ==
  /\ coro[c] = "ticked" /\ ThreadFree
  /\ coro' = [coro EXCEPT ![c] = "held"]
  /\ UNCHANGED <<shared_state, queues, bits, reader_lock_count, block, rel, others>>

-----------------------------------------------------------------------------
(* HeldRead.release(): lines 36-49. *)

\* Mutant: the count is not taken down when other readers remain.
ReleaseReadKeepsCount(c) ==
  /\ coro[c] = "held" /\ ThreadFree
  /\ coro' = [coro EXCEPT ![c] = "released"]
  /\ reader_lock_count' = IF reader_lock_count = 1 THEN 0 ELSE reader_lock_count
  /\ RelTo(c, IF reader_lock_count = 1 THEN "r_bit" ELSE "none")
  /\ UNCHANGED <<shared_state, queues, bits, block, others>>

ReleaseRead(c) ==
  /\ coro[c] = "held" /\ ThreadFree
  /\ coro' = [coro EXCEPT ![c] = "released"]
  /\ reader_lock_count' = reader_lock_count - 1
  /\ RelTo(c, IF reader_lock_count = 1 THEN "r_bit" ELSE "none")
  /\ UNCHANGED <<shared_state, queues, bits, block, others>>

\* Lines 42, 202: reader_queue_empty_bit is set before the state is freed.
ReaderBit(c) ==
  /\ rel[c] \in {"r_bit", "pr_bit"}
  /\ reader_queue_empty_bit' = 1
  /\ RelTo(c, IF rel[c] = "r_bit" THEN "r_cas" ELSE "pr_unlock")
  /\ UNCHANGED <<shared_state, queues, writer_queue_empty_bit, reader_lock_count,
                 coro, block, others>>

\* A compare-exchange of shared_state, at places of a release().
RelCas(c, at, from, to, won) ==
  /\ rel[c] = at
  /\ shared_state' = IF shared_state = from THEN to ELSE shared_state
  /\ RelTo(c, IF shared_state = from THEN won ELSE "none")
  /\ UNCHANGED <<queues, bits, reader_lock_count, coro, block, others>>

\* A branch on one of the queue_empty_bits.
RelLoad(c, at, bit, zero, one) ==
  /\ rel[c] = at
  /\ RelTo(c, IF bit = 0 THEN zero ELSE one)
  /\ UNCHANGED <<shared_state, queues, bits, reader_lock_count, coro, block, others>>

\* Lines 43, 203.
ReaderUnlock(c) ==
  \/ RelCas(c, "r_cas", "ReadLock", "Unlocked", "post_w")
  \/ RelCas(c, "pr_unlock", "ReadLock", "Unlocked", "post_w")

(* HeldWrite.release(): lines 55-77. *)

\* Hand the next waiting writer to onNextTick; c is the one who releases.
TickWriter(c) ==
  /\ writer_queue # <<>>
  /\ writer_queue' = Tail(writer_queue)
  /\ coro' = [coro EXCEPT ![c] = "released", ![Head(writer_queue)] = "ticked"]

ReleaseWrite(c) ==
  /\ coro[c] = "held" /\ ThreadFree
  /\ \/ TickWriter(c) /\ UNCHANGED rel
     \/ /\ writer_queue = <<>>
        /\ coro' = [coro EXCEPT ![c] = "released"]
        /\ RelTo(c, "w_load")
        /\ UNCHANGED writer_queue
  /\ UNCHANGED <<shared_state, reader_queue, bits, reader_lock_count, block, others>>

WriteLoad(c) == RelLoad(c, "w_load", reader_queue_empty_bit, "w_toread", "w_bit")

WriteToRead(c) ==
  /\ rel[c] = "w_toread"
  /\ shared_state' = "ReadLock"
  /\ RelTo(c, "drain")
  /\ UNCHANGED <<queues, bits, reader_lock_count, coro, block, others>>

\* Mutant: only one waiting reader is let in, "if" for "while".
DrainReadersOnce(c) ==
  /\ rel[c] = "drain"
  /\ RelTo(c, "none")
  /\ TickReader \/ (reader_queue = <<>> /\ UNCHANGED <<reader_queue, coro>>)
  /\ UNCHANGED <<shared_state, writer_queue, bits, reader_lock_count, block, others>>

\* Lines 67-70 and 196-199: give out all the read locks, then return.
DrainReaders(c) ==
  /\ rel[c] = "drain"
  /\ \/ TickReader /\ UNCHANGED rel
     \/ /\ reader_queue = <<>>
        /\ RelTo(c, "none")
        /\ UNCHANGED <<reader_queue, coro>>
  /\ UNCHANGED <<shared_state, writer_queue, bits, reader_lock_count, block, others>>

\* Lines 73, 183.
WriterBit(c) ==
  /\ rel[c] \in {"w_bit", "pw_bit"}
  /\ writer_queue_empty_bit' = 1
  /\ RelTo(c, IF rel[c] = "w_bit" THEN "w_unlock" ELSE "pw_unlock")
  /\ UNCHANGED <<shared_state, queues, reader_queue_empty_bit, reader_lock_count,
                 coro, block, others>>

\* Lines 74, 184.
WriterUnlock(c) ==
  /\ rel[c] \in {"w_unlock", "pw_unlock"}
  /\ shared_state' = "Unlocked"
  /\ RelTo(c, "post_w")
  /\ UNCHANGED <<queues, bits, reader_lock_count, coro, block, others>>

-----------------------------------------------------------------------------
(* commonPostUnlock(): lines 165-211. *)

\* Mutant: commonPostUnlock looks for readers only.
PostWritersSkipped(c) ==
  RelLoad(c, "post_w", writer_queue_empty_bit, "post_r", "post_r")

PostWriters(c) == RelLoad(c, "post_w", writer_queue_empty_bit, "pw_cas", "post_r")

PostWriteCas(c) == RelCas(c, "pw_cas", "Unlocked", "WriteLock", "pw_get")

PostWriteGet(c) ==
  /\ rel[c] = "pw_get"
  /\ \/ TickWriter(c) /\ RelTo(c, "none")
     \/ /\ writer_queue = <<>>
        /\ RelTo(c, "pw_bit")
        /\ UNCHANGED <<writer_queue, coro>>
  /\ UNCHANGED <<shared_state, reader_queue, bits, reader_lock_count, block, others>>

PostReaders(c) == RelLoad(c, "post_r", reader_queue_empty_bit, "pr_cas", "none")

PostReadCas(c) == RelCas(c, "pr_cas", "Unlocked", "ReadLock", "pr_first")

PostReadFirst(c) ==
  /\ rel[c] = "pr_first"
  /\ \/ TickReader /\ RelTo(c, "drain")
     \/ /\ reader_queue = <<>>
        /\ RelTo(c, "pr_bit")
        /\ UNCHANGED <<reader_queue, coro>>
  /\ UNCHANGED <<shared_state, writer_queue, bits, reader_lock_count, block, others>>

(* deinit(): lines 92-98. *)

Granted(c) == coro[c] \in {"ticked", "held"}

\* Nothing is running or about to run: only queued coroutines may be left.
Quiet ==
  /\ Busy = {}
  /\ \A c \in Calls : ~Granted(c)

Deinit ==
  /\ live /\ Quiet
  /\ live' = FALSE
  /\ writer_queue' = <<>> /\ reader_queue' = <<>>
  /\ coro' = [c \in Calls |-> IF coro[c] = "queued" THEN "cancelled" ELSE coro[c]]
  /\ UNCHANGED <<shared_state, bits, reader_lock_count, block, rel, first_node, num_threads>>

-----------------------------------------------------------------------------
ReadBlockStep(c) ==
  ReadPut(c) \/ ReadMark(c) \/ ReadCas(c) \/ ReadFirst(c) \/ ReadRest(c)

WriteBlockStep(c) == WriteMark(c) \/ WriteCas(c) \/ WriteGet(c)

RelStep(c) ==
  \/ ReaderBit(c) \/ ReaderUnlock(c)
  \/ WriteLoad(c) \/ WriteToRead(c) \/ DrainReaders(c)
  \/ WriterBit(c) \/ WriterUnlock(c)
  \/ PostWriters(c) \/ PostWriteCas(c) \/ PostWriteGet(c)
  \/ PostReaders(c) \/ PostReadCas(c) \/ PostReadFirst(c)

Next ==
  \/ \E c \in Readers : AcquireRead(c) \/ ReadBlockStep(c) \/ ReleaseRead(c)
  \/ \E c \in Writers : AcquireWrite(c) \/ WriteBlockStep(c) \/ ReleaseWrite(c)
  \/ \E c \in Calls : Resume(c) \/ RelStep(c)
  \/ Deinit

\* The loop's threads keep running and a holder releases.
Fairness ==
  /\ \A c \in Readers : WF_vars(ReadBlockStep(c)) /\ WF_vars(ReleaseRead(c))
  /\ \A c \in Writers : WF_vars(WriteBlockStep(c)) /\ WF_vars(ReleaseWrite(c))
  /\ \A c \in Calls : WF_vars(Resume(c)) /\ WF_vars(RelStep(c))

Spec == Init /\ [][Next]_vars

FairSpec == Spec /\ Fairness

-----------------------------------------------------------------------------
\* Type invariant of the lock.
TypeOK ==
  /\ shared_state \in {"Unlocked", "WriteLock", "ReadLock"}
  /\ writer_queue \in Seq(Writers)
  /\ reader_queue \in Seq(Readers)
  /\ writer_queue_empty_bit \in {0, 1}
  /\ reader_queue_empty_bit \in {0, 1}
  /\ reader_lock_count \in Nat
  /\ coro \in [Calls -> CoroStates]
  /\ block \in [Calls -> BlockStates]
  /\ rel \in [Calls -> RelStates]
  /\ first_node \in [Calls -> Readers \cup {Nobody}]
  /\ live \in BOOLEAN
  /\ num_threads \in ThreadCounts

\* Between writers the lock is exclusive with any number of threads
\* (rwlock.zig:13).
WritersExclude ==
  \A c, d \in Writers : Granted(c) /\ Granted(d) => c = d

\* reader_lock_count counts the readers that have called acquireRead() and
\* not release(), waiting ones included: the last of them, and only the last,
\* goes on to unlock (lines 37-40), and the count never goes below zero.  A
\* reader that deinit() cancels stays counted.
CountExact ==
  /\ TypeOK
  /\ reader_lock_count =
       Cardinality({c \in Readers : coro[c] \notin {"idle", "released"}})

\* "Locking for writing is exclusive" (rwlock.zig:13): no reader has the
\* lock while a writer has it.
WritingIsExclusive ==
  \A w \in Writers, r \in Readers : ~(coro[w] = "held" /\ coro[r] = "held")

\* On a loop with one thread readers and writers exclude each other.
WriterExcludesReaders == num_threads = 1 => WritingIsExclusive

\* Waiters "are resumed when the lock is released" (rwlock.zig:11-12), on a
\* loop with one thread: when no coroutine has the lock and all threads are
\* done, none is left in a queue and the assertion of deinit (line 95) holds.
NoStrandedWaiter ==
  num_threads = 1 /\ Quiet =>
    writer_queue = <<>> /\ reader_queue = <<>> /\ shared_state = "Unlocked"

\* On a loop with one thread a waiting coroutine gets the lock.
EventuallyHeld ==
  \A c \in Calls : num_threads = 1 /\ coro[c] = "queued" ~> coro[c] = "held"
=============================================================================
