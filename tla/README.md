# TLA+ models of Zig's concurrent library and of its compilation cache

This project specifies, model-checks and proves properties of the parts of this
repository where correctness depends on interleavings, on crashes or on long
sequences of calls: the locks, the queue, the channel and the event loop of the
standard library (`src/std`), on which the self-hosted compiler's `async` code
is built, and the compilation cache and the hash table of the stage1 compiler
(`src/src`).  Line numbers refer to the sources at this revision.

## 1. Inventory

| Component | State | Operations | What makes it correct |
|---|---|---|---|
| `std.Mutex` (`std/mutex.zig`), Linux | a futex word: 0, 1, 2 | `acquire`, `Held.release` | one owner; no sleeper without a wake-up to come |
| `std.atomic.Queue` (`std/atomic/queue.zig`) | `head`, `tail`, the nodes' `prev` and `next`, a mutex | `put`, `get`, `unget`, `remove` | FIFO; `remove` says the truth; its assertions hold |
| `std.event.Lock` (`std/event/lock.zig`) | `shared_bit`, `queue_empty_bit`, a queue of coroutines | `acquire`, `release`, `deinit` | one holder; order; no waiter stranded |
| `std.event.RwLock` (`std/event/rwlock.zig`) | `shared_state`, two queues, two bits, `reader_lock_count` | `acquireRead`, `acquireWrite`, two `release`, `deinit` | writers exclude everybody; no waiter stranded |
| `std.event.Loop` (`std/event/loop.zig`), Linux | `pending_event_count`, `next_tick_queue`, a stack of eventfd nodes, epoll, `fs_queue`, `fs_queue_item` | `onNextTick`, `call`, `yield`, `run`, `dispatch`, `finishOneEvent`, `posixFsRequest`, `linuxWaitFd`, the worker and file system threads | each tick is delivered once; the loop stops when and only when all work is done |
| `std/event/fs.zig` requests | request nodes | `pwritevPosix`, `preadvPosix`, `openPosix`, `CloseOperation`, the watch coroutine | each request is performed and its coroutine resumed |
| `std.event.Channel` (`std/event/channel.zig`) | three queues, two counts, a ring buffer, `dispatch_lock`, `need_dispatch` | `put`, `get`, `getOrNull`, `dispatch`, `destroy` | values are delivered once and in order; nobody waits for what is there |
| stage1 cache (`src/cache_hash.cpp`, used by `gen_c_object`) | a manifest file, its lock, the artifacts, a `CacheHash` per process | `cache_hit`, `cache_add_file`, `cache_add_dep_file`, `cache_final`, `cache_release` | a hit returns what compiling the present files would give, whoever crashed before |
| stage1 hash map (`src/hash_map.hpp`) | entries with their distances, `_size`, `_max_distance_from_start_index`, `_modification_count` | `put`, `put_unique`, `get`, `remove`, `clear`, the iterator | it is a map; iteration is complete or stops the program |
| `std.event.Future`, `Group` | a lock or stacks plus flags | `resolve`/`get`; `add`/`wait` | not modelled, section 6 |
| `std.atomic.Stack`, `SpinLock`, `LazyInit`, `StaticallyInitializedMutex` | one word each | `push`/`pop`, `acquire`, `get`/`resolve` | not modelled |
| `std/heap.zig`, containers, `std/build.zig`, processes | sequential | | not modelled |
| stage1 and self-hosted compilers, lld, libc, headers | | | not modelled |

How they interact.  A queue takes a `Mutex` for each operation.  A `Lock` or
`RwLock` keeps waiting coroutines in a queue and hands them to
`Loop.onNextTick`.  The loop keeps coroutines to be resumed in its own queue;
its workers take them from there, or are woken out of `epoll_wait` by an
eventfd node taken from a stack.  The file system thread takes requests from a
queue, sleeps on a futex and gives the coroutines back through `onNextTick`.
The watch coroutine waits for its inotify descriptor with `linuxWaitFd` and puts
events into a `Channel`.  Compilers that run at the same time share the cache
directory and nothing else: they meet at the lock on a manifest file.

What is hard here:

* a coroutine is suspended *before* its suspend block runs, so another thread
  may resume it, and it may run to its end, while the block is still running;
* decisions are taken from bits read in one step and acted on in another
  (`queue_empty_bit`, `reader_queue_empty_bit`, `fs_queue_item`);
* the loop's end is decided by a count that every begin and finish, on any
  thread, must keep exact;
* threads that block (`futex_wait`, `epoll_wait`) need somebody to wake them;
* a channel's caller leaves when another thread is dispatching, and relies on
  that thread to look again;
* a compiler trusts what an earlier one, perhaps killed, has written about
  files that are edited at any time, with time stamps of limited resolution.

`PROJECT.json` lists these hazards at their lines, with the properties that
cover them.

## 2. Modules

| Module | Models | Notes |
|---|---|---|
| `AbstractMutex` | what a mutex promises | owner or nobody |
| `Mutex` | `mutex.zig:47-92` | one action per atomic instruction or futex call; `@cmpxchgWeak` may fail spuriously; `EINTR` and `EAGAIN` |
| `MutexProofs` | | theorems for any set of threads |
| `FifoQueue` | what the queue promises | a sequence, and the results of `get` and `remove` |
| `AtomicQueue` | `atomic/queue.zig` | the links themselves; one action per operation, because each runs under the mutex |
| `AtomicQueueProofs` | | theorems for any number of nodes |
| `EventLock` | `event/lock.zig` | coroutine, suspend block and release of one call move independently |
| `EventLockProofs` | | theorems for any number of calls and threads |
| `RwLock` | `event/rwlock.zig` | same structure, readers and writers |
| `RwLockProofs` | | theorems for any number of readers, writers and threads |
| `Loop` | `event/loop.zig`, Linux, and the requests and the watch of `event/fs.zig` | workers, file system thread, kernel objects |
| `LoopProofs` | | theorems for any finite sets of workers, eventfd nodes and coroutines |
| `Channel` | `event/channel.zig` | one action per atomic operation of `dispatch` |
| `ChannelProofs` | | theorems for any number of calls and threads |
| `CacheHash` | `cache_hash.cpp`, `gen_c_object` of `codegen.cpp`, the lock and the write of `os.cpp` | processes, files, clock, crashes |
| `CacheHashProofs` | | theorems for any number of processes, files, edits and crashes |
| `AbstractMap` | what a table promises | a finite map |
| `HashMap` | `hash_map.hpp` | one action per call; the compiler is sequential |
| `HashMapProofs` | | theorems for any set of keys, hash function and capacity |
| `MC_*` | | give the constants their values for TLC |

Definitions whose comment starts with "Mutant" are faulty variants of the
action below them.  They are not part of any next-state relation; replacing the
action by its variant must make the named property fail.

**Mutex.**  `lock` is the word, `pc[t]` the thread's place in `acquire` or
`release`.  A thread loops for ever.  `ImplementsAbstractMutex` maps the owner
to the thread that has acquired and not yet made the word 0.

**AtomicQueue.**  `head`, `tail`, `prev`, `next` are the fields.  Links of a
node that was never put are undefined in the code, so `Init` allows any
content; `initialized` are the nodes whose links mean something, and `remove`
is called on those only.  `contents` is a history variable: what a client has
queued.  `UngetNonEmpty` says whether clients call `unget` on a queue that
holds nodes.  `isEmpty` (lines 100-104) has no caller and returns the opposite
of its name; `dump` prints.  Neither changes state.

**EventLock, RwLock.**  One element of `Calls` (or `Readers`, `Writers`) is one
call of acquire followed by at most one release.  `coro[c]` is the coroutine:
`queued` in the lock's queue, `ticked` in the loop's, `held`.  `block[c]` is the
rest of the suspend block, `rel[c]` the rest of `release`.  Each bit operation
and each queue operation is one step, which `AtomicQueue`'s refinement
justifies.  `num_threads`, chosen from `ThreadCounts` at the start, bounds how
many suspend blocks and releases run at once: it is how many threads the loop
has.  In `RwLock` the state `counted`
is a reader between lines 101 and 111, and `chosen` one taken from the queue
(line 124) and not yet resumed (line 128).  `Deinit` requires that all calls
are complete (lines 87-88, 92-93).

**Loop.**  `th[t]` holds each thread's program counter and the locals it still
needs.  The same actions (`Dispatch...`, `PutTick`, `PutRequest`, `Finish`, ...)
serve every thread that runs the function; `ret` says where `dispatch` returns
to.  Kernel objects: `registered` and `armed` are the eventfds known to epoll
and those it will report, `final_eventfd` is level-triggered and stops every
worker, the futex is `fs_queue_item` with the place `f_sleep`.  `next_tick_queue`
is a FIFO sequence as long as `unget` is called on an empty queue; `shadowed`
and `lost` record what `AtomicQueue`'s `unget` does otherwise: the nodes behind
the new head, and those put until it is taken, cannot be reached.  A resumed
coroutine may return, yield, make a request, start another coroutine, close a
file or, if it is one of `Watchers`, wait for a descriptor as the watch of
`event/fs.zig` does: it begins an event of its own (line 1228), waits with
`linuxWaitFd` and finishes its event when it ends (line 1240).  `edges[c]` is how
often epoll will still report the descriptor.  A thread that resumes a coroutine
from a descriptor finishes no event (`after` = "get").  Two assumptions are made
about a wait: `epoll_ctl` succeeds, and one edge is reported (`Edges` = 1).

**Channel.**  An element of `Puts`, `Gets` or `OrNulls` is one call, and the
value of a put is the call itself.  `d[c]` is the thread in the call's suspend
block: its place in `dispatch` and its copies of the counts.  Counts are modulo
`UsizeRange`, because the code lets them go below zero.  Taking a node and the
`onNextTick` that follows are one step: only the thread inside `dispatch` takes
nodes.  `overrun` is the failed bounds check of line 283, at which the program
ends.

**CacheHash.**  All processes compile the same source with the same parameters,
so they use one manifest.  A digest is the content it stands for (no
collisions), the state of the hash is the sequence of digests put into it, and
the artifact is what was compiled, kept under its digest.  Reading a file's
attributes and hashing it are two steps, and the hashing reads the descriptor
that the first step opened (lines 249 and 258, 390 and 413); the C compiler opens
the files by name and reads all of them in one step.  `Edit` writes a file in
place with the current time stamp, rounded to `Granule`: whoever has it open sees
the new content.  `Replace` renames another file over it, with any older stamp
and a new inode: whoever has the old one open goes on reading that, and `fd` keeps
what it holds.  `Crash` ends a process anywhere.  `tainted` are the artifacts one
of whose files was changed between its hashing and its compilation, in either
order, or lost its name to another file between its opening and its hashing:
they are exempt from `HitIsRight`, since the cache cannot know which version the
compiler saw.

**HashMap.**  A table is a record of its entries and counters.  The loops over
`roll_over` are recursive functions over the rounds.  `panic` names the
`zig_panic` that was reached; `since` counts the changes since the iterator was
made.  `CountRange` stands for the 2^32 values of `_modification_count`.

## 3. Runs

| Run | Instance | Shows |
|---|---|---|
| `mutex` | 3 threads | exclusion, word, wake-ups, progress, refinement |
| `queue` | 3 nodes, all initial links, `unget` on empty only | links exact, assertions hold, FIFO results |
| `queue_unget` (violation) | `unget` on any queue | the assertion of `put` (line 38) fails later |
| `lock` | 4 cancellable calls, 1 and 2 threads, fair; 183 thousand states | exclusion, order, queue contents; with 1 thread nobody is stranded, `deinit` passes and every waiter is served |
| `lock_stranded` (violation) | 3 calls, 2 threads | a waiter stays queued for ever |
| `rwlock` | 3 readers, 2 writers, 1 and 2 threads, fair; 338 thousand states | writers exclude writers, the count is exact; with 1 thread full exclusion, nobody stranded, every waiter served |
| `rwlock_exclusion` (violation) | 2 readers, 1 writer, 2 threads | a reader and a writer hold together |
| `loop` | 2 workers, 1 eventfd node, 2 coroutines of which one may wait for a descriptor, at most 1 epoll failure, fair; 708 thousand states | count exact, stops only when idle, ticks delivered once; without a failure none is missed and `run()` returns |
| `loop_one_thread` (violation) | 1 worker, no eventfd node, fair | a tick from the file system thread is never run |
| `cache` | 2 processes, a source that may include a header, 2 contents, 2 edits, time stamps of 2 ticks, the clock up to 5; 2.4 million states | one process at a time, the manifest is truthful, a hit is right, no needless miss |
| `channel` | 2 puts, 2 gets, 1 `getOrNull`, buffers of 0 and 1, 1 and 2 threads, fair; 163 thousand states | one dispatcher, exact counts, values kept and in order, nobody stranded, `getOrNull` honest and never waiting |
| `hashmap` | 4 keys, 2 values, 3 hash functions, capacity 4 to 8; 242 thousand states | places, lookups, no inconsistency, complete iteration, changes noticed, refinement of a map |

A module's type invariant is a property of its own or a conjunct of the
invariant that relies on it most (`CountExact`, `PendingExact`, `OneAtATime`,
`CountsExact`, `WellPlaced`); the proofs cover all of them.

Why the bounds are enough to be interesting.  Three mutex threads: an owner, a
sleeper and a third that races with the release.  Three queue nodes: a removed
node can have neighbours on both sides, or be first, last or alone.  Two lock
threads and four calls: a release, a suspend block and an arrival overlap while
a second waiter is queued, which order is about.  Two workers and one eventfd
node: the node can be in one thread's hands while another queues a tick; the
file system thread is a third party that never takes ticks itself.
`Operations` = 1 lets each coroutine suspend once, so a node is used a second
time (`EPOLL_CTL_MOD`).  The channel's calls outnumber its places and its
threads.  In the cache, two edits allow a change and its reversal, or a change
of the source that brings in a changed header; time stamps of two ticks and a
clock up to five give stamps with one and with two trailing zero bits, each of
which is problematic for a while and then trusted; the header is an entry past
the inputs.  The hash
functions make three keys collide and displace the fourth, and make searches
wrap around the end of a table of four and of eight.

Deadlock is checked in `mutex`, `queue`, `cache` and the loop's runs (where
`Terminated` is the only allowed end).  The lock and channel runs stop when every
call is complete and the table when it has panicked, so they say
`CHECK_DEADLOCK FALSE`.

Fairness.  Weak fairness of each thread's next step: the kernel schedules
runnable threads.  In the lock modules also that a ticked coroutine is resumed
(the loop's job, which `loop` checks) and that a holder releases (the
client's duty).  Nothing obliges a client to acquire, cancel or `deinit`, and
`EINTR` is never relied on.  `WaitersProgress` promises that the futex mutex is
handed on while threads wait, not that each thread gets it: the mutex is not
fair.  In `Channel` only the threads in suspend blocks are fair: nobody need ever
put or get.  In `Loop` a descriptor that is waited for becomes ready.

## 4. Where code and documentation disagree

Each of the first four has a run of its own, which TLC ends with a
counterexample.

* **`queue_unget`.**  `unget` (line 69) stores the link in the wrong direction.
  `Loop.dispatch` is its only caller and may call it on a queue that holds
  nodes.  All theorems about the queue therefore assume it is not.  For the
  loop it means that a failed `epoll_ctl` loses the ticks queued behind the one
  it puts back: the last part of `TickOnce` is therefore conditional on `failures = 0`.
* **`lock_stranded`.**  `release` overwrites a `queue_empty_bit` that a new
  waiter has just cleared (line 33).  With two threads the
  assertion of `deinit` can fail too: a suspend block may take `shared_bit` for a
  coroutine that has already had the lock and released it (line 112), and
  nobody clears it.  Neither happens with one thread (`OneThreadSafe`).
* **`rwlock_exclusion`.**  The last reader's release unlocks from a count that
  is stale by the time of line 43.
* **`loop_one_thread`.**  `initSingleThreaded`, or `initMultiThreaded` on a
  machine with one core, leaves no eventfd node, and the file system thread
  cannot wake the worker.

The others show when a constant of a passing run is changed:

* **`Channel`, a buffer of two or more** (`Capacities = {2}`, `NobodyStranded`).
  With a value in the buffer and no getter, `break :one_dispatch` (line 240)
  skips the transfer of waiting puts into the free places; lines 9-11 say that
  producers suspend when the buffer is full.
* **`Channel`, `getOrNull` on two threads** (`OrNullThreadCounts = {1, 2}`,
  `ValuesKept`, `CountsExact`).  The call is in `getters` (line 211) before it is
  in `or_null_queue` (line 213); a thread that serves it in between resumes it,
  and another resumes it again.
* **`Channel`, the ring buffer.**  `buffer_index` never wraps at the buffer's
  size (line 285), so the buffer of line 24 serves as many buffered puts as it
  has places, and then the bounds check of line 283 fails.
* **`CacheHash`, a short write** (`Cuts = {0, 1}`, `HashMatchesFiles`).
  `os_file_overwrite` takes any non-negative result of `write` for success
  (`os.cpp:2046`).  A manifest cut after a whole line leaves an entry without a
  path in the list (`cache_hash.cpp:336-346`); `cache_hash.hpp:74` says the final
  digest is what a later hit returns.
* **`CacheHash`, time stamps of another resolution** (`Granule = 3`,
  `ManifestTruthful`).  `is_problematic_timestamp` (lines 227-241) rounds the
  clock by as many low bits as are zero in the time stamp.  That is at least the
  resolution of the stamp if the resolution is a power of two (in nanoseconds, or
  in seconds: the fields are rounded separately), and may be less for any other,
  100 ns or 10 ms for instance; a write that gets the same stamp then goes
  unnoticed.  The comment (lines 223-226) says "rounded to the same precision as
  the mtime" without restriction.
* **`Loop`, a second edge** (`Edges = 2`, `PendingExact`).  A descriptor
  registered without `EPOLLONESHOT` can be reported again before
  `linuxRemoveFd`, and another worker resumes the coroutine a second time.

## 5. Proofs

TLAPS checks every proof; the constants are arbitrary, subject to the `ASSUME`
of each module.

* **`MutexProofs`.**  `IInv` = types, exclusion and "the word is 0 exactly when
  there is no owner".  Exclusion alone is not inductive: an exchange that finds
  0 is safe only because of the second part.  From it: `TypeCorrect`,
  `Exclusive`, `WordTruthful`; `WakeupsKept` needs one more induction;
  `Refinement` maps each step to a step of `AbstractMutex` or a stutter.
* **`AtomicQueueProofs`.**  `Inv` = `TypeOK /\ WellLinked`.  The last part of
  `WellLinked`, that an initialised node outside the queue has no links, is what
  makes `remove`'s test right (`LooksRight`).  `UnlinkInv` is the common case
  of `get` and `remove`.  Theorems: `TypeCorrect`, `AlwaysWellLinked`,
  `AssertsNeverFail`, `Refinement`, all under `UngetNonEmpty = FALSE`.
* **`EventLockProofs`.**  `TypeCorrect`; `WaitersQueuedOnce` by induction over
  the queue's positions; `TokenUnique`, the inductive strengthening of
  `Exclusive`: the right to hand out the lock is with a coroutine, a release or
  a suspend block, never with two.  `InOrderOfArrival`, an action property, rests
  on `InLine`: the queue is in the order of arrival, and whoever has been given
  the lock arrived before those still queued.  `OneThreadSafe` uses that with
  one thread a suspend block or release runs alone (`FreeMeansIdle`), so between
  two of them the bits agree with the queue (`SettledInductive`).
* **`RwLockProofs`.**  `Inv` = types, the two queues hold the waiting calls and
  each once, every call is in a place that fits its suspend block and release,
  and the count is the number of readers past line 101.  From it `CountCorrect`.
  `WritersExclusive` goes through `OneWriteToken`: the right to write is with one
  coroutine, suspend block or release.  `ReadersExcluded` and `NobodyLeftWaiting`
  are the one-thread half of the findings above: with one thread a block or
  release runs alone, and `Settled` says, for each of its places, how the word
  and the bits agree with the queues.
* **`CacheHashProofs`.**  `Base` = types, "a process is active exactly when it
  has the lock", and what a process holds at each place of the code.  From it
  `OneOwner`, and `NoNeedlessBuild`, an action property.  `AllSound`, that a line
  or a remembered file with a trusted stamp is older than the clock and tells
  the file's digest, gives `LinesCanBeTrusted`; it is not inductive without its
  first part, because an edit is told apart from the line only by a later stamp.
  `Descriptors` says of a file that lost its name while it is being hashed that
  the one now there has a later inode, so that the line will not be trusted, and
  that the build counts as disturbed if the file is an input.
  `AllHashed` (the hash is that of the files read so far) and `AllRight`
  (an artifact is the one of its digest unless tainted) give `DigestOfTheFiles`
  and `RightArtifact`.  The hypotheses are those of section 4: `PowerOfTwo` (of
  `Granule`) for `LinesCanBeTrusted` and `RightArtifact`, `Cuts \subseteq {0}` for
  `DigestOfTheFiles` and `RightArtifact`.  `OneOwner` and `NoNeedlessBuild` hold
  for any resolution and any write.
* **`ChannelProofs`.**  `Base` = types, one dispatcher, each call in the queues at
  most once and where its state says.  `Numbers`: each count is the length of its
  queue less the calls not yet counted and less what the one dispatcher has
  claimed and not settled, modulo `UsizeRange`.  `Given`: each value is with its
  put, in the buffer's window or with one get.  `Ordered`: both queues, the buffer
  and what was received follow the order of the calls.  `Settled`: when nobody is
  dispatching and nobody must look again, nothing can be matched.  Theorems:
  `DispatcherAlone` without hypotheses; `CountsCorrect`, `ValuesNotLost`,
  `ArriveInOrder` and the action property `NullOnlyIfEmpty` under
  `OrNullThreadCounts \subseteq {1}`; `NobodyIsStranded` also under `Capacities
  \subseteq {0, 1}`.  Both hypotheses exclude exactly the findings of section 4.
* **`LoopProofs`.**  Each action is first reduced to what it does to the thread
  that takes it (the lemmas `...Does`).  `Base` = types, what a thread has in
  hand at each program counter, each eventfd node in one place (available, armed
  or in one thread's hands) and its `epoll_op` right.  `TicksNotMissed` follows
  for `EventfdNodes # {}`; without a node it is false (`loop_one_thread`).
  `Located`: a coroutine is in at most one place of the loop, the place fits its
  state, the queues hold nothing twice, and nothing is lost unless `epoll_ctl`
  failed; `EachTickOnce` is read off it.  `Counted` = `Exact` and `Ends`.  Each
  thread has a weight, the references it has still to drop; a step must balance
  the count, what rests in queues and sets, and the weight of its thread.
  `Exact` needs `Ends`, the order of the finale: the thread that drops the last
  reference is the only one to do so, counts the End request, and the final
  event is raised after that.  `CountOfEvents` and `StopsOnlyWhenIdle` follow,
  the second because a count of one that is the End request leaves nothing for
  anybody else.  These three assume `Edges <= 1`: a second edge resumes a
  coroutine twice (section 4).  The sets of workers, nodes and coroutines are
  assumed finite, because the count adds up their cardinalities.
* **`HashMapProofs`.**  `Inv` = `GoodTable`, the counters of changes (`Counted`),
  what an iterator over an unchanged table has returned (`Iterates`) and which
  panic was reached (`Panics`).  `GoodTable` says of neighbours what `WellPlaced`
  says of a whole search: before an entry that is not at its start comes one that
  is at most one round closer to its own start.  That form survives a
  displacement and a shift; the lemma `Chain` goes from it to the whole search by
  induction.  A put is followed round by round: `InHand` (the entry in hand
  belongs here or further on, and the table with it in place of its key is what
  was wanted) becomes `InTable`, at the latest at an unused place, which a table
  under 60% has.  A growth is followed element by element (`Dumped`); that the
  larger table has room is a count of keys (`NoMoreUsed`).  A removal is `Shift`:
  the entries up to the next one at its start, or unused place, move back one.
  The recursive functions `PutRounds` and `Dumps` are first shown to be defined
  (`PutRoundsExist`, `DumpsExist`).  Theorems: `PlacesCorrect`, `LookupsCorrect`,
  `Consistent`, `IterationsCorrect`, the action property `IteratorNotices` and
  `MapRefinement`.  Assumed: the initial capacity and the range of
  `_modification_count` are not zero, `Unused` is neither an entry nor an
  iterator.  `MaxCapacity`, the bound of the run, plays no part.

`RwLockProofs`, `ChannelProofs` and `LoopProofs` each begin with what `put` and
`get` do to a queue without repetitions (`EmptyQueue`, `PutQueue`, `GetQueue`);
`CacheHashProofs` and `HashMapProofs` with the least element of a set of natural
numbers and induction stated with a set instead of a predicate (`LeastNat`,
`Induct`), because the provers cannot instantiate a predicate.

Every invariant, action property and refinement of the runs is proved, under
the hypotheses named above.  Only model-checked: liveness (`WaitersProgress`,
`EventuallyHeld`, `RunReturns`, `OrNullReturns`), which is out of this prover's
reach.

## 6. What is not modelled, and abstractions

* Memory order: every atomic operation is sequentially consistent.  The event
  modules use `SeqCst`; `Mutex` uses acquire and release on one word only.
* The single-threaded `Mutex` stub, the spin lock of other systems, the BSD and
  Windows branches of the loop.
* In `Loop`: a failing `linuxAddFd`, `cancelOnNextTick`, `posixFsCancel`,
  failures during initialisation, `deinit`.  Cancellation is modelled in
  `EventLock` (of a queued waiter) and nowhere else.  Hazards at these places are
  listed without a property.  `event/net.zig` waits for descriptors without an
  event of its own around the wait, which the mutant `WatchUncounted` shows to
  stop the loop early.
* In `CacheHash`: the text of manifests and `.d` files, the build of a Zig root
  package with the same calls, hash collisions, file systems on which `fcntl`
  locks do not work.  A torn line is always invalid: a line past the inputs that
  is torn inside its path parses in the code, names a file that cannot be opened
  and ends the process (`Fail`); it takes a write that keeps whole lines, which
  no run has.  Time is one number, where the code has seconds and nanoseconds.
* In `HashMap`: `get` and `remove` of a key that is not there, which end the
  program.
* `Future`, `Group`, `Locked`, `RwLocked`: thin layers over `EventLock`, `RwLock`
  and stacks; the delicate part, the lock that starts locked, is in
  `EventLock!Init`.  `Stack`, `SpinLock`, `LazyInit`: a word each, used under the
  assumption that they are atomic.
* Destruction of coroutine frames: a node is never reused after its call.
* The contents of requests and the results of file operations.
* Compiler, build system, containers, allocators, vendored code.

## 7. Plan

1. `Future` over `EventLock`'s `initLocked`, checked against "available for ever
   after `resolve`"; then `Group`.
2. Cancellation in `Loop` and `Channel`.
