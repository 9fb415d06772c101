------------------------------ MODULE Channel ------------------------------
(***************************************************************************)
(* std.event.Channel (src/std/event/channel.zig): many producers and many  *)
(* consumers hand values over, through a buffer or directly.  An element   *)
(* of Puts is one call of put(), of Gets one of get(), of OrNulls one of   *)
(* getOrNull(); the value of a put is the call itself.  coro[c] is the     *)
(* coroutine of the call, d[c] the thread in its suspend block, which runs *)
(* dispatch() (lines 220-319).  Whoever sets dispatch_lock from 0 moves    *)
(* the values; a call that finds it set leaves the work, announced in      *)
(* need_dispatch, to the one inside.                                       *)
(*                                                                         *)
(* Every atomic operation is one step.  So is taking nodes from the queues *)
(* up to the onNextTick() that follows: only the thread inside dispatch()  *)
(* takes nodes, so nothing else can observe the difference.                *)
(***************************************************************************)
EXTENDS Integers, Sequences, FiniteSets

CONSTANTS
  Puts, Gets, OrNulls,
  Capacities,    \* the buffer sizes create() may be called with
  ThreadCounts,  \* the numbers of threads a loop may have
  OrNullThreadCounts, \* those on which getOrNull() is called
  UsizeRange,    \* the number of values of usize
  None

ASSUME ChannelAssumption ==
  /\ IsFiniteSet(Puts) /\ IsFiniteSet(Gets) /\ IsFiniteSet(OrNulls)
  /\ Puts \cap (Gets \cup OrNulls) = {} /\ Gets \cap OrNulls = {}
  /\ Capacities \subseteq Nat
  /\ ThreadCounts \subseteq Nat \ {0}
  /\ UsizeRange \in Nat
  /\ Cardinality(Puts \cup Gets \cup OrNulls) + 1 < UsizeRange
  /\ None \notin Puts

Getters == Gets \cup OrNulls
Calls == Puts \cup Getters

VARIABLES
  getters, putters, or_null_queue,
  get_count, put_count,
  dispatch_lock, need_dispatch,
  buffer_nodes, buffer_index, buffer_len,
  coro,          \* idle, waiting, resumed, twice (resumed again) or cancelled
  result,
  d,
  overrun,       \* the bounds check of line 283 has failed
  arrivals,      \* history: the calls in the order they entered the queues
  live,          \* destroy() has not been called
  num_threads    \* of the loop, fixed when it is created

queues == <<getters, putters, or_null_queue>>
counts == <<get_count, put_count>>
flags == <<dispatch_lock, need_dispatch>>
buffer == <<buffer_nodes, buffer_index, buffer_len>>
calls == <<coro, result, arrivals>>
env == <<live, num_threads>>
vars == <<queues, counts, flags, buffer, calls, d, overrun, env>>

Usize(n) == n % UsizeRange

capacity == Cardinality(DOMAIN buffer_nodes)

\* A thread outside dispatch(); gets and puts are its copies of the counts,
\* removed its remove_count.
Out == [pc |-> "none", gets |-> 0, puts |-> 0, removed |-> 0]

At(c, pc) == ~overrun /\ d[c].pc = pc
GoTo(c, pc) == d' = [d EXCEPT ![c].pc = pc]

ThreadFree == Cardinality({c \in Calls : d[c].pc # "none"}) < num_threads

\* create(): lines 54-75.
Init ==
  /\ getters = <<>> /\ putters = <<>> /\ or_null_queue = <<>>
  /\ get_count = 0 /\ put_count = 0
  /\ dispatch_lock = 0 /\ need_dispatch = 0
  /\ \E n \in Capacities : buffer_nodes = [i \in 0..(n - 1) |-> None]
  /\ buffer_index = 0 /\ buffer_len = 0
  /\ coro = [c \in Calls |-> "idle"]
  /\ result = [c \in Getters |-> None]
  /\ d = [c \in Calls |-> Out]
  /\ overrun = FALSE
  /\ arrivals = <<>>
  /\ live = TRUE
  /\ num_threads \in ThreadCounts

-----------------------------------------------------------------------------
(* The suspend blocks of put(), get() and getOrNull(): lines 114-119,      *)
(* 153-158 and 210-216.                                                    *)

Begin(c) ==
  /\ ~overrun /\ live /\ coro[c] = "idle" /\ ThreadFree
  /\ c \in OrNulls => num_threads \in OrNullThreadCounts
  /\ coro' = [coro EXCEPT ![c] = "waiting"]
  /\ arrivals' = Append(arrivals, c)
  /\ IF c \in Puts THEN putters' = Append(putters, c) /\ UNCHANGED getters
                   ELSE getters' = Append(getters, c) /\ UNCHANGED putters
  /\ GoTo(c, "count")
  /\ UNCHANGED <<or_null_queue, counts, flags, buffer, result, overrun, env>>

Count(c) ==
  /\ At(c, "count")
  /\ IF c \in Puts THEN put_count' = Usize(put_count + 1) /\ UNCHANGED get_count
                   ELSE get_count' = Usize(get_count + 1) /\ UNCHANGED put_count
  /\ GoTo(c, IF c \in OrNulls THEN "or_null" ELSE "need")
  /\ UNCHANGED <<queues, flags, buffer, calls, overrun, env>>

\* Mutant: the node is not put into or_null_queue.
QueueOrNullForgotten(c) ==
  /\ At(c, "or_null")
  /\ GoTo(c, "need")
  /\ UNCHANGED <<queues, counts, flags, buffer, calls, overrun, env>>

QueueOrNull(c) ==
  /\ At(c, "or_null")
  /\ or_null_queue' = Append(or_null_queue, c)
  /\ GoTo(c, "need")
  /\ UNCHANGED <<getters, putters, counts, flags, buffer, calls, overrun, env>>

-----------------------------------------------------------------------------
(* dispatch(): the flags, lines 222-230 and 306-316. *)

SetNeed(c) ==
  /\ At(c, "need")
  /\ need_dispatch' = 1
  /\ GoTo(c, "lock")
  /\ UNCHANGED <<queues, counts, dispatch_lock, buffer, calls, overrun, env>>

\* Mutant: the old value of dispatch_lock is not looked at.
LockBlindly(c) ==
  /\ At(c, "lock")
  /\ dispatch_lock' = 1
  /\ GoTo(c, "clear")
  /\ UNCHANGED <<queues, counts, need_dispatch, buffer, calls, overrun, env>>

Lock(c) ==
  /\ At(c, "lock")
  /\ dispatch_lock' = 1
  /\ d' = [d EXCEPT ![c] = IF dispatch_lock = 0 THEN [@ EXCEPT !.pc = "clear"] ELSE Out]
  /\ UNCHANGED <<queues, counts, need_dispatch, buffer, calls, overrun, env>>

ClearNeed(c) ==
  /\ At(c, "clear")
  /\ need_dispatch' = 0
  /\ GoTo(c, "sub_get")
  /\ UNCHANGED <<queues, counts, dispatch_lock, buffer, calls, overrun, env>>

\* Lines 306-308: somebody came while we were moving values.
TestNeed(c) ==
  /\ At(c, "test")
  /\ need_dispatch' = 0
  /\ GoTo(c, IF need_dispatch # 0 THEN "sub_get" ELSE "unlock")
  /\ UNCHANGED <<queues, counts, dispatch_lock, buffer, calls, overrun, env>>

\* Mutant: the thread returns without looking at need_dispatch again.
UnlockAndReturn(c) ==
  /\ At(c, "unlock")
  /\ dispatch_lock' = 0
  /\ d' = [d EXCEPT ![c] = Out]
  /\ UNCHANGED <<queues, counts, need_dispatch, buffer, calls, overrun, env>>

\* Lines 310-311.
Unlock(c) ==
  /\ At(c, "unlock")
  /\ dispatch_lock' = 0
  /\ GoTo(c, "recheck")
  /\ UNCHANGED <<queues, counts, need_dispatch, buffer, calls, overrun, env>>

Recheck(c) ==
  /\ At(c, "recheck")
  /\ d' = [d EXCEPT ![c] = IF need_dispatch # 0 THEN [@ EXCEPT !.pc = "lock"] ELSE Out]
  /\ UNCHANGED <<queues, counts, flags, buffer, calls, overrun, env>>

-----------------------------------------------------------------------------
(* dispatch(): the counts.  A subtraction claims the next node before it   *)
(* is taken; the last claim, for a node that is not there, is undone.      *)

SubGet(c, at, next) ==
  /\ At(c, at)
  /\ get_count' = Usize(get_count - 1)
  /\ d' = [d EXCEPT ![c].pc = next, ![c].gets = get_count]
  /\ UNCHANGED <<queues, put_count, flags, buffer, calls, overrun, env>>

SubPut(c, at, next) ==
  /\ At(c, at)
  /\ put_count' = Usize(put_count - 1)
  /\ d' = [d EXCEPT ![c].pc = next, ![c].puts = put_count]
  /\ UNCHANGED <<queues, get_count, flags, buffer, calls, overrun, env>>

\* Lines 235-236, 255, 275-276 and 288.
Claim(c) ==
  \/ SubGet(c, "sub_get", "sub_put") \/ SubPut(c, "sub_put", "from_buffer")
  \/ SubGet(c, "buffer_sub", "from_buffer")
  \/ SubGet(c, "direct_sub_get", "direct_sub_put") \/ SubPut(c, "direct_sub_put", "direct")
  \/ SubPut(c, "fill_sub", "fill")

\* Lines 293-294.
UnclaimGet(c) ==
  /\ At(c, "add_get")
  /\ get_count' = Usize(get_count + 1)
  /\ d' = [d EXCEPT ![c].pc = "add_put", ![c].gets = 0]
  /\ UNCHANGED <<queues, put_count, flags, buffer, calls, overrun, env>>

UnclaimPut(c) ==
  /\ At(c, "add_put")
  /\ put_count' = Usize(put_count + 1)
  /\ d' = [d EXCEPT ![c].pc = "or_nulls", ![c].puts = 0]
  /\ UNCHANGED <<queues, get_count, flags, buffer, calls, overrun, env>>

-----------------------------------------------------------------------------
(* dispatch(): moving the values, lines 238-289. *)

\* onNextTick() for the calls in S.
Ticked(S) ==
  coro' = [c \in Calls |-> IF c \notin S THEN coro[c]
                           ELSE IF coro[c] = "waiting" THEN "resumed" ELSE "twice"]

\* Queue.remove(): the queue s without the node c.
Without(s, c) ==
  IF \E k \in 1..Len(s) : s[k] = c
  THEN LET k == CHOOSE k \in 1..Len(s) : s[k] = c
       IN [i \in 1..(Len(s) - 1) |-> IF i < k THEN s[i] ELSE s[i + 1]]
  ELSE s

\* Mutant: the value goes to the getter that came last.
GiveNextToLast(v) ==
  /\ getters' = Tail(getters)
  /\ or_null_queue' = Without(or_null_queue, Head(getters))
  /\ result' = [result EXCEPT ![getters[Len(getters)]] = v]

\* Take the first getter and give it v.
GiveNext(v) ==
  /\ getters' = Tail(getters)
  /\ or_null_queue' = Without(or_null_queue, Head(getters))
  /\ result' = [result EXCEPT ![Head(getters)] = v]

\* Transfer self.buffer to self.getters.
GiveBuffered(c) ==
  /\ At(c, "from_buffer") /\ buffer_len # 0 /\ d[c].gets # 0 /\ getters # <<>>
  /\ GiveNext(buffer_nodes[buffer_index - buffer_len])
  /\ Ticked({Head(getters)})
  /\ buffer_len' = buffer_len - 1
  /\ GoTo(c, "buffer_sub")
  /\ UNCHANGED <<putters, counts, flags, buffer_nodes, buffer_index, arrivals, overrun, env>>

\* Mutant: without a buffered value the waiting puts are not looked at.
BufferDoneSkipsDirect(c) ==
  /\ At(c, "from_buffer") /\ (buffer_len = 0 \/ d[c].gets = 0)
  /\ GoTo(c, IF buffer_len = 0 THEN "fill" ELSE "add_get")
  /\ UNCHANGED <<queues, counts, flags, buffer, calls, overrun, env>>

BufferDone(c) ==
  /\ At(c, "from_buffer") /\ (buffer_len = 0 \/ d[c].gets = 0)
  /\ GoTo(c, IF buffer_len = 0 THEN "direct" ELSE "add_get")
  /\ UNCHANGED <<queues, counts, flags, buffer, calls, overrun, env>>

\* Mutant: the putter is not resumed.
HandOverForgetsPutter(c) ==
  /\ At(c, "direct") /\ d[c].gets # 0 /\ d[c].puts # 0
  /\ getters # <<>> /\ putters # <<>>
  /\ GiveNext(Head(putters))
  /\ putters' = Tail(putters)
  /\ Ticked({Head(getters)})
  /\ GoTo(c, "direct_sub_get")
  /\ UNCHANGED <<counts, flags, buffer, arrivals, overrun, env>>

\* Direct transfer self.putters to self.getters.
HandOver(c) ==
  /\ At(c, "direct") /\ d[c].gets # 0 /\ d[c].puts # 0
  /\ getters # <<>> /\ putters # <<>>
  /\ GiveNext(Head(putters))
  /\ putters' = Tail(putters)
  /\ Ticked({Head(getters), Head(putters)})
  /\ GoTo(c, "direct_sub_get")
  /\ UNCHANGED <<counts, flags, buffer, arrivals, overrun, env>>

DirectDone(c) ==
  /\ At(c, "direct") /\ (d[c].gets = 0 \/ d[c].puts = 0)
  /\ GoTo(c, "fill")
  /\ UNCHANGED <<queues, counts, flags, buffer, calls, overrun, env>>

\* Transfer self.putters to self.buffer.  The bounds check of line 283 fails
\* once buffer_index has gone through the buffer.
Fill(c) ==
  /\ At(c, "fill") /\ buffer_len # capacity /\ d[c].puts # 0 /\ putters # <<>>
  /\ IF buffer_index \in DOMAIN buffer_nodes
     THEN /\ buffer_nodes' = [buffer_nodes EXCEPT ![buffer_index] = Head(putters)]
          /\ putters' = Tail(putters)
          /\ Ticked({Head(putters)})
          /\ buffer_index' = buffer_index + 1
          /\ buffer_len' = buffer_len + 1
          /\ GoTo(c, "fill_sub")
          /\ UNCHANGED overrun
     ELSE overrun' = TRUE /\ UNCHANGED <<buffer, putters, coro, d>>
  /\ UNCHANGED <<getters, or_null_queue, counts, flags, result, arrivals, env>>

FillDone(c) ==
  /\ At(c, "fill") /\ (buffer_len = capacity \/ d[c].puts = 0)
  /\ GoTo(c, "add_get")
  /\ UNCHANGED <<queues, counts, flags, buffer, calls, overrun, env>>

-----------------------------------------------------------------------------
(* dispatch(): "All the get or null functions should resume now", lines    *)
(* 296-304.                                                                *)

ResumeOrNull(c) ==
  /\ At(c, "or_nulls") /\ or_null_queue # <<>>
  /\ LET n == Head(or_null_queue) IN
       /\ or_null_queue' = Tail(or_null_queue)
       /\ getters' = Without(getters, n)
       /\ Ticked({n})
       /\ d' = [d EXCEPT ![c].removed = @ + Len(getters) - Len(getters')]
  /\ UNCHANGED <<putters, counts, flags, buffer, result, arrivals, overrun, env>>

\* Mutant: remove_count is not subtracted.
OrNullsUncounted(c) ==
  /\ At(c, "or_nulls") /\ or_null_queue = <<>>
  /\ d' = [d EXCEPT ![c].pc = "test", ![c].removed = 0]
  /\ UNCHANGED <<queues, counts, flags, buffer, calls, overrun, env>>

OrNullsDone(c) ==
  /\ At(c, "or_nulls") /\ or_null_queue = <<>>
  /\ get_count' = Usize(get_count - d[c].removed)
  /\ d' = [d EXCEPT ![c].pc = "test", ![c].removed = 0]
  /\ UNCHANGED <<queues, put_count, flags, buffer, calls, overrun, env>>

-----------------------------------------------------------------------------
(* destroy(), lines 77-87: "must be called when all calls to put and get   *)
(* have suspended and no more calls occur".                                *)

Quiet == ~overrun /\ \A c \in Calls : d[c].pc = "none"

Destroy ==
  /\ live /\ Quiet
  /\ live' = FALSE
  /\ getters' = <<>> /\ putters' = <<>>
  /\ coro' = [c \in Calls |-> IF coro[c] = "waiting" THEN "cancelled" ELSE coro[c]]
  /\ UNCHANGED <<or_null_queue, counts, flags, buffer, result, arrivals, d, overrun, num_threads>>

Dispatch(c) ==
  \/ SetNeed(c) \/ Lock(c) \/ ClearNeed(c) \/ TestNeed(c) \/ Unlock(c) \/ Recheck(c)
  \/ Claim(c) \/ UnclaimGet(c) \/ UnclaimPut(c)
  \/ GiveBuffered(c) \/ BufferDone(c) \/ HandOver(c) \/ DirectDone(c)
  \/ Fill(c) \/ FillDone(c) \/ ResumeOrNull(c) \/ OrNullsDone(c)

BlockStep(c) == Count(c) \/ QueueOrNull(c) \/ Dispatch(c)

Next == (\E c \in Calls : Begin(c) \/ BlockStep(c)) \/ Destroy

Spec == Init /\ [][Next]_vars

\* The loop's threads keep running.
FairSpec == Spec /\ \A c \in Calls : WF_vars(BlockStep(c))

-----------------------------------------------------------------------------
PcStates ==
  {"none", "count", "or_null", "need", "lock", "clear", "sub_get", "sub_put",
   "from_buffer", "buffer_sub", "direct", "direct_sub_get", "direct_sub_put",
   "fill", "fill_sub", "add_get", "add_put", "or_nulls", "test", "unlock", "recheck"}

\* Type invariant of the channel.
TypeOK ==
  /\ getters \in Seq(Getters) /\ putters \in Seq(Puts) /\ or_null_queue \in Seq(OrNulls)
  /\ get_count \in 0..(UsizeRange - 1) /\ put_count \in 0..(UsizeRange - 1)
  /\ dispatch_lock \in {0, 1} /\ need_dispatch \in {0, 1}
  /\ buffer_index \in 0..capacity /\ buffer_len \in 0..buffer_index
  /\ \A i \in DOMAIN buffer_nodes : buffer_nodes[i] \in Puts \cup {None}
  /\ coro \in [Calls -> {"idle", "waiting", "resumed", "twice", "cancelled"}]
  /\ result \in [Getters -> Puts \cup {None}]
  /\ d \in [Calls -> [pc : PcStates, gets : 0..(UsizeRange - 1),
                       puts : 0..(UsizeRange - 1), removed : 0..Cardinality(OrNulls)]]
  /\ overrun \in BOOLEAN /\ live \in BOOLEAN
  /\ arrivals \in Seq(Calls)
  /\ num_threads \in ThreadCounts

\* The thread that moves values.
Inside(c) ==
  d[c].pc \notin {"none", "count", "or_null", "need", "lock", "recheck"}

\* dispatch_lock lets one thread at a time move values, although it is given
\* up and taken again around need_dispatch; the assertion of line 311 holds.
OneDispatcher ==
  /\ \A c, e \in Calls : Inside(c) /\ Inside(e) => c = e
  /\ dispatch_lock = 1 <=> \E c \in Calls : Inside(c)

Uncounted(S) == Cardinality({c \in S : d[c].pc = "count"})

Claimed(pcs) == Cardinality({c \in Calls : d[c].pc \in pcs})

\* The getters that have been removed and not yet subtracted.
Removed ==
  Cardinality({x \in Calls \X (1..Cardinality(OrNulls)) : x[2] <= d[x[1]].removed})

\* The counts are exact at every step, modulo the range of usize: a count is
\* the length of its queue, less the calls that have not counted themselves
\* yet, less the claim that dispatch() has made and not used ("later we
\* correct these extra subtractions", line 234).  Nodes are taken from the
\* front whoever counted them, so a count never promises a node that is not
\* there: the unwrapping of lines 242, 260, 261 and 281 meets no empty queue.
CountsExact ==
  /\ TypeOK
  /\ \A c \in Calls :
       /\ d[c].pc = "from_buffer" /\ buffer_len # 0 /\ d[c].gets # 0 => getters # <<>>
       /\ d[c].pc = "direct" /\ d[c].gets # 0 /\ d[c].puts # 0
            => getters # <<>> /\ putters # <<>>
       /\ d[c].pc = "fill" /\ d[c].puts # 0 => putters # <<>>
  /\ live =>
    /\ get_count =
         Usize(Len(getters) - Uncounted(Getters)
               - Claimed({"sub_put", "from_buffer", "direct", "direct_sub_put",
                          "fill", "fill_sub", "add_get"})
               + Removed)
    /\ put_count =
         Usize(Len(putters) - Uncounted(Puts)
               - Claimed({"from_buffer", "buffer_sub", "direct", "fill", "add_get",
                          "add_put"}))

Buffered == {buffer_nodes[i] : i \in (buffer_index - buffer_len)..(buffer_index - 1)}

\* No value is lost or delivered twice: a value whose put() has been resumed
\* is in the buffer or with one getter, and no other value is.  No coroutine
\* is handed to onNextTick() a second time.
ValuesKept ==
  /\ \A p \in Puts :
       Cardinality({g \in Getters : result[g] = p}) + Cardinality({p} \cap Buffered)
         = IF coro[p] = "resumed" THEN 1 ELSE 0
  /\ \A c \in Calls : coro[c] # "twice"

Before(b, c) ==
  \E i, j \in 1..Len(arrivals) : i < j /\ arrivals[i] = b /\ arrivals[j] = c

\* Values arrive in the order of the puts: of two getters the one that queued
\* first gets the value that was put first, and no put overtakes another.
InOrder ==
  /\ \A g, h \in Getters :
       /\ Before(g, h) /\ result[h] # None /\ result[g] # None
       => Before(result[g], result[h])
  /\ \A g, h \in Gets : Before(g, h) /\ result[h] # None => result[g] # None
  /\ \A p, q \in Puts : Before(p, q) /\ coro[q] = "resumed" => coro[p] = "resumed"

\* When every thread has left dispatch(), nobody waits for what is there: a
\* getter waits only if there is nothing to get, a put only if the buffer is
\* full (lines 9-11), and no getOrNull() waits.  This is what need_dispatch
\* is for: a call that finds the lock taken leaves.
NobodyStranded ==
  Quiet /\ live =>
    /\ getters # <<>> => putters = <<>> /\ buffer_len = 0
    /\ putters # <<>> => buffer_len = capacity
    /\ \A n \in OrNulls : coro[n] # "waiting"

\* getOrNull() returns null only if "the buffer is empty and there are no
\* puts waiting" (lines 171-172), on a loop with one thread.
NullMeansEmpty ==
  [][\A n \in OrNulls :
       /\ num_threads = 1
       /\ coro[n] = "waiting" /\ coro'[n] = "resumed" /\ result'[n] = None
       => putters = <<>> /\ buffer_len = 0]_vars

\* getOrNull() "will not wait for data to be available" (line 174).
OrNullReturns ==
  \A n \in OrNulls : coro[n] = "waiting" ~> (coro[n] # "waiting" \/ overrun)
=============================================================================
