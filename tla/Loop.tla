-------------------------------- MODULE Loop --------------------------------
(***************************************************************************)
(* std.event.Loop on Linux (src/std/event/loop.zig): the worker threads,   *)
(* the next tick queue, the eventfd nodes that wake a worker blocked in    *)
(* epoll_wait, the count of pending events that stops the loop, and the    *)
(* thread that performs file system requests.                              *)
(*                                                                         *)
(* Main is the thread that calls loop.call() and then run(); the other     *)
(* workers run from init on.  th[t] is the thread's program counter and    *)
(* the locals it still needs: ret where dispatch() or finishOneEvent()     *)
(* returns to, after where the thread goes on when the coroutine it has    *)
(* resumed returns or suspends, cur the coroutine in hand, arg the node    *)
(* being put, node the eventfd node in hand.  Every atomic operation,      *)
(* every operation of the queues and of the stack (both guarded by a lock  *)
(* of their own) and every system call is one step.                        *)
(*                                                                         *)
(* A coroutine, when resumed, returns, calls loop.call(), or performs one  *)
(* of the operations that Operations bounds: it yields, performs a file    *)
(* system request, closes a file or waits for a file descriptor the way    *)
(* the watch coroutine of event/fs.zig does, which keeps a reference of    *)
(* its own to the loop.  It is suspended before its suspend block runs, so *)
(* another thread may resume it while this one is still in the block.      *)
(* Adding the descriptor to the epoll set is taken to succeed.             *)
(***************************************************************************)
EXTENDS Naturals, Sequences, FiniteSets

CONSTANTS
  Workers, Main, Fs,    \* threads; Fs is the file system thread
  EventfdNodes,         \* one for every worker but one
  Coros, CloseOp, End,  \* coroutines, and the two requests with no tick
  Null,
  Operations,           \* bound: the operations a coroutine performs
  Watchers,             \* the coroutines that may wait for a descriptor
  Edges,                \* bound: how often a watched descriptor is reported
  CtlFailures           \* bound: how often epoll_ctl fails in dispatch()

ASSUME LoopAssumption ==
  /\ Main \in Workers /\ Fs \notin Workers
  /\ IsFiniteSet(Workers) /\ IsFiniteSet(EventfdNodes) /\ IsFiniteSet(Coros)
  /\ CloseOp \notin Coros /\ End \notin Coros \cup {CloseOp}
  /\ Null \notin EventfdNodes \cup Coros \cup {CloseOp, End}
  /\ Watchers \subseteq Coros
  /\ Operations \in Nat /\ Edges \in Nat /\ CtlFailures \in Nat

Threads == Workers \cup {Fs}
Requests == Coros \cup {CloseOp, End}

VARIABLES
  pending_event_count,
  next_tick_queue,
  lost,             \* ticks that unget left unreachable from the queue's head
  shadowed,         \* the queue's head was put back over other nodes
  available,        \* available_eventfd_resume_nodes, a stack
  handle, epoll_op, \* of each eventfd node
  registered,       \* kernel: the eventfds added to the epoll set
  armed,            \* kernel: the eventfds that epoll_wait will report
  final_eventfd,    \* kernel: readable, which every epoll_wait reports
  fs_queue, fs_queue_item,
  coro, left,
  watching,         \* the coroutines that hold a reference of their own
  edges,            \* kernel: reports to come of a coroutine's descriptor
  failures,         \* how often epoll_ctl has failed
  th

tickq == <<next_tick_queue, lost, shadowed>>
nodes == <<available, handle, epoll_op, registered, armed>>
fsq == <<fs_queue, fs_queue_item>>
cos == <<coro, left>>
watch == <<watching, edges>>
vars == <<pending_event_count, tickq, nodes, final_eventfd, fsq, cos, watch, failures, th>>

Pc(t) == th[t].pc
GoTo(t, pc) == th' = [th EXCEPT ![t].pc = pc]

\* Where a thread goes on once an event is finished.
Home(t) == IF t = Fs THEN "f_get" ELSE "get"

\* A thread at pc with nothing in hand.
Fresh(pc) ==
  [pc |-> pc, ret |-> "none", after |-> "finish", cur |-> Null, arg |-> Null,
   node |-> Null]

\* A call returns: to the code that made it, or, when a coroutine has been
\* resumed and is done or suspended, to the end of its thread's turn.
Back(t) ==
  CASE th[t].ret = "none" -> Fresh(Home(t))
    [] th[t].ret \in {"finish", "get"} -> Fresh(th[t].ret)
    [] OTHER -> [th[t] EXCEPT !.pc = th[t].ret, !.ret = "none", !.arg = Null, !.node = Null]

Return(t) == th' = [th EXCEPT ![t] = Back(t)]

\* initInternal() and initOsData(): lines 108-135 and 148-223.
Init ==
  /\ pending_event_count = 1
  /\ next_tick_queue = <<>> /\ lost = {} /\ shadowed = FALSE
  /\ available \in {s \in [1..Cardinality(EventfdNodes) -> EventfdNodes] :
                      \A i, j \in DOMAIN s : s[i] = s[j] => i = j}
  /\ handle = [n \in EventfdNodes |-> Null]
  /\ epoll_op = [n \in EventfdNodes |-> "ADD"]
  /\ registered = {} /\ armed = {}
  /\ final_eventfd = FALSE
  /\ fs_queue = <<>> /\ fs_queue_item = 0
  /\ coro = [c \in Coros |-> "unstarted"]
  /\ left = [c \in Coros |-> Operations]
  /\ watching = {} /\ edges = [c \in Coros |-> 0]
  /\ failures = 0
  /\ th = [t \in Threads |->
             Fresh(CASE t = Main -> "setup" [] t = Fs -> "f_clear" [] OTHER -> "get")]

-----------------------------------------------------------------------------
(* The next tick queue: std.atomic.Queue, with the unget that module       *)
(* AtomicQueue models.  unget on a queue that holds nodes makes them, and  *)
(* whatever is put until the new head is taken, unreachable.               *)

TickPut(c) ==
  /\ next_tick_queue' = IF shadowed THEN next_tick_queue ELSE Append(next_tick_queue, c)
  /\ lost' = IF shadowed THEN lost \cup {c} ELSE lost
  /\ UNCHANGED shadowed

TickGet ==
  /\ next_tick_queue # <<>>
  /\ next_tick_queue' = Tail(next_tick_queue)
  /\ shadowed' = FALSE
  /\ UNCHANGED lost

TickUnget(c) ==
  /\ next_tick_queue' = <<c>>
  /\ lost' = lost \cup {next_tick_queue[i] : i \in 1..Len(next_tick_queue)}
  /\ shadowed' = (next_tick_queue # <<>>)

-----------------------------------------------------------------------------
(* dispatch(): lines 495-543. *)

DispatchPop(t) ==
  /\ Pc(t) = "d_pop"
  /\ \/ /\ available # <<>>
        /\ available' = Tail(available)
        /\ th' = [th EXCEPT ![t].pc = "d_get", ![t].node = Head(available)]
     \/ /\ available = <<>>
        /\ Return(t)
        /\ UNCHANGED available
  /\ UNCHANGED <<pending_event_count, tickq, handle, epoll_op, registered, armed,
                 final_eventfd, fsq, cos, watch, failures>>

DispatchGet(t) ==
  /\ Pc(t) = "d_get"
  /\ \/ /\ TickGet
        /\ handle' = [handle EXCEPT ![th[t].node] = Head(next_tick_queue)]
        /\ GoTo(t, "d_arm")
     \/ /\ next_tick_queue = <<>>
        /\ GoTo(t, "d_push")
        /\ UNCHANGED <<tickq, handle>>
  /\ UNCHANGED <<pending_event_count, available, epoll_op, registered, armed,
                 final_eventfd, fsq, cos, watch, failures>>

\* linuxModFd() succeeds: the eventfd's count is 1 from the start (line 175),
\* so it is reported once, to one worker (EPOLLONESHOT).
DispatchArm(t) ==
  LET n == th[t].node IN
  /\ Pc(t) = "d_arm"
  /\ (epoll_op[n] = "ADD") = (n \notin registered)
  /\ registered' = registered \cup {n}
  /\ armed' = armed \cup {n}
  /\ th' = [th EXCEPT ![t].pc = "d_pop", ![t].node = Null]
  /\ UNCHANGED <<pending_event_count, tickq, available, handle, epoll_op,
                 final_eventfd, fsq, cos, watch, failures>>

\* epoll_ctl fails: EEXIST or ENOENT when the operation does not fit, or for
\* want of a resource.  The tick goes back to the head of the queue.
DispatchArmFails(t) ==
  LET n == th[t].node
      misfit == (epoll_op[n] = "ADD") # (n \notin registered)
  IN
  /\ Pc(t) = "d_arm"
  /\ misfit \/ failures < CtlFailures
  /\ failures' = IF misfit THEN failures ELSE failures + 1
  /\ TickUnget(handle[n])
  /\ GoTo(t, "d_push")
  /\ UNCHANGED <<pending_event_count, nodes, final_eventfd, fsq, cos, watch>>

\* Lines 498 and 524: give the node back and return.
DispatchPush(t) ==
  /\ Pc(t) = "d_push"
  /\ available' = <<th[t].node>> \o available
  /\ Return(t)
  /\ UNCHANGED <<pending_event_count, tickq, handle, epoll_op, registered, armed,
                 final_eventfd, fsq, cos, watch, failures>>

-----------------------------------------------------------------------------
(* onNextTick() and posixFsRequest(): lines 545-550 and 749-769.  Both     *)
(* begin an event before the node is put.                                  *)

\* Lines 617-619.
beginOneEvent == pending_event_count' = pending_event_count + 1

BeginTick(t, c, back) ==
  /\ beginOneEvent
  /\ th' = [th EXCEPT ![t].pc = "t_put", ![t].arg = c, ![t].ret = back]

BeginRequest(t, r, back) ==
  /\ beginOneEvent
  /\ th' = [th EXCEPT ![t].pc = "r_put", ![t].arg = r, ![t].ret = back]

PutTick(t) ==
  /\ Pc(t) = "t_put"
  /\ TickPut(th[t].arg)
  /\ th' = [th EXCEPT ![t].pc = "d_pop", ![t].arg = Null]
  /\ UNCHANGED <<pending_event_count, nodes, final_eventfd, fsq, cos, watch, failures>>

PutRequest(t) ==
  /\ Pc(t) = "r_put"
  /\ fs_queue' = Append(fs_queue, th[t].arg)
  /\ GoTo(t, "r_item")
  /\ UNCHANGED <<pending_event_count, tickq, nodes, final_eventfd, fs_queue_item,
                 cos, watch, failures>>

SetItem(t) ==
  /\ Pc(t) = "r_item"
  /\ fs_queue_item' = 1
  /\ GoTo(t, "r_wake")
  /\ UNCHANGED <<pending_event_count, tickq, nodes, final_eventfd, fs_queue, cos, watch,
                 failures>>

\* futex_wake, then back to the caller: finishOneEvent(), close() or a
\* coroutine that has suspended itself.
WakeFs(t) ==
  /\ Pc(t) = "r_wake"
  /\ LET back == IF th[t].arg = End THEN [th[t] EXCEPT !.pc = "final", !.arg = Null]
                 ELSE Back(t)
         woken == IF Pc(Fs) = "f_sleep" THEN [th EXCEPT ![Fs].pc = "f_clear"] ELSE th
     IN th' = [woken EXCEPT ![t] = back]
  /\ UNCHANGED <<pending_event_count, tickq, nodes, final_eventfd, fsq, cos, watch, failures>>

-----------------------------------------------------------------------------
(* finishOneEvent(): lines 621-631. *)

Finish(t) ==
  /\ Pc(t) = "finish"
  /\ pending_event_count' = pending_event_count - 1
  /\ th' = [th EXCEPT ![t] = IF pending_event_count > 1 THEN Back(t)
                             ELSE IF @.ret = "none" THEN Fresh("e_begin")
                             ELSE [@ EXCEPT !.pc = "e_begin"]]
  /\ UNCHANGED <<tickq, nodes, final_eventfd, fsq, cos, watch, failures>>

\* The last event is finished: stop the file system thread, then the workers.
RequestEnd(t) ==
  /\ Pc(t) = "e_begin"
  /\ BeginRequest(t, End, th[t].ret)
  /\ UNCHANGED <<tickq, nodes, final_eventfd, fsq, cos, watch, failures>>

WriteFinal(t) ==
  /\ Pc(t) = "final"
  /\ final_eventfd' = TRUE
  /\ Return(t)
  /\ UNCHANGED <<pending_event_count, tickq, nodes, fsq, cos, watch, failures>>

-----------------------------------------------------------------------------
(* workerRun(): lines 656-689. *)

WorkerGet(t) ==
  /\ Pc(t) = "get"
  /\ \/ /\ TickGet
        /\ th' = [th EXCEPT ![t].pc = "d_pop", ![t].ret = "resume",
                            ![t].cur = Head(next_tick_queue)]
     \/ /\ next_tick_queue = <<>>
        /\ GoTo(t, "poll")
        /\ UNCHANGED tickq
  /\ UNCHANGED <<pending_event_count, nodes, final_eventfd, fsq, cos, watch, failures>>

\* Mutant: EPOLLONESHOT is left out of the events.
PollEventFdAgain(t, n) ==
  /\ Pc(t) = "poll" /\ n \in armed
  /\ th' = [th EXCEPT ![t].pc = "p_push", ![t].cur = handle[n], ![t].node = n]
  /\ UNCHANGED <<pending_event_count, tickq, nodes, final_eventfd, fsq, cos, watch, failures>>

\* epoll_wait reports an eventfd node; its handle is read first.
PollEventFd(t, n) ==
  /\ Pc(t) = "poll" /\ n \in armed
  /\ armed' = armed \ {n}
  /\ th' = [th EXCEPT ![t].pc = "p_push", ![t].cur = handle[n], ![t].node = n]
  /\ UNCHANGED <<pending_event_count, tickq, available, handle, epoll_op, registered,
                 final_eventfd, fsq, cos, watch, failures>>

\* Mutant: epoll_op stays EPOLL_CTL_ADD.
PollPushKeepsOp(t) ==
  /\ Pc(t) = "p_push"
  /\ available' = <<th[t].node>> \o available
  /\ th' = [th EXCEPT ![t].pc = "resume", ![t].node = Null]
  /\ UNCHANGED <<pending_event_count, tickq, handle, epoll_op, registered, armed,
                 final_eventfd, fsq, cos, watch, failures>>

PollPush(t) ==
  /\ Pc(t) = "p_push"
  /\ epoll_op' = [epoll_op EXCEPT ![th[t].node] = "MOD"]
  /\ available' = <<th[t].node>> \o available
  /\ th' = [th EXCEPT ![t].pc = "resume", ![t].node = Null]
  /\ UNCHANGED <<pending_event_count, tickq, handle, registered, armed, final_eventfd,
                 fsq, cos, watch, failures>>

PollStop(t) ==
  /\ Pc(t) = "poll" /\ final_eventfd
  /\ GoTo(t, "stopped")
  /\ UNCHANGED <<pending_event_count, tickq, nodes, final_eventfd, fsq, cos, watch, failures>>

\* epoll_wait reports the descriptor a coroutine waits for: the thread
\* resumes it and finishes no event afterwards (line 684).
PollFd(t, c) ==
  /\ Pc(t) = "poll" /\ edges[c] > 0
  /\ edges' = [edges EXCEPT ![c] = @ - 1]
  /\ coro' = [coro EXCEPT ![c] = "ticked"]
  /\ th' = [th EXCEPT ![t].pc = "resume", ![t].cur = c, ![t].after = "get"]
  /\ UNCHANGED <<pending_event_count, tickq, nodes, final_eventfd, fsq, left, watching,
                 failures>>

\* A coroutine that has waited for a descriptor goes on with the deferred
\* linuxRemoveFd() of line 429.
Resume(t) ==
  /\ Pc(t) = "resume"
  /\ coro' = [coro EXCEPT ![th[t].cur] = "running"]
  /\ GoTo(t, IF th[t].after = "get" THEN "w_del" ELSE "run")
  /\ UNCHANGED <<pending_event_count, tickq, nodes, final_eventfd, fsq, left, watch,
                 failures>>

-----------------------------------------------------------------------------
(* What Main does before run(), and a coroutine while it runs. *)

\* loop.call(), lines 577-600: the function is queued, the caller goes on.
Call(t, c) ==
  /\ Pc(t) \in {"setup", "run"}
  /\ coro[c] = "unstarted"
  /\ coro' = [coro EXCEPT ![c] = "ticked"]
  /\ BeginTick(t, c, Pc(t))
  /\ UNCHANGED <<tickq, nodes, final_eventfd, fsq, left, watch, failures>>

\* run(), line 559: finish the reference the loop started with.
run ==
  /\ Pc(Main) = "setup"
  /\ GoTo(Main, "finish")
  /\ UNCHANGED <<pending_event_count, tickq, nodes, final_eventfd, fsq, cos, watch, failures>>

\* The coroutine returns, finishing the event of its own if it has one.
CoroReturns(t) ==
  LET c == th[t].cur IN
  /\ Pc(t) = "run"
  /\ coro' = [coro EXCEPT ![c] = "done"]
  /\ watching' = watching \ {c}
  /\ th' = [th EXCEPT ![t] = IF c \in watching
                             THEN [Fresh("finish") EXCEPT !.ret = th[t].after,
                                                          !.after = th[t].after]
                             ELSE Fresh(th[t].after)]
  /\ UNCHANGED <<pending_event_count, tickq, nodes, final_eventfd, fsq, left, edges,
                 failures>>

\* The running coroutine suspends: it is no longer this thread's, and its
\* suspend block begins an event and puts its node.
Suspended(t, pc) ==
  /\ beginOneEvent
  /\ th' = [th EXCEPT ![t] = [Fresh(pc) EXCEPT !.arg = th[t].cur, !.ret = th[t].after,
                                               !.after = th[t].after]]

\* yield(), lines 602-614.
Yield(t) ==
  LET c == th[t].cur IN
  /\ Pc(t) = "run" /\ left[c] > 0
  /\ left' = [left EXCEPT ![c] = @ - 1]
  /\ coro' = [coro EXCEPT ![c] = "ticked"]
  /\ Suspended(t, "t_put")
  /\ UNCHANGED <<tickq, nodes, final_eventfd, fsq, watch, failures>>

\* pwritevPosix and its like, event/fs.zig: suspend with a request whose
\* completion is a tick of this coroutine.
FsRequest(t) ==
  LET c == th[t].cur IN
  /\ Pc(t) = "run" /\ left[c] > 0
  /\ left' = [left EXCEPT ![c] = @ - 1]
  /\ coro' = [coro EXCEPT ![c] = "waiting"]
  /\ Suspended(t, "r_put")
  /\ UNCHANGED <<tickq, nodes, final_eventfd, fsq, watch, failures>>

\* CloseOperation.finish(), event/fs.zig: nobody waits for the request.
FsClose(t) ==
  /\ Pc(t) = "run" /\ left[th[t].cur] > 0
  /\ left' = [left EXCEPT ![th[t].cur] = @ - 1]
  /\ BeginRequest(t, CloseOp, "run")
  /\ UNCHANGED <<tickq, nodes, final_eventfd, fsq, coro, watch, failures>>

\* Mutant: the coroutine keeps no reference of its own.
WatchUncounted(t) ==
  LET c == th[t].cur IN
  /\ Pc(t) = "run" /\ left[c] > 0 /\ c \in Watchers
  /\ left' = [left EXCEPT ![c] = @ - 1]
  /\ GoTo(t, "w_add")
  /\ UNCHANGED <<pending_event_count, tickq, nodes, final_eventfd, fsq, coro, watch, failures>>

\* The watch coroutine begins an event of its own, which it finishes when it
\* ends (event/fs.zig, lines 1228 and 1240), before it waits.
Watch(t) ==
  LET c == th[t].cur IN
  /\ Pc(t) = "run" /\ left[c] > 0 /\ c \in Watchers
  /\ left' = [left EXCEPT ![c] = @ - 1]
  /\ watching' = watching \cup {c}
  /\ pending_event_count' = IF c \in watching THEN pending_event_count
                            ELSE pending_event_count + 1
  /\ GoTo(t, "w_add")
  /\ UNCHANGED <<tickq, nodes, final_eventfd, fsq, coro, edges, failures>>

(* linuxWaitFd(), lines 428-441. *)

linuxAddFd(t) ==
  /\ Pc(t) = "w_add"
  /\ coro' = [coro EXCEPT ![th[t].cur] = "polling"]
  /\ Suspended(t, "w_ctl")
  /\ UNCHANGED <<tickq, nodes, final_eventfd, fsq, left, watch, failures>>

\* epoll_ctl adds the descriptor, edge triggered.
CtlAddFd(t) ==
  /\ Pc(t) = "w_ctl"
  /\ edges' = [edges EXCEPT ![th[t].arg] = Edges]
  /\ Return(t)
  /\ UNCHANGED <<pending_event_count, tickq, nodes, final_eventfd, fsq, cos, watching,
                 failures>>

\* Lines 423-426: the descriptor is removed, then its event is finished.
linuxRemoveFd(t) ==
  /\ Pc(t) = "w_del"
  /\ edges' = [edges EXCEPT ![th[t].cur] = 0]
  /\ th' = [th EXCEPT ![t].pc = "finish", ![t].ret = "run"]
  /\ UNCHANGED <<pending_event_count, tickq, nodes, final_eventfd, fsq, cos, watching,
                 failures>>

-----------------------------------------------------------------------------
(* posixFsRun(): lines 777-831. *)

FsClearItem ==
  /\ Pc(Fs) = "f_clear"
  /\ fs_queue_item' = 0
  /\ GoTo(Fs, "f_get")
  /\ UNCHANGED <<pending_event_count, tickq, nodes, final_eventfd, fs_queue, cos, watch, failures>>

\* Mutant: only a request with a tick is finished.
FsGetSkipsFinish ==
  /\ Pc(Fs) = "f_get"
  /\ \/ /\ fs_queue # <<>>
        /\ fs_queue' = Tail(fs_queue)
        /\ th' = [th EXCEPT ![Fs].cur = Head(fs_queue),
                            ![Fs].pc = CASE Head(fs_queue) = End -> "f_exit"
                                         [] Head(fs_queue) = CloseOp -> "f_get"
                                         [] OTHER -> "f_tick"]
     \/ /\ fs_queue = <<>>
        /\ GoTo(Fs, "f_wait")
        /\ UNCHANGED fs_queue
  /\ UNCHANGED <<pending_event_count, tickq, nodes, final_eventfd, fs_queue_item, cos, watch,
                 failures>>

\* Take a request and perform it; End makes the thread return.
FsGet ==
  /\ Pc(Fs) = "f_get"
  /\ \/ /\ fs_queue # <<>>
        /\ fs_queue' = Tail(fs_queue)
        /\ th' = [th EXCEPT ![Fs].cur = Head(fs_queue),
                            ![Fs].pc = CASE Head(fs_queue) = End -> "f_exit"
                                         [] Head(fs_queue) = CloseOp -> "finish"
                                         [] OTHER -> "f_tick"]
     \/ /\ fs_queue = <<>>
        /\ GoTo(Fs, "f_wait")
        /\ UNCHANGED fs_queue
  /\ UNCHANGED <<pending_event_count, tickq, nodes, final_eventfd, fs_queue_item, cos, watch,
                 failures>>

FsTick ==
  /\ Pc(Fs) = "f_tick"
  /\ coro' = [coro EXCEPT ![th[Fs].cur] = "ticked"]
  /\ Suspended(Fs, "t_put")
  /\ UNCHANGED <<tickq, nodes, final_eventfd, fsq, left, watch, failures>>

\* Mutant: the thread sleeps whatever fs_queue_item is.
FsWaitBlindly ==
  /\ Pc(Fs) = "f_wait"
  /\ GoTo(Fs, "f_sleep")
  /\ UNCHANGED <<pending_event_count, tickq, nodes, final_eventfd, fsq, cos, watch, failures>>

\* futex_wait(fs_queue_item, 0): EAGAIN when the item is 1.
FsWait ==
  /\ Pc(Fs) = "f_wait"
  /\ GoTo(Fs, IF fs_queue_item = 0 THEN "f_sleep" ELSE "f_clear")
  /\ UNCHANGED <<pending_event_count, tickq, nodes, final_eventfd, fsq, cos, watch, failures>>

\* EINTR.
FsInterrupted ==
  /\ Pc(Fs) = "f_sleep"
  /\ GoTo(Fs, "f_clear")
  /\ UNCHANGED <<pending_event_count, tickq, nodes, final_eventfd, fsq, cos, watch, failures>>

-----------------------------------------------------------------------------
Dispatch(t) ==
  \/ DispatchPop(t) \/ DispatchGet(t) \/ DispatchArm(t) \/ DispatchArmFails(t)
  \/ DispatchPush(t)

Shared(t) ==
  \/ Dispatch(t)
  \/ PutTick(t) \/ PutRequest(t) \/ SetItem(t) \/ WakeFs(t)
  \/ Finish(t) \/ RequestEnd(t) \/ WriteFinal(t)

CoroStep(t) ==
  \/ \E c \in Coros : Call(t, c)
  \/ CoroReturns(t) \/ Yield(t) \/ FsRequest(t) \/ FsClose(t)
  \/ Watch(t) \/ linuxAddFd(t) \/ CtlAddFd(t) \/ linuxRemoveFd(t)

WorkerStep(t) ==
  \/ Shared(t)
  \/ WorkerGet(t) \/ PollPush(t) \/ PollStop(t) \/ Resume(t)
  \/ \E n \in EventfdNodes : PollEventFd(t, n)
  \/ \E c \in Coros : PollFd(t, c)
  \/ CoroStep(t)

FsStep == Shared(Fs) \/ FsClearItem \/ FsGet \/ FsTick \/ FsWait

\* run() has returned and the threads it waits for (lines 563-574) have ended.
Returned == Pc(Fs) = "f_exit" /\ \A w \in Workers : Pc(w) = "stopped"

Terminated == Returned /\ UNCHANGED vars

Next ==
  \/ \E w \in Workers : WorkerStep(w)
  \/ run
  \/ FsStep
  \/ FsInterrupted
  \/ Terminated

Spec == Init /\ [][Next]_vars

\* The kernel runs every thread that is not blocked; Main calls run(); a
\* coroutine does not run for ever.
Fairness ==
  /\ \A w \in Workers : WF_vars(WorkerStep(w) \/ (w = Main /\ run))
  /\ WF_vars(FsStep)

FairSpec == Spec /\ Fairness

-----------------------------------------------------------------------------
PcStates ==
  {"setup", "get", "poll", "stopped", "p_push", "resume", "run", "finish",
   "d_pop", "d_get", "d_arm", "d_push", "t_put", "r_put", "r_item", "r_wake",
   "w_add", "w_ctl", "w_del", "e_begin", "final", "f_clear", "f_get", "f_tick", "f_wait", "f_sleep", "f_exit"}

\* Type invariant of the loop.
TypeOK ==
  /\ pending_event_count \in Nat
  /\ next_tick_queue \in Seq(Coros) /\ lost \subseteq Coros /\ shadowed \in BOOLEAN
  /\ available \in Seq(EventfdNodes)
  /\ handle \in [EventfdNodes -> Coros \cup {Null}]
  /\ epoll_op \in [EventfdNodes -> {"ADD", "MOD"}]
  /\ registered \subseteq EventfdNodes /\ armed \subseteq registered
  /\ \A n \in armed : handle[n] \in Coros
  /\ final_eventfd \in BOOLEAN
  /\ fs_queue \in Seq(Requests) /\ fs_queue_item \in {0, 1}
  /\ coro \in [Coros -> {"unstarted", "ticked", "running", "waiting",
                      "polling", "done"}]
  /\ left \in [Coros -> 0..Operations]
  /\ watching \subseteq Watchers /\ edges \in [Coros -> 0..Edges]
  /\ failures \in 0..CtlFailures
  /\ th \in [Threads -> [pc : PcStates, after : {"finish", "get"},
                         ret : {"none", "setup", "run", "resume", "finish", "get"},
                         cur : Requests \cup {Null}, arg : Requests \cup {Null},
                         node : EventfdNodes \cup {Null}]]

Dispatching(t) == Pc(t) \in {"d_pop", "d_get", "d_arm", "d_push"}

\* The threads that hold a reference: to an event they have taken and not
\* finished (Main, before run(), to the one the loop started with).  A thread
\* that resumes a coroutine for its descriptor holds none.
Owing ==
  {t \in Workers :
     /\ th[t].after = "finish"
     /\ Pc(t) \notin {"get", "poll", "stopped", "e_begin", "final"}
     /\ ~(Pc(t) \in {"r_put", "r_item", "r_wake"} /\ th[t].arg = End)}
    \cup {t \in {Fs} : Pc(t) \in {"f_tick", "t_put", "finish"} \/ Dispatching(t)}

\* The threads that have begun an event whose node is not in its queue, or
\* that hold the node.
Carrying == {t \in Threads : Pc(t) \in {"t_put", "r_put", "d_arm"}}

\* The threads whose coroutine has to finish an event other than the thread's:
\* that of the descriptor reported, or its own at its end.
Settling ==
  {t \in Workers : \/ Pc(t) \in {"resume", "w_del"} /\ th[t].after = "get"
                   \/ Pc(t) = "finish" /\ th[t].ret # "none"}

\* The coroutines whose descriptor's event is theirs: begun, not yet reported.
Polling == {c \in Coros : coro[c] = "polling"}

\* pending_event_count is exact at every step: it counts the nodes in the two
\* queues, the eventfd nodes that are armed, the descriptors waited for and
\* the references that threads and watching coroutines hold.
\* The loop stops when it reaches 0, so a reference dropped twice stops the
\* loop early and one never dropped keeps it alive for ever.  The End request
\* stays counted when its thread has returned (line 784).
PendingExact ==
  /\ TypeOK
  /\ pending_event_count =
       Len(next_tick_queue) + Cardinality(lost) + Cardinality(armed) + Len(fs_queue)
         + Cardinality(Owing) + Cardinality(Carrying)
         + Cardinality(watching) + Cardinality(Polling) + Cardinality(Settling)
         + (IF Pc(Fs) = "f_exit" THEN 1 ELSE 0)

\* The threads are told to stop only when there is nothing left to do: every
\* coroutine that was started has returned and no request is queued.
StopsWhenIdle ==
  final_eventfd =>
    /\ \A c \in Coros : coro[c] \in {"unstarted", "done"}
    /\ next_tick_queue = <<>> /\ armed = {}
    /\ fs_queue \in {<<>>, <<End>>}

\* A thread is about to resume c.
Resuming(t, c) ==
  /\ t \in Workers /\ th[t].cur = c
  /\ Pc(t) \in {"p_push", "resume"} \/ (Dispatching(t) /\ th[t].ret = "resume")

\* Everywhere the tick of c can be.
TickPlaces(c) ==
  {<<"queue", i>> : i \in {i \in 1..Len(next_tick_queue) : next_tick_queue[i] = c}}
    \cup {<<"armed", n>> : n \in {n \in armed : handle[n] = c}}
    \cup {<<"put", t>> : t \in {t \in Threads : Pc(t) = "t_put" /\ th[t].arg = c}}
    \cup {<<"arm", t>> : t \in {t \in Threads : Pc(t) = "d_arm" /\ handle[th[t].node] = c}}
    \cup {<<"resume", t>> : t \in {t \in Threads : Resuming(t, c)}}

\* No coroutine is resumed twice for one tick, or by two threads at once: a
\* tick is never in two places, and only a coroutine that waits for its tick
\* has one.  onNextTick() "can't fail" (loop.zig:545): a coroutine handed to it
\* stays in a place from which a thread will resume it, as long as epoll_ctl
\* has not failed.
TickOnce ==
  \A c \in Coros :
    /\ Cardinality(TickPlaces(c)) <= 1
    /\ TickPlaces(c) # {} => coro[c] = "ticked"
    /\ failures = 0 /\ coro[c] = "ticked" => TickPlaces(c) # {}
    /\ Cardinality({t \in Workers : /\ Pc(t) \in {"run", "w_add", "w_del"}
                                    /\ th[t].cur = c}) <= 1

\* A tick never waits in the queue while all workers are blocked in
\* epoll_wait with nothing to wake them: a worker is still on its way to the
\* queue, or an eventfd is armed, or the file system thread is in dispatch()
\* with a node.  (A failure of epoll_ctl leaves the tick to the next worker
\* that looks.)
NoMissedTick ==
  failures = 0 /\ next_tick_queue # <<>> =>
    \/ \E w \in Workers : Pc(w) \notin {"poll", "stopped"}
    \/ armed # {}
    \/ Pc(Fs) = "d_pop" /\ available # <<>>
    \/ Pc(Fs) \in {"d_get", "d_arm"}

\* The event that onNextTick() begins is finished (loop.zig:547, "finished in
\* dispatch()"): the coroutine is resumed.
TicksFinish == \A c \in Coros : coro[c] = "ticked" ~> coro[c] = "running"

\* run() returns, unless epoll_ctl fails: every request is performed, every
\* coroutine ends and all threads are stopped.
RunReturns == <>(Returned \/ failures > 0)
=============================================================================
