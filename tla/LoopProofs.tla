----------------------------- MODULE LoopProofs -----------------------------
(***************************************************************************)
(* Proofs about module Loop, for any set of workers, eventfd nodes and     *)
(* coroutines.                                                             *)
(***************************************************************************)
EXTENDS Loop, TLAPS, FiniteSetTheorems

(* Queues without repetitions: what put() and get() do. *)
InQueue(q, x) == \E i \in 1..Len(q) : q[i] = x

Distinct(q) == \A i, j \in 1..Len(q) : q[i] = q[j] => i = j

\* A new queue holds nothing.
LEMMA EmptyQueue == Distinct(<<>>) /\ \A x : ~InQueue(<<>>, x)
BY DEF Distinct, InQueue

\* put() adds one node behind the others.
LEMMA PutQueue ==
  ASSUME NEW S, NEW q \in Seq(S), NEW e \in S, Distinct(q), ~InQueue(q, e)
  PROVE  /\ Append(q, e) \in Seq(S) /\ Append(q, e) # <<>>
         /\ Distinct(Append(q, e))
         /\ \A x : InQueue(Append(q, e), x) <=> InQueue(q, x) \/ x = e
<1> DEFINE n == Len(q)
           p == Append(q, e)
<1>1. /\ n \in Nat /\ Len(p) = n + 1 /\ p[n + 1] = e /\ p \in Seq(S)
      /\ \A i \in 1..n : p[i] = q[i]
  OBVIOUS
<1>2. \A i \in 1..n : q[i] # e
  BY DEF InQueue
<1>3. \A i, j \in 1..n : q[i] = q[j] => i = j
  BY DEF Distinct
<1> HIDE DEF p, n
<1>4. \A i, j \in 1..(n + 1) : p[i] = p[j] => i = j
  BY <1>1, <1>2, <1>3
<1>5. ASSUME NEW x, \E i \in 1..n : q[i] = x PROVE \E i \in 1..(n + 1) : p[i] = x
  BY <1>1, <1>5
<1>6. ASSUME NEW x, \E i \in 1..(n + 1) : p[i] = x
      PROVE  (\E i \in 1..n : q[i] = x) \/ x = e
  BY <1>1, <1>6
<1>7. \E i \in 1..(n + 1) : p[i] = e
  BY <1>1
<1>8. p # <<>>
  BY <1>1
<1>9. QED
  BY <1>1, <1>4, <1>5, <1>6, <1>7, <1>8 DEF Distinct, InQueue, n, p

\* get() takes the first node and leaves the others.
LEMMA GetQueue ==
  ASSUME NEW S, NEW q \in Seq(S), q # <<>>, Distinct(q)
  PROVE  /\ Head(q) \in S /\ InQueue(q, Head(q))
         /\ Tail(q) \in Seq(S) /\ Len(Tail(q)) = Len(q) - 1
         /\ Distinct(Tail(q))
         /\ \A x : InQueue(Tail(q), x) <=> InQueue(q, x) /\ x # Head(q)
<1> DEFINE n == Len(q)
           p == Tail(q)
<1>1. /\ n \in Nat /\ n >= 1 /\ Len(p) = n - 1 /\ p \in Seq(S)
      /\ Head(q) = q[1] /\ q[1] \in S
      /\ \A i \in 1..(n - 1) : p[i] = q[i + 1]
  OBVIOUS
<1>2. \A i, j \in 1..n : q[i] = q[j] => i = j
  BY DEF Distinct
<1> HIDE DEF p, n
<1>3. \A i, j \in 1..(n - 1) : p[i] = p[j] => i = j
  BY <1>1, <1>2
<1>4. ASSUME NEW x, \E i \in 1..(n - 1) : p[i] = x
      PROVE  (\E i \in 1..n : q[i] = x) /\ x # q[1]
  <2>1. PICK i \in 1..(n - 1) : p[i] = x
    BY <1>4
  <2>2. i + 1 \in 1..n /\ q[i + 1] = x /\ i + 1 # 1
    BY <1>1, <2>1
  <2>3. QED
    BY <1>1, <1>2, <2>2
<1>5. ASSUME NEW x, \E i \in 1..n : q[i] = x, x # q[1]
      PROVE  \E i \in 1..(n - 1) : p[i] = x
  <2>1. PICK i \in 1..n : q[i] = x
    BY <1>5
  <2>2. i - 1 \in 1..(n - 1) /\ p[i - 1] = x
    BY <1>1, <1>5, <2>1
  <2>3. QED
    BY <2>2
<1>6. \E i \in 1..n : q[i] = q[1]
  BY <1>1
<1>7. QED
  BY <1>1, <1>3, <1>4, <1>5, <1>6 DEF Distinct, InQueue, n, p

-----------------------------------------------------------------------------

ThRec ==
  [pc : PcStates, after : {"finish", "get"},
   ret : {"none", "setup", "run", "resume", "finish", "get"},
   cur : Requests \cup {Null}, arg : Requests \cup {Null},
   node : EventfdNodes \cup {Null}]

\* TypeOK, without the bound of the count and what an armed node holds, which
\* are shown with the invariants they rest on.
Types ==
  /\ pending_event_count \in Int
  /\ next_tick_queue \in Seq(Coros) /\ lost \subseteq Coros /\ shadowed \in BOOLEAN
  /\ available \in Seq(EventfdNodes)
  /\ handle \in [EventfdNodes -> Coros \cup {Null}]
  /\ epoll_op \in [EventfdNodes -> {"ADD", "MOD"}]
  /\ registered \subseteq EventfdNodes /\ armed \subseteq registered
  /\ final_eventfd \in BOOLEAN
  /\ fs_queue \in Seq(Requests) /\ fs_queue_item \in {0, 1}
  /\ coro \in [Coros -> {"unstarted", "ticked", "running", "waiting",
                         "polling", "done"}]
  /\ left \in [Coros -> 0..Operations]
  /\ watching \subseteq Watchers /\ edges \in [Coros -> 0..Edges]
  /\ failures \in 0..CtlFailures
  /\ th \in [Threads -> ThRec]

WithNode == {"d_get", "d_arm", "d_push", "p_push"}
InDispatch == {"d_pop", "d_get", "d_arm", "d_push"}
InRequest == {"r_put", "r_item", "r_wake"}
WithArg == {"t_put", "w_ctl"} \cup InRequest

\* The calls a coroutine or Main makes, and where they return to: Main to its
\* setup, a coroutine that goes on to "run", one that has suspended to the
\* thread's turn.
Caller(t, ret, after, cur) ==
  \/ ret = "setup" /\ t = Main /\ cur = Null /\ after = "finish"
  \/ ret = "run" /\ cur \in Coros /\ t # Fs
  \/ ret = after /\ cur = Null

\* What a thread has in hand, by its program counter.
ShapeOf(t, pc, ret, after, cur, arg, node) ==
  /\ node \in EventfdNodes <=> pc \in WithNode
  /\ arg # Null <=> pc \in WithArg
  /\ pc \in {"t_put", "w_ctl"} => arg \in Coros
  /\ pc \in {"f_clear", "f_get", "f_tick", "f_wait", "f_sleep", "f_exit"} => t = Fs
  /\ pc \in {"setup", "get", "poll", "stopped", "p_push", "resume", "run", "w_add",
             "w_ctl", "w_del"} => t # Fs
  /\ pc = "setup" => t = Main
  /\ t = Fs => after = "finish"
  /\ pc \in {"setup", "get", "poll", "stopped", "f_clear", "f_get", "f_wait", "f_sleep"} =>
       ret = "none" /\ after = "finish" /\ cur = Null
  /\ pc \in {"p_push", "resume", "run", "w_add", "w_del"} => ret = "none" /\ cur \in Coros
  /\ pc = "p_push" => after = "finish"
  /\ pc = "w_del" => after = "get"
  /\ pc = "f_tick" => ret = "none" /\ cur \in Coros
  /\ pc = "f_exit" => ret = "none" /\ cur = End
  /\ pc = "t_put" => Caller(t, ret, after, cur)
  /\ pc = "w_ctl" => ret = after /\ cur = Null
  /\ pc \in InDispatch =>
       \/ Caller(t, ret, after, cur)
       \/ ret = "resume" /\ cur \in Coros /\ after = "finish" /\ t # Fs
  /\ pc \in InRequest /\ arg \in Coros => ret = after /\ cur = Null /\ t # Fs
  /\ pc \in InRequest /\ arg = CloseOp => ret = "run" /\ cur \in Coros /\ t # Fs
  /\ pc \in {"finish", "e_begin", "final"} \/ (pc \in InRequest /\ arg = End) =>
       \/ ret = "none" /\ after = "finish" /\ cur \notin Coros
       \/ ret = after /\ cur = Null /\ t # Fs
       \/ ret = "run" /\ after = "get" /\ cur \in Coros /\ t # Fs

Shape(t) == ShapeOf(t, Pc(t), th[t].ret, th[t].after, th[t].cur, th[t].arg, th[t].node)

\* The last event is finished and the thread that did so is ending the loop.
Ending(t) == \/ Pc(t) \in {"e_begin", "final"}
             \/ Pc(t) \in InRequest /\ th[t].arg = End

Shaped == \A t \in Threads : Shape(t)

\* An eventfd node is in the stack, armed or in one thread's hands.
NodesOnce ==
  /\ Distinct(available)
  /\ \A n \in armed : ~InQueue(available, n) /\ handle[n] \in Coros
  /\ \A t \in Threads : th[t].node \in EventfdNodes =>
       /\ th[t].node \notin armed /\ ~InQueue(available, th[t].node)
       /\ \A u \in Threads : th[u].node = th[t].node => u = t
       /\ Pc(t) = "d_arm" => handle[th[t].node] \in Coros

\* Nowhere else.
NodesKept ==
  \A n \in EventfdNodes :
    n \in armed \/ InQueue(available, n) \/ \E t \in Threads : th[t].node = n

\* epoll_op is the operation the kernel expects.
Fits ==
  /\ \A n \in EventfdNodes : n \notin armed =>
       \/ (epoll_op[n] = "ADD") = (n \notin registered)
       \/ \E t \in Threads : Pc(t) = "p_push" /\ th[t].node = n
  /\ \A t \in Threads : Pc(t) = "p_push" => th[t].node \in registered

Nodes == NodesOnce /\ NodesKept /\ Fits

Base == Types /\ Shaped /\ Nodes

-----------------------------------------------------------------------------
\* A node that holds a tick.
Loaded(n) == n \in armed \/ \E t \in Threads : Pc(t) = "d_arm" /\ th[t].node = n

Passing == {"t_put", "r_put", "w_ctl"}

\* The places a coroutine can be in: the two queues, lost behind an unget, an
\* epoll report to come, an eventfd node, a thread that has it in hand or that
\* is about to put its node.
Spots ==
  {<<"queue", Null>>, <<"lost", Null>>, <<"fs", Null>>, <<"edge", Null>>}
    \cup {"node"} \X EventfdNodes \cup {"cur", "arg"} \X Threads

At(s, c) ==
  \/ s[1] = "queue" /\ InQueue(next_tick_queue, c)
  \/ s[1] = "lost" /\ c \in lost
  \/ s[1] = "fs" /\ InQueue(fs_queue, c)
  \/ s[1] = "edge" /\ edges[c] > 0
  \/ s[1] = "node" /\ Loaded(s[2]) /\ handle[s[2]] = c
  \/ s[1] = "cur" /\ th[s[2]].cur = c
  \/ s[1] = "arg" /\ Pc(s[2]) \in Passing /\ th[s[2]].arg = c

AtMostOne == \A c \in Coros : \A r, s \in Spots : At(r, c) /\ At(s, c) => r = s

\* A coroutine with something to come is somewhere.
Somewhere ==
  \A c \in Coros : coro[c] \in {"ticked", "running", "waiting"} => \E s \in Spots : At(s, c)

QueuesDistinct ==
  /\ Distinct(next_tick_queue)
  /\ \A i, j \in 1..Len(fs_queue) : fs_queue[i] = fs_queue[j] /\ fs_queue[i] \in Coros => i = j

\* The state of the coroutine a thread has in hand.
CurStatus(t) ==
  IF Pc(t) = "f_tick" THEN "waiting"
  ELSE IF Pc(t) \in {"p_push", "resume"} \/ (Pc(t) \in InDispatch /\ th[t].ret = "resume")
       THEN "ticked" ELSE "running"

CurOk(t, c) ==
  /\ coro[c] = CurStatus(t)
  /\ th[t].after = "get" \/ Pc(t) = "w_add" => c \in watching

ArgOk(t, c) ==
  /\ Pc(t) = "t_put" => coro[c] = "ticked"
  /\ Pc(t) = "r_put" => coro[c] = "waiting"
  /\ Pc(t) = "w_ctl" => coro[c] = "polling" /\ c \in watching

\* A coroutine's state fits its place.
Ok(s, c) ==
  /\ s[1] \in {"queue", "lost", "node"} => coro[c] = "ticked"
  /\ s[1] = "fs" => coro[c] = "waiting"
  /\ s[1] = "edge" => coro[c] = "polling" /\ c \in watching
  /\ s[1] = "cur" => CurOk(s[2], c)
  /\ s[1] = "arg" => ArgOk(s[2], c)

Status == \A c \in Coros : \A s \in Spots : At(s, c) => Ok(s, c)

NothingLost == failures = 0 => lost = {} /\ ~shadowed

Located == AtMostOne /\ Somewhere /\ QueuesDistinct /\ Status /\ NothingLost

-----------------------------------------------------------------------------
Exact ==
  pending_event_count =
       Len(next_tick_queue) + Cardinality(lost) + Cardinality(armed) + Len(fs_queue)
         + Cardinality(Owing) + Cardinality(Carrying)
         + Cardinality(watching) + Cardinality(Polling) + Cardinality(Settling)
         + (IF Pc(Fs) = "f_exit" THEN 1 ELSE 0)

EndTaken == fs_queue = <<End>> \/ Pc(Fs) = "f_exit"

Ends ==
  /\ final_eventfd => pending_event_count = 1 /\ EndTaken
  /\ \A t \in Threads : Ending(t) =>
       /\ ~final_eventfd
       /\ \A u \in Threads : Ending(u) => u = t
       /\ th[t].ret \in {"none", "get"}
       /\ Pc(t) = "e_begin" => pending_event_count = 0
       /\ Pc(t) # "e_begin" => pending_event_count = 1
       /\ Pc(t) \in {"r_item", "r_wake", "final"} => EndTaken

-----------------------------------------------------------------------------
(* What a step does to the threads. *)

\* Another thread than the one that takes a step: unchanged, or woken.
Still(u) ==
  /\ th'[u].ret = th[u].ret /\ th'[u].after = th[u].after /\ th'[u].cur = th[u].cur
  /\ th'[u].arg = th[u].arg /\ th'[u].node = th[u].node
  /\ \/ th'[u].pc = th[u].pc
     \/ u = Fs /\ th[u].pc = "f_sleep" /\ th'[u].pc = "f_clear"

Becomes(t, pc, ret, after, cur, arg, node) ==
  /\ th' \in [Threads -> ThRec]
  /\ th'[t].pc = pc /\ th'[t].ret = ret /\ th'[t].after = after
  /\ th'[t].cur = cur /\ th'[t].arg = arg /\ th'[t].node = node
  /\ \A u \in Threads \ {t} : Still(u)

\* The thread moves and keeps the rest.
Moves(t, pc) == Becomes(t, pc, th[t].ret, th[t].after, th[t].cur, th[t].arg, th[t].node)

Returns(t) ==
  \/ th[t].ret = "none" /\ Becomes(t, Home(t), "none", "finish", Null, Null, Null)
  \/ /\ th[t].ret \in {"finish", "get"}
     /\ Becomes(t, th[t].ret, "none", "finish", Null, Null, Null)
  \/ /\ th[t].ret \in {"setup", "run", "resume"}
     /\ Becomes(t, th[t].ret, "none", th[t].after, th[t].cur, Null, Null)

\* A thread's record is replaced.
LEMMA SetThread ==
  ASSUME th \in [Threads -> ThRec], NEW t \in Threads, NEW r \in ThRec,
         th' = [th EXCEPT ![t] = r]
  PROVE  Becomes(t, r.pc, r.ret, r.after, r.cur, r.arg, r.node)
<1>1. th' \in [Threads -> ThRec] /\ th'[t] = r /\ \A u \in Threads \ {t} : th'[u] = th[u]
  OBVIOUS
<1>2. QED
  BY <1>1 DEF Becomes, Still

\* A thread goes on to another place.
LEMMA SetPc ==
  ASSUME th \in [Threads -> ThRec], NEW t \in Threads, NEW pc \in PcStates, GoTo(t, pc)
  PROVE  Moves(t, pc)
<1> DEFINE r == [th[t] EXCEPT !.pc = pc]
<1>1. /\ r \in ThRec /\ r.pc = pc /\ r.ret = th[t].ret /\ r.after = th[t].after
      /\ r.cur = th[t].cur /\ r.arg = th[t].arg /\ r.node = th[t].node
  BY DEF ThRec
<1>2. th' = [th EXCEPT ![t] = r]
  BY DEF GoTo
<1> HIDE DEF r
<1>3. Becomes(t, r.pc, r.ret, r.after, r.cur, r.arg, r.node)
  BY <1>1, <1>2, SetThread
<1>4. QED
  BY <1>1, <1>3 DEF Moves

\* A thread with nothing in hand.
LEMMA FreshFields ==
  ASSUME NEW pc \in PcStates
  PROVE  /\ Fresh(pc) \in ThRec
         /\ Fresh(pc).pc = pc /\ Fresh(pc).ret = "none" /\ Fresh(pc).after = "finish"
         /\ Fresh(pc).cur = Null /\ Fresh(pc).arg = Null /\ Fresh(pc).node = Null
BY DEF Fresh, ThRec

\* What a call returns to.
LEMMA BackFields ==
  ASSUME th \in [Threads -> ThRec], NEW t \in Threads
  PROVE  /\ Back(t) \in ThRec
         /\ \/ th[t].ret = "none" /\ Back(t) = Fresh(Home(t)) /\ Home(t) \in PcStates
            \/ th[t].ret \in {"finish", "get"} /\ Back(t) = Fresh(th[t].ret)
            \/ /\ th[t].ret \in {"setup", "run", "resume"}
               /\ Back(t).pc = th[t].ret /\ Back(t).ret = "none"
               /\ Back(t).after = th[t].after /\ Back(t).cur = th[t].cur
               /\ Back(t).arg = Null /\ Back(t).node = Null
<1>1. th[t] \in ThRec /\ th[t].ret \in {"none", "setup", "run", "resume", "finish", "get"}
  BY DEF ThRec
<1>2. CASE th[t].ret = "none"
  <2>1. Back(t) = Fresh(Home(t))
    BY <1>2 DEF Back
  <2>2. Home(t) \in PcStates
    BY DEF Home, PcStates
  <2>3. QED
    BY <1>2, <2>1, <2>2, FreshFields
<1>3. CASE th[t].ret \in {"finish", "get"}
  <2>1. Back(t) = Fresh(th[t].ret)
    BY <1>3 DEF Back
  <2>2. th[t].ret \in PcStates
    BY <1>3 DEF PcStates
  <2>3. QED
    BY <1>3, <2>1, <2>2, FreshFields
<1>4. CASE th[t].ret \in {"setup", "run", "resume"}
  <2>1. Back(t) = [th[t] EXCEPT !.pc = th[t].ret, !.ret = "none", !.arg = Null, !.node = Null]
    BY <1>4 DEF Back
  <2>2. th[t].ret \in PcStates
    BY <1>4 DEF PcStates
  <2>3. QED
    BY <1>1, <1>4, <2>1, <2>2 DEF ThRec
<1>5. QED
  BY <1>1, <1>2, <1>3, <1>4

\* A call returns.
LEMMA ReturnDoes ==
  ASSUME th \in [Threads -> ThRec], NEW t \in Threads, Return(t)
  PROVE  Returns(t)
<1> DEFINE r == Back(t)
<1>1. th' = [th EXCEPT ![t] = r]
  BY DEF Return
<1>2. r \in ThRec
  BY BackFields
<1>3. Becomes(t, r.pc, r.ret, r.after, r.cur, r.arg, r.node)
  <2> HIDE DEF r
  <2>1. QED
    BY <1>1, <1>2, SetThread
<1>4. CASE th[t].ret = "none" /\ r = Fresh(Home(t)) /\ Home(t) \in PcStates
  BY <1>3, <1>4, FreshFields DEF Returns
<1>5. CASE th[t].ret \in {"finish", "get"} /\ r = Fresh(th[t].ret)
  <2>1. th[t].ret \in PcStates
    BY <1>5 DEF PcStates
  <2>2. QED
    BY <1>3, <1>5, <2>1, FreshFields DEF Returns
<1>6. CASE /\ th[t].ret \in {"setup", "run", "resume"}
           /\ r.pc = th[t].ret /\ r.ret = "none"
           /\ r.after = th[t].after /\ r.cur = th[t].cur
           /\ r.arg = Null /\ r.node = Null
  BY <1>3, <1>6 DEF Returns
<1>7. QED
  BY <1>4, <1>5, <1>6, BackFields

(* The records that the actions write. *)

\* The fields an action assigns, one lemma for each combination.
LEMMA SetPcNode ==
  ASSUME th \in [Threads -> ThRec], NEW t \in Threads, NEW pc \in PcStates,
         NEW n \in EventfdNodes \cup {Null},
         th' = [th EXCEPT ![t].pc = pc, ![t].node = n]
  PROVE  Becomes(t, pc, th[t].ret, th[t].after, th[t].cur, th[t].arg, n)
<1>1. /\ th' \in [Threads -> ThRec]
      /\ th'[t].pc = pc /\ th'[t].ret = th[t].ret /\ th'[t].after = th[t].after
      /\ th'[t].cur = th[t].cur /\ th'[t].arg = th[t].arg /\ th'[t].node = n
      /\ \A u \in Threads \ {t} : th'[u] = th[u]
  BY DEF ThRec
<1>2. QED
  BY <1>1 DEF Becomes, Still

\* The same, for the fields that the name lists.
LEMMA SetPcArg ==
  ASSUME th \in [Threads -> ThRec], NEW t \in Threads, NEW pc \in PcStates,
         NEW a \in Requests \cup {Null},
         th' = [th EXCEPT ![t].pc = pc, ![t].arg = a]
  PROVE  Becomes(t, pc, th[t].ret, th[t].after, th[t].cur, a, th[t].node)
<1>1. /\ th' \in [Threads -> ThRec]
      /\ th'[t].pc = pc /\ th'[t].ret = th[t].ret /\ th'[t].after = th[t].after
      /\ th'[t].cur = th[t].cur /\ th'[t].arg = a /\ th'[t].node = th[t].node
      /\ \A u \in Threads \ {t} : th'[u] = th[u]
  BY DEF ThRec
<1>2. QED
  BY <1>1 DEF Becomes, Still

\* The same, for the fields that the name lists.
LEMMA SetPcArgRet ==
  ASSUME th \in [Threads -> ThRec], NEW t \in Threads, NEW pc \in PcStates, NEW a \in Requests,
         NEW back \in {"none", "setup", "run", "resume", "finish", "get"},
         th' = [th EXCEPT ![t].pc = pc, ![t].arg = a, ![t].ret = back]
  PROVE  Becomes(t, pc, back, th[t].after, th[t].cur, a, th[t].node)
<1>1. /\ th' \in [Threads -> ThRec]
      /\ th'[t].pc = pc /\ th'[t].ret = back /\ th'[t].after = th[t].after
      /\ th'[t].cur = th[t].cur /\ th'[t].arg = a /\ th'[t].node = th[t].node
      /\ \A u \in Threads \ {t} : th'[u] = th[u]
  BY ZenonT(30) DEF ThRec
<1>2. QED
  BY <1>1 DEF Becomes, Still

\* The same, for the fields that the name lists.
LEMMA SetPcRet ==
  ASSUME th \in [Threads -> ThRec], NEW t \in Threads, NEW pc \in PcStates,
         NEW back \in {"none", "setup", "run", "resume", "finish", "get"},
         th' = [th EXCEPT ![t].pc = pc, ![t].ret = back]
  PROVE  Becomes(t, pc, back, th[t].after, th[t].cur, th[t].arg, th[t].node)
<1>1. /\ th' \in [Threads -> ThRec]
      /\ th'[t].pc = pc /\ th'[t].ret = back /\ th'[t].after = th[t].after
      /\ th'[t].cur = th[t].cur /\ th'[t].arg = th[t].arg /\ th'[t].node = th[t].node
      /\ \A u \in Threads \ {t} : th'[u] = th[u]
  BY DEF ThRec
<1>2. QED
  BY <1>1 DEF Becomes, Still

\* The same, for the fields that the name lists.
LEMMA SetPcRetCur ==
  ASSUME th \in [Threads -> ThRec], NEW t \in Threads, NEW pc \in PcStates, NEW c \in Requests,
         NEW back \in {"none", "setup", "run", "resume", "finish", "get"},
         th' = [th EXCEPT ![t].pc = pc, ![t].ret = back, ![t].cur = c]
  PROVE  Becomes(t, pc, back, th[t].after, c, th[t].arg, th[t].node)
<1>1. /\ th' \in [Threads -> ThRec]
      /\ th'[t].pc = pc /\ th'[t].ret = back /\ th'[t].after = th[t].after
      /\ th'[t].cur = c /\ th'[t].arg = th[t].arg /\ th'[t].node = th[t].node
      /\ \A u \in Threads \ {t} : th'[u] = th[u]
  BY ZenonT(30) DEF ThRec
<1>2. QED
  BY <1>1 DEF Becomes, Still

\* The same, for the fields that the name lists.
LEMMA SetPcCurNode ==
  ASSUME th \in [Threads -> ThRec], NEW t \in Threads, NEW pc \in PcStates,
         NEW c \in Requests \cup {Null}, NEW n \in EventfdNodes,
         th' = [th EXCEPT ![t].pc = pc, ![t].cur = c, ![t].node = n]
  PROVE  Becomes(t, pc, th[t].ret, th[t].after, c, th[t].arg, n)
<1>1. /\ th' \in [Threads -> ThRec]
      /\ th'[t].pc = pc /\ th'[t].ret = th[t].ret /\ th'[t].after = th[t].after
      /\ th'[t].cur = c /\ th'[t].arg = th[t].arg /\ th'[t].node = n
      /\ \A u \in Threads \ {t} : th'[u] = th[u]
  BY ZenonT(30) DEF ThRec
<1>2. QED
  BY <1>1 DEF Becomes, Still

\* The same, for the fields that the name lists.
LEMMA SetPcCurAfter ==
  ASSUME th \in [Threads -> ThRec], NEW t \in Threads, NEW pc \in PcStates, NEW c \in Requests,
         NEW after \in {"finish", "get"},
         th' = [th EXCEPT ![t].pc = pc, ![t].cur = c, ![t].after = after]
  PROVE  Becomes(t, pc, th[t].ret, after, c, th[t].arg, th[t].node)
<1>1. /\ th' \in [Threads -> ThRec]
      /\ th'[t].pc = pc /\ th'[t].ret = th[t].ret /\ th'[t].after = after
      /\ th'[t].cur = c /\ th'[t].arg = th[t].arg /\ th'[t].node = th[t].node
      /\ \A u \in Threads \ {t} : th'[u] = th[u]
  BY ZenonT(30) DEF ThRec
<1>2. QED
  BY <1>1 DEF Becomes, Still

\* The same, for the fields that the name lists.
LEMMA SetCurPc ==
  ASSUME th \in [Threads -> ThRec], NEW t \in Threads, NEW pc \in PcStates, NEW c \in Requests,
         th' = [th EXCEPT ![t].cur = c, ![t].pc = pc]
  PROVE  Becomes(t, pc, th[t].ret, th[t].after, c, th[t].arg, th[t].node)
<1>1. /\ th' \in [Threads -> ThRec]
      /\ th'[t].pc = pc /\ th'[t].ret = th[t].ret /\ th'[t].after = th[t].after
      /\ th'[t].cur = c /\ th'[t].arg = th[t].arg /\ th'[t].node = th[t].node
      /\ \A u \in Threads \ {t} : th'[u] = th[u]
  BY DEF ThRec
<1>2. QED
  BY <1>1 DEF Becomes, Still

\* A coroutine suspends and its suspend block goes on.
LEMMA SuspendedDoes ==
  ASSUME th \in [Threads -> ThRec], NEW t \in Threads, NEW pc \in PcStates, Suspended(t, pc)
  PROVE  Becomes(t, pc, th[t].after, th[t].after, Null, th[t].cur, Null)
<1> DEFINE r == [Fresh(pc) EXCEPT !.arg = th[t].cur, !.ret = th[t].after, !.after = th[t].after]
<1>1. /\ r \in ThRec /\ r.pc = pc /\ r.ret = th[t].after /\ r.after = th[t].after
      /\ r.cur = Null /\ r.arg = th[t].cur /\ r.node = Null
  BY DEF ThRec, Fresh
<1>2. th' = [th EXCEPT ![t] = r]
  BY DEF Suspended
<1> HIDE DEF r
<1>3. Becomes(t, r.pc, r.ret, r.after, r.cur, r.arg, r.node)
  BY <1>1, <1>2, SetThread
<1>4. QED
  BY <1>1, <1>3

\* The resumed coroutine returns.
LEMMA CoroReturnsDoes ==
  ASSUME th \in [Threads -> ThRec], NEW t \in Threads, CoroReturns(t)
  PROVE  IF th[t].cur \in watching
         THEN Becomes(t, "finish", th[t].after, th[t].after, Null, Null, Null)
         ELSE Becomes(t, th[t].after, "none", "finish", Null, Null, Null)
<1> DEFINE r == [Fresh("finish") EXCEPT !.ret = th[t].after, !.after = th[t].after]
<1>1. CASE th[t].cur \in watching
  <2>1. /\ r \in ThRec /\ r.pc = "finish" /\ r.ret = th[t].after /\ r.after = th[t].after
        /\ r.cur = Null /\ r.arg = Null /\ r.node = Null
    BY DEF ThRec, Fresh, PcStates
  <2>2. th' = [th EXCEPT ![t] = r]
    BY <1>1 DEF CoroReturns
  <2> HIDE DEF r
  <2>3. Becomes(t, r.pc, r.ret, r.after, r.cur, r.arg, r.node)
    BY <2>1, <2>2, SetThread
  <2>4. QED
    BY <1>1, <2>1, <2>3
<1>2. CASE th[t].cur \notin watching
  <2> DEFINE s == Fresh(th[t].after)
  <2>1. /\ s \in ThRec /\ s.pc = th[t].after /\ s.ret = "none" /\ s.after = "finish"
        /\ s.cur = Null /\ s.arg = Null /\ s.node = Null
    BY DEF ThRec, Fresh, PcStates
  <2>2. th' = [th EXCEPT ![t] = s]
    BY <1>2 DEF CoroReturns
  <2> HIDE DEF s
  <2>3. Becomes(t, s.pc, s.ret, s.after, s.cur, s.arg, s.node)
    BY <2>1, <2>2, SetThread
  <2>4. QED
    BY <1>2, <2>1, <2>3
<1>3. QED
  BY <1>1, <1>2

\* An event is finished; the last one ends the loop.
LEMMA FinishDoes ==
  ASSUME th \in [Threads -> ThRec], NEW t \in Threads, Finish(t)
  PROVE  \/ pending_event_count > 1 /\ Returns(t)
         \/ /\ ~(pending_event_count > 1) /\ th[t].ret = "none"
            /\ Becomes(t, "e_begin", "none", "finish", Null, Null, Null)
         \/ ~(pending_event_count > 1) /\ th[t].ret # "none" /\ Moves(t, "e_begin")
<1>1. CASE pending_event_count > 1
  <2>1. Return(t)
    BY <1>1 DEF Finish, Return
  <2>2. QED
    BY <1>1, <2>1, ReturnDoes
<1>2. CASE ~(pending_event_count > 1) /\ th[t].ret = "none"
  <2>1. th' = [th EXCEPT ![t] = Fresh("e_begin")]
    BY <1>2 DEF Finish
  <2>2. "e_begin" \in PcStates
    BY DEF PcStates
  <2>3. PICK pc \in PcStates : pc = "e_begin"
    BY <2>2
  <2>4. PICK r \in ThRec : r = Fresh(pc)
    BY FreshFields
  <2>5. Becomes(t, r.pc, r.ret, r.after, r.cur, r.arg, r.node)
    BY <2>1, <2>3, <2>4, SetThread
  <2>6. QED
    BY <1>2, <2>3, <2>4, <2>5, FreshFields
<1>3. CASE ~(pending_event_count > 1) /\ th[t].ret # "none"
  <2>1. GoTo(t, "e_begin")
    BY <1>3 DEF Finish, GoTo
  <2>2. QED
    BY <1>3, <2>1, SetPc DEF PcStates
<1>4. QED
  BY <1>1, <1>2, <1>3

\* futex_wake wakes the file system thread, and the caller goes on.
LEMMA WakeFsDoes ==
  ASSUME th \in [Threads -> ThRec], NEW t \in Threads, WakeFs(t)
  PROVE  IF th[t].arg = End
         THEN Becomes(t, "final", th[t].ret, th[t].after, th[t].cur, Null, th[t].node)
         ELSE Returns(t)
<1> DEFINE back == IF th[t].arg = End THEN [th[t] EXCEPT !.pc = "final", !.arg = Null]
                   ELSE Back(t)
           woken == IF Pc(Fs) = "f_sleep" THEN [th EXCEPT ![Fs].pc = "f_clear"] ELSE th
<1>1. Pc(t) = "r_wake" /\ th' = [woken EXCEPT ![t] = back] /\ Fs \in Threads
  BY DEF WakeFs, Threads
<1>2. /\ woken \in [Threads -> ThRec]
      /\ \A u \in Threads : u # Fs => woken[u] = th[u]
      /\ \/ woken[Fs] = th[Fs]
         \/ /\ th[Fs].pc = "f_sleep" /\ woken[Fs].pc = "f_clear"
            /\ woken[Fs].ret = th[Fs].ret /\ woken[Fs].after = th[Fs].after
            /\ woken[Fs].cur = th[Fs].cur /\ woken[Fs].arg = th[Fs].arg
            /\ woken[Fs].node = th[Fs].node
  BY <1>1 DEF Pc, ThRec, PcStates
<1>3. back \in ThRec
  <2>1. Back(t) \in ThRec
    BY BackFields
  <2>2. [th[t] EXCEPT !.pc = "final", !.arg = Null] \in ThRec
    BY ZenonT(30) DEF ThRec, PcStates
  <2>3. QED
    BY <2>1, <2>2
<1> HIDE DEF woken, back
<1>4. th' \in [Threads -> ThRec] /\ th'[t] = back /\ \A u \in Threads \ {t} : th'[u] = woken[u]
  BY <1>1, <1>2, <1>3
<1>5. \A u \in Threads \ {t} : Still(u)
  BY <1>2, <1>4 DEF Still
<1>6. Becomes(t, back.pc, back.ret, back.after, back.cur, back.arg, back.node)
  BY <1>4, <1>5 DEF Becomes
<1>7. CASE th[t].arg = End
  <2>1. /\ back.pc = "final" /\ back.ret = th[t].ret /\ back.after = th[t].after
        /\ back.cur = th[t].cur /\ back.arg = Null /\ back.node = th[t].node
    BY <1>7 DEF back, ThRec
  <2>2. QED
    BY <1>6, <1>7, <2>1
<1>8. CASE th[t].arg # End
  <2>1. back = Back(t)
    BY <1>8 DEF back
  <2>2. CASE th[t].ret = "none" /\ Back(t) = Fresh(Home(t)) /\ Home(t) \in PcStates
    BY <1>6, <1>8, <2>1, <2>2, FreshFields DEF Returns
  <2>3. CASE th[t].ret \in {"finish", "get"} /\ Back(t) = Fresh(th[t].ret)
    <3>1. th[t].ret \in PcStates
      BY <2>3 DEF PcStates
    <3>2. QED
      BY <1>6, <1>8, <2>1, <2>3, <3>1, FreshFields DEF Returns
  <2>4. CASE /\ th[t].ret \in {"setup", "run", "resume"}
             /\ Back(t).pc = th[t].ret /\ Back(t).ret = "none"
             /\ Back(t).after = th[t].after /\ Back(t).cur = th[t].cur
             /\ Back(t).arg = Null /\ Back(t).node = Null
    BY <1>6, <1>8, <2>1, <2>4 DEF Returns
  <2>5. QED
    BY <2>2, <2>3, <2>4, BackFields
<1>9. QED
  BY <1>7, <1>8

-----------------------------------------------------------------------------
(* Shape is kept by every step. *)

Others(t) == th' \in [Threads -> ThRec] /\ \A u \in Threads \ {t} : Still(u)

\* The shapes of the threads that do not take the step stay.
LEMMA ShapeStep ==
  ASSUME Shaped, NEW t \in Threads, Others(t), Shape(t)'
  PROVE  Shaped'
<1>1. ASSUME NEW u \in Threads \ {t} PROVE Shape(u)'
  <2>1. Still(u) /\ Shape(u)
    BY DEF Others, Shaped
  <2>2. CASE th'[u].pc = th[u].pc
    BY <2>1, <2>2 DEF Shape, Still, Pc
  <2>3. CASE u = Fs /\ th[u].pc = "f_sleep" /\ th'[u].pc = "f_clear"
    BY <2>1, <2>3 DEF ShapeOf, Shape, Still, Pc, WithNode, WithArg, InDispatch, InRequest
  <2>4. QED
    BY <2>1, <2>2, <2>3 DEF Still
<1>2. QED
  BY <1>1 DEF Shaped

\* What get() leaves of a queue.
LEMMA TailType ==
  ASSUME NEW S, NEW q \in Seq(S), q # <<>>
  PROVE  Head(q) \in S /\ Tail(q) \in Seq(S) /\ Len(Tail(q)) = Len(q) - 1 /\ Len(q) > 0
OBVIOUS

\* Facts about the constants.
LEMMA Constants ==
  /\ Threads = Workers \cup {Fs} /\ Fs \in Threads /\ Fs \notin Workers
  /\ Main \in Workers /\ Main # Fs
  /\ \A c \in Coros : c \in Requests /\ c # Null /\ c # End /\ c # CloseOp
  /\ End \in Requests /\ CloseOp \in Requests /\ End # CloseOp
  /\ Null \notin Requests /\ Null \notin EventfdNodes
  /\ \A r \in Requests : r \in Coros \/ r = CloseOp \/ r = End
BY LoopAssumption DEF Threads, Requests

\* What the type of a thread says.
LEMMA Fields ==
  ASSUME th \in [Threads -> ThRec], NEW t \in Threads
  PROVE  /\ th[t].pc \in PcStates /\ th[t].after \in {"finish", "get"}
         /\ th[t].ret \in {"none", "setup", "run", "resume", "finish", "get"}
         /\ th[t].cur \in Requests \cup {Null} /\ th[t].arg \in Requests \cup {Null}
         /\ th[t].node \in EventfdNodes \cup {Null}
BY DEF ThRec
\* The shape of a thread after a step.
LEMMA NewShape ==
  ASSUME NEW t \in Threads, NEW pc, NEW ret, NEW after, NEW cur, NEW arg, NEW node,
         Becomes(t, pc, ret, after, cur, arg, node), ShapeOf(t, pc, ret, after, cur, arg, node)
  PROVE  Shape(t)' /\ Others(t)
BY DEF Becomes, Shape, Others, Pc

\* Where a call may return to.
LEMMA ReturnTo ==
  ASSUME NEW t \in Threads, NEW pc, NEW ret, NEW after, NEW cur, NEW arg, NEW node,
         ShapeOf(t, pc, ret, after, cur, arg, node), after \in {"finish", "get"},
         pc \in InDispatch \cup {"r_wake", "finish", "final", "w_ctl"},
         arg \in Requests \cup {Null}
  PROVE  /\ ret = "none" => ShapeOf(t, Home(t), "none", "finish", Null, Null, Null)
         /\ ret \in {"finish", "get"} => ShapeOf(t, ret, "none", "finish", Null, Null, Null)
         /\ ret \in {"setup", "run", "resume"} => ShapeOf(t, ret, "none", after, cur, Null, Null)
<1>1. ASSUME ret = "none" PROVE ShapeOf(t, Home(t), "none", "finish", Null, Null, Null)
  BY <1>1, Constants DEF ShapeOf, Home, WithNode, WithArg, InDispatch, InRequest
<1>2. ASSUME ret \in {"finish", "get"} PROVE ShapeOf(t, ret, "none", "finish", Null, Null, Null)
  <2>1. ret = "get" => t # Fs
    <3>1. CASE pc \in InDispatch
      BY <1>2, <3>1, Constants DEF ShapeOf, Caller
    <3>2. CASE pc = "r_wake"
      BY <1>2, <3>2, Constants DEF ShapeOf, WithArg, InRequest
    <3>3. CASE pc \in {"finish", "final"}
      BY <1>2, <3>3 DEF ShapeOf
    <3>4. CASE pc = "w_ctl"
      BY <1>2, <3>4 DEF ShapeOf
    <3>5. QED
      BY <3>1, <3>2, <3>3, <3>4
  <2>2. QED
    BY <1>2, <2>1, Constants DEF ShapeOf, Caller, WithNode, WithArg, InDispatch, InRequest
<1>3. ASSUME ret \in {"setup", "run", "resume"}
      PROVE  ShapeOf(t, ret, "none", after, cur, Null, Null)
  <2>1. /\ ret = "setup" => t = Main /\ cur = Null /\ after = "finish"
        /\ ret = "run" => cur \in Coros /\ t # Fs
        /\ ret = "resume" => cur \in Coros /\ t # Fs
    <3>1. CASE pc \in InDispatch
      BY <1>3, <3>1, Constants DEF ShapeOf, Caller
    <3>2. CASE pc = "r_wake"
      BY <1>3, <3>2, Constants DEF ShapeOf, WithArg, InRequest
    <3>3. CASE pc \in {"finish", "final"}
      BY <1>3, <3>3 DEF ShapeOf
    <3>4. CASE pc = "w_ctl"
      BY <1>3, <3>4 DEF ShapeOf
    <3>5. QED
      BY <3>1, <3>2, <3>3, <3>4
  <2>2. QED
    BY <1>3, <2>1, Constants DEF ShapeOf, Caller, WithNode, WithArg, InDispatch, InRequest
<1>4. QED
  BY <1>1, <1>2, <1>3

\* A call returns to a caller that is in its shape.
LEMMA ReturnShape ==
  ASSUME th \in [Threads -> ThRec], NEW t \in Threads, Shape(t), Returns(t),
         Pc(t) \in InDispatch \cup {"r_wake", "finish", "final", "w_ctl"}
  PROVE  Shape(t)' /\ Others(t)
<1>1. th[t].after \in {"finish", "get"} /\ th[t].arg \in Requests \cup {Null}
  BY Fields
<1>2. /\ th[t].ret = "none" => ShapeOf(t, Home(t), "none", "finish", Null, Null, Null)
      /\ th[t].ret \in {"finish", "get"} =>
           ShapeOf(t, th[t].ret, "none", "finish", Null, Null, Null)
      /\ th[t].ret \in {"setup", "run", "resume"} =>
           ShapeOf(t, th[t].ret, "none", th[t].after, th[t].cur, Null, Null)
  <2> PICK pc, ret, after, cur, arg, node :
             /\ pc = Pc(t) /\ ret = th[t].ret /\ after = th[t].after
             /\ cur = th[t].cur /\ arg = th[t].arg /\ node = th[t].node
    OBVIOUS
  <2>1. ShapeOf(t, pc, ret, after, cur, arg, node)
    BY DEF Shape
  <2>2. QED
    BY <1>1, <2>1, ReturnTo
<1>3. QED
  BY <1>2, NewShape DEF Returns

\* dispatch() pops a node.
LEMMA DispatchPopDoes ==
  ASSUME Types, Shaped, NEW t \in Threads, DispatchPop(t)
  PROVE  /\ Pc(t) = "d_pop" /\ Shape(t)' /\ Others(t)
         /\ \/ (available # <<>>)
               /\ Becomes(t, "d_get", th[t].ret, th[t].after, th[t].cur, th[t].arg, Head(available))
            \/ (available = <<>>) /\ Returns(t)
<1>1. th \in [Threads -> ThRec] /\ t \in Threads /\ Shape(t) /\ Pc(t) = "d_pop"
  BY Constants DEF Types, Shaped, DispatchPop
<1>2. CASE (available # <<>>)
  <2>1. Becomes(t, "d_get", th[t].ret, th[t].after, th[t].cur, th[t].arg, Head(available))
    <3>1. th' = [th EXCEPT ![t].pc = "d_get", ![t].node = Head(available)]
      BY <1>1, <1>2 DEF DispatchPop
    <3>2. "d_get" \in PcStates /\ Head(available) \in EventfdNodes \cup {Null}
      BY <1>1, <1>2, Constants, Fields DEF PcStates, Types
    <3>3. QED
      BY <1>1, <3>1, <3>2, SetPcNode
  <2>2. ShapeOf(t, "d_get", th[t].ret, th[t].after, th[t].cur, th[t].arg, Head(available))
    BY <1>1, <1>2, Fields, Constants DEF Shape, ShapeOf, Caller, Pc, WithNode, WithArg,
      InDispatch, InRequest, Types
  <2>3. QED
    BY <1>1, <1>2, <2>1, <2>2, NewShape
<1>3. CASE (available = <<>>)
  <2>1. Returns(t)
    BY <1>1, <1>3, ReturnDoes DEF DispatchPop
  <2>2. QED
    BY <1>1, <1>3, <2>1, ReturnShape DEF InDispatch
<1>4. QED
  BY <1>2, <1>3 DEF DispatchPop

\* It takes a tick.
LEMMA DispatchGetDoes ==
  ASSUME Types, Shaped, NEW t \in Threads, DispatchGet(t)
  PROVE  /\ Pc(t) = "d_get" /\ Shape(t)' /\ Others(t)
         /\ \/ (next_tick_queue # <<>>)
               /\ Becomes(t, "d_arm", th[t].ret, th[t].after, th[t].cur, th[t].arg, th[t].node)
            \/ (next_tick_queue = <<>>)
               /\ Becomes(t, "d_push", th[t].ret, th[t].after, th[t].cur, th[t].arg, th[t].node)
<1>1. th \in [Threads -> ThRec] /\ t \in Threads /\ Shape(t) /\ Pc(t) = "d_get"
  BY Constants DEF Types, Shaped, DispatchGet, TickGet
<1>2. CASE (next_tick_queue # <<>>)
  <2>1. Becomes(t, "d_arm", th[t].ret, th[t].after, th[t].cur, th[t].arg, th[t].node)
    <3>1. GoTo(t, "d_arm") /\ "d_arm" \in PcStates
      BY <1>1, <1>2 DEF DispatchGet, TickGet, PcStates
    <3>2. QED
      BY <1>1, <3>1, SetPc DEF Moves
  <2>2. ShapeOf(t, "d_arm", th[t].ret, th[t].after, th[t].cur, th[t].arg, th[t].node)
    BY <1>1, <1>2, Fields, Constants DEF Shape, ShapeOf, Caller, Pc, WithNode, WithArg,
      InDispatch, InRequest
  <2>3. QED
    BY <1>1, <1>2, <2>1, <2>2, NewShape
<1>3. CASE (next_tick_queue = <<>>)
  <2>1. Becomes(t, "d_push", th[t].ret, th[t].after, th[t].cur, th[t].arg, th[t].node)
    <3>1. GoTo(t, "d_push") /\ "d_push" \in PcStates
      BY <1>1, <1>3 DEF DispatchGet, TickGet, PcStates
    <3>2. QED
      BY <1>1, <3>1, SetPc DEF Moves
  <2>2. ShapeOf(t, "d_push", th[t].ret, th[t].after, th[t].cur, th[t].arg, th[t].node)
    BY <1>1, <1>3, Fields, Constants DEF Shape, ShapeOf, Caller, Pc, WithNode, WithArg,
      InDispatch, InRequest
  <2>3. QED
    BY <1>1, <1>3, <2>1, <2>2, NewShape
<1>4. QED
  BY <1>2, <1>3 DEF DispatchGet, TickGet

\* It arms the node.
LEMMA DispatchArmDoes ==
  ASSUME Types, Shaped, NEW t \in Threads, DispatchArm(t)
  PROVE  /\ Pc(t) = "d_arm" /\ Shape(t)' /\ Others(t)
         /\ Becomes(t, "d_pop", th[t].ret, th[t].after, th[t].cur, th[t].arg, Null)
<1>1. th \in [Threads -> ThRec] /\ t \in Threads /\ Shape(t) /\ Pc(t) = "d_arm"
  BY Constants DEF Types, Shaped, DispatchArm
<1>2. CASE TRUE
  <2>1. Becomes(t, "d_pop", th[t].ret, th[t].after, th[t].cur, th[t].arg, Null)
    <3>1. th' = [th EXCEPT ![t].pc = "d_pop", ![t].node = Null]
      BY <1>1, <1>2 DEF DispatchArm
    <3>2. "d_pop" \in PcStates /\ Null \in EventfdNodes \cup {Null}
      BY <1>1, <1>2, Constants, Fields DEF PcStates, Types
    <3>3. QED
      BY <1>1, <3>1, <3>2, SetPcNode
  <2>2. ShapeOf(t, "d_pop", th[t].ret, th[t].after, th[t].cur, th[t].arg, Null)
    BY <1>1, <1>2, Fields, Constants DEF Shape, ShapeOf, Caller, Pc, WithNode, WithArg,
      InDispatch, InRequest
  <2>3. QED
    BY <1>1, <1>2, <2>1, <2>2, NewShape
<1>3. QED
  BY <1>2

\* It puts the tick back.
LEMMA DispatchArmFailsDoes ==
  ASSUME Types, Shaped, NEW t \in Threads, DispatchArmFails(t)
  PROVE  /\ Pc(t) = "d_arm" /\ Shape(t)' /\ Others(t)
         /\ Becomes(t, "d_push", th[t].ret, th[t].after, th[t].cur, th[t].arg, th[t].node)
<1>1. th \in [Threads -> ThRec] /\ t \in Threads /\ Shape(t) /\ Pc(t) = "d_arm"
  BY Constants DEF Types, Shaped, DispatchArmFails
<1>2. CASE TRUE
  <2>1. Becomes(t, "d_push", th[t].ret, th[t].after, th[t].cur, th[t].arg, th[t].node)
    <3>1. GoTo(t, "d_push") /\ "d_push" \in PcStates
      BY <1>1, <1>2 DEF DispatchArmFails, PcStates
    <3>2. QED
      BY <1>1, <3>1, SetPc DEF Moves
  <2>2. ShapeOf(t, "d_push", th[t].ret, th[t].after, th[t].cur, th[t].arg, th[t].node)
    BY <1>1, <1>2, Fields, Constants DEF Shape, ShapeOf, Caller, Pc, WithNode, WithArg,
      InDispatch, InRequest
  <2>3. QED
    BY <1>1, <1>2, <2>1, <2>2, NewShape
<1>3. QED
  BY <1>2

\* It pushes the node.
LEMMA DispatchPushDoes ==
  ASSUME Types, Shaped, NEW t \in Threads, DispatchPush(t)
  PROVE  /\ Pc(t) = "d_push" /\ Shape(t)' /\ Others(t)
         /\ Returns(t)
<1>1. th \in [Threads -> ThRec] /\ t \in Threads /\ Shape(t) /\ Pc(t) = "d_push"
  BY Constants DEF Types, Shaped, DispatchPush
<1>2. CASE TRUE
  <2>1. Returns(t)
    BY <1>1, <1>2, ReturnDoes DEF DispatchPush
  <2>2. QED
    BY <1>1, <1>2, <2>1, ReturnShape DEF InDispatch
<1>3. QED
  BY <1>2

\* onNextTick() puts the node.
LEMMA PutTickDoes ==
  ASSUME Types, Shaped, NEW t \in Threads, PutTick(t)
  PROVE  /\ Pc(t) = "t_put" /\ Shape(t)' /\ Others(t)
         /\ Becomes(t, "d_pop", th[t].ret, th[t].after, th[t].cur, Null, th[t].node)
<1>1. th \in [Threads -> ThRec] /\ t \in Threads /\ Shape(t) /\ Pc(t) = "t_put"
  BY Constants DEF Types, Shaped, PutTick
<1>2. CASE TRUE
  <2>1. Becomes(t, "d_pop", th[t].ret, th[t].after, th[t].cur, Null, th[t].node)
    <3>1. th' = [th EXCEPT ![t].pc = "d_pop", ![t].arg = Null]
      BY <1>1, <1>2 DEF PutTick
    <3>2. "d_pop" \in PcStates /\ Null \in Requests \cup {Null}
      BY <1>1, <1>2, Constants, Fields DEF PcStates, Types
    <3>3. QED
      BY <1>1, <3>1, <3>2, SetPcArg
  <2>2. ShapeOf(t, "d_pop", th[t].ret, th[t].after, th[t].cur, Null, th[t].node)
    BY <1>1, <1>2, Fields, Constants DEF Shape, ShapeOf, Caller, Pc, WithNode, WithArg,
      InDispatch, InRequest
  <2>3. QED
    BY <1>1, <1>2, <2>1, <2>2, NewShape
<1>3. QED
  BY <1>2

\* posixFsRequest() puts the request.
LEMMA PutRequestDoes ==
  ASSUME Types, Shaped, NEW t \in Threads, PutRequest(t)
  PROVE  /\ Pc(t) = "r_put" /\ Shape(t)' /\ Others(t)
         /\ Becomes(t, "r_item", th[t].ret, th[t].after, th[t].cur, th[t].arg, th[t].node)
<1>1. th \in [Threads -> ThRec] /\ t \in Threads /\ Shape(t) /\ Pc(t) = "r_put"
  BY Constants DEF Types, Shaped, PutRequest
<1>2. CASE TRUE
  <2>1. Becomes(t, "r_item", th[t].ret, th[t].after, th[t].cur, th[t].arg, th[t].node)
    <3>1. GoTo(t, "r_item") /\ "r_item" \in PcStates
      BY <1>1, <1>2 DEF PutRequest, PcStates
    <3>2. QED
      BY <1>1, <3>1, SetPc DEF Moves
  <2>2. ShapeOf(t, "r_item", th[t].ret, th[t].after, th[t].cur, th[t].arg, th[t].node)
    BY <1>1, <1>2, Fields, Constants DEF Shape, ShapeOf, Caller, Pc, WithNode, WithArg,
      InDispatch, InRequest
  <2>3. QED
    BY <1>1, <1>2, <2>1, <2>2, NewShape
<1>3. QED
  BY <1>2

\* It sets the futex word.
LEMMA SetItemDoes ==
  ASSUME Types, Shaped, NEW t \in Threads, SetItem(t)
  PROVE  /\ Pc(t) = "r_item" /\ Shape(t)' /\ Others(t)
         /\ Becomes(t, "r_wake", th[t].ret, th[t].after, th[t].cur, th[t].arg, th[t].node)
<1>1. th \in [Threads -> ThRec] /\ t \in Threads /\ Shape(t) /\ Pc(t) = "r_item"
  BY Constants DEF Types, Shaped, SetItem
<1>2. CASE TRUE
  <2>1. Becomes(t, "r_wake", th[t].ret, th[t].after, th[t].cur, th[t].arg, th[t].node)
    <3>1. GoTo(t, "r_wake") /\ "r_wake" \in PcStates
      BY <1>1, <1>2 DEF SetItem, PcStates
    <3>2. QED
      BY <1>1, <3>1, SetPc DEF Moves
  <2>2. ShapeOf(t, "r_wake", th[t].ret, th[t].after, th[t].cur, th[t].arg, th[t].node)
    BY <1>1, <1>2, Fields, Constants DEF Shape, ShapeOf, Caller, Pc, WithNode, WithArg,
      InDispatch, InRequest
  <2>3. QED
    BY <1>1, <1>2, <2>1, <2>2, NewShape
<1>3. QED
  BY <1>2

\* It wakes the file system thread.
LEMMA WakeFsStep ==
  ASSUME Types, Shaped, NEW t \in Threads, WakeFs(t)
  PROVE  /\ Pc(t) = "r_wake" /\ Shape(t)' /\ Others(t)
         /\ \/ (th[t].arg = End)
               /\ Becomes(t, "final", th[t].ret, th[t].after, th[t].cur, Null, th[t].node)
            \/ (th[t].arg # End) /\ Returns(t)
<1>1. th \in [Threads -> ThRec] /\ t \in Threads /\ Shape(t) /\ Pc(t) = "r_wake"
  BY Constants DEF Types, Shaped, WakeFs
<1>2. CASE (th[t].arg = End)
  <2>1. Becomes(t, "final", th[t].ret, th[t].after, th[t].cur, Null, th[t].node)
    BY <1>1, <1>2, WakeFsDoes DEF WakeFs, Moves, PcStates
  <2>2. ShapeOf(t, "final", th[t].ret, th[t].after, th[t].cur, Null, th[t].node)
    BY <1>1, <1>2, Fields, Constants DEF Shape, ShapeOf, Caller, Pc, WithNode, WithArg,
      InDispatch, InRequest
  <2>3. QED
    BY <1>1, <1>2, <2>1, <2>2, NewShape
<1>3. CASE (th[t].arg # End)
  <2>1. Returns(t)
    BY <1>1, <1>3, WakeFsDoes DEF WakeFs
  <2>2. QED
    BY <1>1, <1>3, <2>1, ReturnShape DEF InDispatch
<1>4. QED
  BY <1>2, <1>3 DEF WakeFs

\* finishOneEvent().
LEMMA FinishStep ==
  ASSUME Types, Shaped, NEW t \in Threads, Finish(t)
  PROVE  /\ Pc(t) = "finish" /\ Shape(t)' /\ Others(t)
         /\ \/ (pending_event_count > 1) /\ Returns(t)
            \/ (~(pending_event_count > 1) /\ th[t].ret = "none")
               /\ Becomes(t, "e_begin", "none", "finish", Null, Null, Null)
            \/ (~(pending_event_count > 1) /\ th[t].ret # "none")
               /\ Becomes(t, "e_begin", th[t].ret, th[t].after, th[t].cur, th[t].arg, th[t].node)
<1>1. th \in [Threads -> ThRec] /\ t \in Threads /\ Shape(t) /\ Pc(t) = "finish"
  BY Constants DEF Types, Shaped, Finish
<1>2. CASE (pending_event_count > 1)
  <2>1. Returns(t)
    BY <1>1, <1>2, FinishDoes DEF Finish
  <2>2. QED
    BY <1>1, <1>2, <2>1, ReturnShape DEF InDispatch
<1>3. CASE (~(pending_event_count > 1) /\ th[t].ret = "none")
  <2>1. Becomes(t, "e_begin", "none", "finish", Null, Null, Null)
    BY <1>1, <1>3, FinishDoes DEF Finish, Moves, PcStates
  <2>2. ShapeOf(t, "e_begin", "none", "finish", Null, Null, Null)
    BY <1>1, <1>3, Fields, Constants DEF Shape, ShapeOf, Caller, Pc, WithNode, WithArg,
      InDispatch, InRequest
  <2>3. QED
    BY <1>1, <1>3, <2>1, <2>2, NewShape
<1>4. CASE (~(pending_event_count > 1) /\ th[t].ret # "none")
  <2>1. Becomes(t, "e_begin", th[t].ret, th[t].after, th[t].cur, th[t].arg, th[t].node)
    BY <1>1, <1>4, FinishDoes DEF Finish, Moves, PcStates
  <2>2. ShapeOf(t, "e_begin", th[t].ret, th[t].after, th[t].cur, th[t].arg, th[t].node)
    BY <1>1, <1>4, Fields, Constants DEF Shape, ShapeOf, Caller, Pc, WithNode, WithArg,
      InDispatch, InRequest
  <2>3. QED
    BY <1>1, <1>4, <2>1, <2>2, NewShape
<1>5. QED
  BY <1>2, <1>3, <1>4 DEF Finish

\* The end is requested.
LEMMA RequestEndDoes ==
  ASSUME Types, Shaped, NEW t \in Threads, RequestEnd(t)
  PROVE  /\ Pc(t) = "e_begin" /\ Shape(t)' /\ Others(t)
         /\ Becomes(t, "r_put", th[t].ret, th[t].after, th[t].cur, End, th[t].node)
<1>1. th \in [Threads -> ThRec] /\ t \in Threads /\ Shape(t) /\ Pc(t) = "e_begin"
  BY Constants DEF Types, Shaped, RequestEnd, BeginRequest
<1>2. CASE TRUE
  <2>1. Becomes(t, "r_put", th[t].ret, th[t].after, th[t].cur, End, th[t].node)
    <3>1. th' = [th EXCEPT ![t].pc = "r_put", ![t].arg = End, ![t].ret = th[t].ret]
      BY <1>1, <1>2 DEF RequestEnd, BeginRequest
    <3>2. "r_put" \in PcStates /\ End \in Requests
          /\ th[t].ret \in {"none", "setup", "run", "resume", "finish", "get"}
      BY <1>1, <1>2, Constants, Fields DEF PcStates, Types
    <3>3. QED
      BY <1>1, <3>1, <3>2, SetPcArgRet
  <2>2. ShapeOf(t, "r_put", th[t].ret, th[t].after, th[t].cur, End, th[t].node)
    BY <1>1, <1>2, Fields, Constants DEF Shape, ShapeOf, Caller, Pc, WithNode, WithArg,
      InDispatch, InRequest
  <2>3. QED
    BY <1>1, <1>2, <2>1, <2>2, NewShape
<1>3. QED
  BY <1>2

\* The workers are told to stop.
LEMMA WriteFinalDoes ==
  ASSUME Types, Shaped, NEW t \in Threads, WriteFinal(t)
  PROVE  /\ Pc(t) = "final" /\ Shape(t)' /\ Others(t)
         /\ Returns(t)
<1>1. th \in [Threads -> ThRec] /\ t \in Threads /\ Shape(t) /\ Pc(t) = "final"
  BY Constants DEF Types, Shaped, WriteFinal
<1>2. CASE TRUE
  <2>1. Returns(t)
    BY <1>1, <1>2, ReturnDoes DEF WriteFinal
  <2>2. QED
    BY <1>1, <1>2, <2>1, ReturnShape DEF InDispatch
<1>3. QED
  BY <1>2

\* workerRun() takes a tick.
LEMMA WorkerGetDoes ==
  ASSUME Types, Shaped, NEW t \in Threads, WorkerGet(t)
  PROVE  /\ Pc(t) = "get" /\ Shape(t)' /\ Others(t)
         /\ \/ (next_tick_queue # <<>>)
               /\ Becomes(t, "d_pop", "resume", th[t].after, Head(next_tick_queue), th[t].arg, th[t].node)
            \/ (next_tick_queue = <<>>)
               /\ Becomes(t, "poll", th[t].ret, th[t].after, th[t].cur, th[t].arg, th[t].node)
<1>1. th \in [Threads -> ThRec] /\ t \in Threads /\ Shape(t) /\ Pc(t) = "get"
  BY Constants DEF Types, Shaped, WorkerGet, TickGet
<1>2. CASE (next_tick_queue # <<>>)
  <2>1. Becomes(t, "d_pop", "resume", th[t].after, Head(next_tick_queue), th[t].arg, th[t].node)
    <3>1. th' = [th EXCEPT ![t].pc = "d_pop", ![t].ret = "resume", ![t].cur = Head(next_tick_queue)]
      BY <1>1, <1>2 DEF WorkerGet, TickGet
    <3>2. "d_pop" \in PcStates /\ Head(next_tick_queue) \in Requests
          /\ "resume" \in {"none", "setup", "run", "resume", "finish", "get"}
      BY <1>1, <1>2, Constants, Fields DEF PcStates, Types
    <3>3. QED
      BY <1>1, <3>1, <3>2, SetPcRetCur
  <2>2. ShapeOf(t, "d_pop", "resume", th[t].after, Head(next_tick_queue), th[t].arg, th[t].node)
    BY <1>1, <1>2, Fields, Constants DEF Shape, ShapeOf, Caller, Pc, WithNode, WithArg,
      InDispatch, InRequest, Types
  <2>3. QED
    BY <1>1, <1>2, <2>1, <2>2, NewShape
<1>3. CASE (next_tick_queue = <<>>)
  <2>1. Becomes(t, "poll", th[t].ret, th[t].after, th[t].cur, th[t].arg, th[t].node)
    <3>1. GoTo(t, "poll") /\ "poll" \in PcStates
      BY <1>1, <1>3 DEF WorkerGet, TickGet, PcStates
    <3>2. QED
      BY <1>1, <3>1, SetPc DEF Moves
  <2>2. ShapeOf(t, "poll", th[t].ret, th[t].after, th[t].cur, th[t].arg, th[t].node)
    BY <1>1, <1>3, Fields, Constants DEF Shape, ShapeOf, Caller, Pc, WithNode, WithArg,
      InDispatch, InRequest
  <2>3. QED
    BY <1>1, <1>3, <2>1, <2>2, NewShape
<1>4. QED
  BY <1>2, <1>3 DEF WorkerGet, TickGet

\* epoll_wait reports a node.
LEMMA PollEventFdDoes ==
  ASSUME Types, Shaped, NEW t \in Threads, NEW n \in EventfdNodes,
         PollEventFd(t, n), handle[n] \in Coros
  PROVE  /\ Pc(t) = "poll" /\ Shape(t)' /\ Others(t)
         /\ Becomes(t, "p_push", th[t].ret, th[t].after, handle[n], th[t].arg, n)
<1>1. th \in [Threads -> ThRec] /\ t \in Threads /\ Shape(t) /\ Pc(t) = "poll"
  BY Constants DEF Types, Shaped, PollEventFd
<1>2. CASE TRUE
  <2>1. Becomes(t, "p_push", th[t].ret, th[t].after, handle[n], th[t].arg, n)
    <3>1. th' = [th EXCEPT ![t].pc = "p_push", ![t].cur = handle[n], ![t].node = n]
      BY <1>1, <1>2 DEF PollEventFd
    <3>2. "p_push" \in PcStates /\ handle[n] \in Requests \cup {Null} /\ n \in EventfdNodes
      BY <1>1, <1>2, Constants, Fields DEF PcStates, Types
    <3>3. QED
      BY <1>1, <3>1, <3>2, SetPcCurNode
  <2>2. ShapeOf(t, "p_push", th[t].ret, th[t].after, handle[n], th[t].arg, n)
    BY <1>1, <1>2, Fields, Constants DEF Shape, ShapeOf, Caller, Pc, WithNode, WithArg,
      InDispatch, InRequest
  <2>3. QED
    BY <1>1, <1>2, <2>1, <2>2, NewShape
<1>3. QED
  BY <1>2

\* The node goes back to the stack.
LEMMA PollPushDoes ==
  ASSUME Types, Shaped, NEW t \in Threads, PollPush(t)
  PROVE  /\ Pc(t) = "p_push" /\ Shape(t)' /\ Others(t)
         /\ Becomes(t, "resume", th[t].ret, th[t].after, th[t].cur, th[t].arg, Null)
<1>1. th \in [Threads -> ThRec] /\ t \in Threads /\ Shape(t) /\ Pc(t) = "p_push"
  BY Constants DEF Types, Shaped, PollPush
<1>2. CASE TRUE
  <2>1. Becomes(t, "resume", th[t].ret, th[t].after, th[t].cur, th[t].arg, Null)
    <3>1. th' = [th EXCEPT ![t].pc = "resume", ![t].node = Null]
      BY <1>1, <1>2 DEF PollPush
    <3>2. "resume" \in PcStates /\ Null \in EventfdNodes \cup {Null}
      BY <1>1, <1>2, Constants, Fields DEF PcStates, Types
    <3>3. QED
      BY <1>1, <3>1, <3>2, SetPcNode
  <2>2. ShapeOf(t, "resume", th[t].ret, th[t].after, th[t].cur, th[t].arg, Null)
    BY <1>1, <1>2, Fields, Constants DEF Shape, ShapeOf, Caller, Pc, WithNode, WithArg,
      InDispatch, InRequest
  <2>3. QED
    BY <1>1, <1>2, <2>1, <2>2, NewShape
<1>3. QED
  BY <1>2

\* The worker stops.
LEMMA PollStopDoes ==
  ASSUME Types, Shaped, NEW t \in Threads, PollStop(t)
  PROVE  /\ Pc(t) = "poll" /\ Shape(t)' /\ Others(t)
         /\ Becomes(t, "stopped", th[t].ret, th[t].after, th[t].cur, th[t].arg, th[t].node)
<1>1. th \in [Threads -> ThRec] /\ t \in Threads /\ Shape(t) /\ Pc(t) = "poll"
  BY Constants DEF Types, Shaped, PollStop
<1>2. CASE TRUE
  <2>1. Becomes(t, "stopped", th[t].ret, th[t].after, th[t].cur, th[t].arg, th[t].node)
    <3>1. GoTo(t, "stopped") /\ "stopped" \in PcStates
      BY <1>1, <1>2 DEF PollStop, PcStates
    <3>2. QED
      BY <1>1, <3>1, SetPc DEF Moves
  <2>2. ShapeOf(t, "stopped", th[t].ret, th[t].after, th[t].cur, th[t].arg, th[t].node)
    BY <1>1, <1>2, Fields, Constants DEF Shape, ShapeOf, Caller, Pc, WithNode, WithArg,
      InDispatch, InRequest
  <2>3. QED
    BY <1>1, <1>2, <2>1, <2>2, NewShape
<1>3. QED
  BY <1>2

\* epoll_wait reports a descriptor.
LEMMA PollFdDoes ==
  ASSUME Types, Shaped, NEW t \in Threads, NEW c \in Coros, PollFd(t, c)
  PROVE  /\ Pc(t) = "poll" /\ Shape(t)' /\ Others(t)
         /\ Becomes(t, "resume", th[t].ret, "get", c, th[t].arg, th[t].node)
<1>1. th \in [Threads -> ThRec] /\ t \in Threads /\ Shape(t) /\ Pc(t) = "poll"
  BY Constants DEF Types, Shaped, PollFd
<1>2. CASE TRUE
  <2>1. Becomes(t, "resume", th[t].ret, "get", c, th[t].arg, th[t].node)
    <3>1. th' = [th EXCEPT ![t].pc = "resume", ![t].cur = c, ![t].after = "get"]
      BY <1>1, <1>2 DEF PollFd
    <3>2. "resume" \in PcStates /\ c \in Requests /\ "get" \in {"finish", "get"}
      BY <1>1, <1>2, Constants, Fields DEF PcStates, Types
    <3>3. QED
      BY <1>1, <3>1, <3>2, SetPcCurAfter
  <2>2. ShapeOf(t, "resume", th[t].ret, "get", c, th[t].arg, th[t].node)
    BY <1>1, <1>2, Fields, Constants DEF Shape, ShapeOf, Caller, Pc, WithNode, WithArg,
      InDispatch, InRequest
  <2>3. QED
    BY <1>1, <1>2, <2>1, <2>2, NewShape
<1>3. QED
  BY <1>2

\* The coroutine is resumed.
LEMMA ResumeDoes ==
  ASSUME Types, Shaped, NEW t \in Threads, Resume(t)
  PROVE  /\ Pc(t) = "resume" /\ Shape(t)' /\ Others(t)
         /\ \/ (th[t].after = "get")
               /\ Becomes(t, "w_del", th[t].ret, th[t].after, th[t].cur, th[t].arg, th[t].node)
            \/ (th[t].after # "get")
               /\ Becomes(t, "run", th[t].ret, th[t].after, th[t].cur, th[t].arg, th[t].node)
<1>1. th \in [Threads -> ThRec] /\ t \in Threads /\ Shape(t) /\ Pc(t) = "resume"
  BY Constants DEF Types, Shaped, Resume
<1>2. CASE (th[t].after = "get")
  <2>1. Becomes(t, "w_del", th[t].ret, th[t].after, th[t].cur, th[t].arg, th[t].node)
    <3>1. GoTo(t, "w_del") /\ "w_del" \in PcStates
      BY <1>1, <1>2 DEF Resume, PcStates
    <3>2. QED
      BY <1>1, <3>1, SetPc DEF Moves
  <2>2. ShapeOf(t, "w_del", th[t].ret, th[t].after, th[t].cur, th[t].arg, th[t].node)
    BY <1>1, <1>2, Fields, Constants DEF Shape, ShapeOf, Caller, Pc, WithNode, WithArg,
      InDispatch, InRequest
  <2>3. QED
    BY <1>1, <1>2, <2>1, <2>2, NewShape
<1>3. CASE (th[t].after # "get")
  <2>1. Becomes(t, "run", th[t].ret, th[t].after, th[t].cur, th[t].arg, th[t].node)
    <3>1. GoTo(t, "run") /\ "run" \in PcStates
      BY <1>1, <1>3 DEF Resume, PcStates
    <3>2. QED
      BY <1>1, <3>1, SetPc DEF Moves
  <2>2. ShapeOf(t, "run", th[t].ret, th[t].after, th[t].cur, th[t].arg, th[t].node)
    BY <1>1, <1>3, Fields, Constants DEF Shape, ShapeOf, Caller, Pc, WithNode, WithArg,
      InDispatch, InRequest
  <2>3. QED
    BY <1>1, <1>3, <2>1, <2>2, NewShape
<1>4. QED
  BY <1>2, <1>3 DEF Resume

\* loop.call().
LEMMA CallDoes ==
  ASSUME Types, Shaped, NEW t \in Threads, NEW c \in Coros, Call(t, c)
  PROVE  /\ Pc(t) \in {"setup", "run"} /\ Shape(t)' /\ Others(t)
         /\ Becomes(t, "t_put", Pc(t), th[t].after, th[t].cur, c, th[t].node)
<1>1. th \in [Threads -> ThRec] /\ t \in Threads /\ Shape(t) /\ Pc(t) \in {"setup", "run"}
  BY Constants DEF Types, Shaped, Call, BeginTick
<1>2. CASE TRUE
  <2>1. Becomes(t, "t_put", Pc(t), th[t].after, th[t].cur, c, th[t].node)
    <3>1. th' = [th EXCEPT ![t].pc = "t_put", ![t].arg = c, ![t].ret = Pc(t)]
      BY <1>1, <1>2 DEF Call, BeginTick
    <3>2. "t_put" \in PcStates /\ c \in Requests
          /\ Pc(t) \in {"none", "setup", "run", "resume", "finish", "get"}
      BY <1>1, <1>2, Constants, Fields DEF PcStates, Types
    <3>3. QED
      BY <1>1, <3>1, <3>2, SetPcArgRet
  <2>2. ShapeOf(t, "t_put", Pc(t), th[t].after, th[t].cur, c, th[t].node)
    BY <1>1, <1>2, Fields, Constants DEF Shape, ShapeOf, Caller, Pc, WithNode, WithArg,
      InDispatch, InRequest
  <2>3. QED
    BY <1>1, <1>2, <2>1, <2>2, NewShape
<1>3. QED
  BY <1>2

\* run().
LEMMA runDoes ==
  ASSUME Types, Shaped, NEW t \in Threads, t = Main, run
  PROVE  /\ Pc(t) = "setup" /\ Shape(t)' /\ Others(t)
         /\ Becomes(t, "finish", th[t].ret, th[t].after, th[t].cur, th[t].arg, th[t].node)
<1>1. th \in [Threads -> ThRec] /\ t \in Threads /\ Shape(t) /\ Pc(t) = "setup"
  BY Constants DEF Types, Shaped, run
<1>2. CASE TRUE
  <2>1. Becomes(t, "finish", th[t].ret, th[t].after, th[t].cur, th[t].arg, th[t].node)
    <3>1. GoTo(t, "finish") /\ "finish" \in PcStates
      BY <1>1, <1>2 DEF run, PcStates
    <3>2. QED
      BY <1>1, <3>1, SetPc DEF Moves
  <2>2. ShapeOf(t, "finish", th[t].ret, th[t].after, th[t].cur, th[t].arg, th[t].node)
    BY <1>1, <1>2, Fields, Constants DEF Shape, ShapeOf, Caller, Pc, WithNode, WithArg,
      InDispatch, InRequest
  <2>3. QED
    BY <1>1, <1>2, <2>1, <2>2, NewShape
<1>3. QED
  BY <1>2

\* The coroutine returns.
LEMMA CoroReturnsStep ==
  ASSUME Types, Shaped, NEW t \in Threads, CoroReturns(t)
  PROVE  /\ Pc(t) = "run" /\ Shape(t)' /\ Others(t)
         /\ \/ (th[t].cur \in watching)
               /\ Becomes(t, "finish", th[t].after, th[t].after, Null, Null, Null)
            \/ (th[t].cur \notin watching)
               /\ Becomes(t, th[t].after, "none", "finish", Null, Null, Null)
<1>1. th \in [Threads -> ThRec] /\ t \in Threads /\ Shape(t) /\ Pc(t) = "run"
  BY Constants DEF Types, Shaped, CoroReturns
<1>2. CASE (th[t].cur \in watching)
  <2>1. Becomes(t, "finish", th[t].after, th[t].after, Null, Null, Null)
    BY <1>1, <1>2, CoroReturnsDoes DEF CoroReturns, Moves, PcStates
  <2>2. ShapeOf(t, "finish", th[t].after, th[t].after, Null, Null, Null)
    BY <1>1, <1>2, Fields, Constants DEF Shape, ShapeOf, Caller, Pc, WithNode, WithArg,
      InDispatch, InRequest
  <2>3. QED
    BY <1>1, <1>2, <2>1, <2>2, NewShape
<1>3. CASE (th[t].cur \notin watching)
  <2>1. Becomes(t, th[t].after, "none", "finish", Null, Null, Null)
    BY <1>1, <1>3, CoroReturnsDoes DEF CoroReturns, Moves, PcStates
  <2>2. ShapeOf(t, th[t].after, "none", "finish", Null, Null, Null)
    BY <1>1, <1>3, Fields, Constants DEF Shape, ShapeOf, Caller, Pc, WithNode, WithArg,
      InDispatch, InRequest
  <2>3. QED
    BY <1>1, <1>3, <2>1, <2>2, NewShape
<1>4. QED
  BY <1>2, <1>3 DEF CoroReturns

\* yield().
LEMMA YieldDoes ==
  ASSUME Types, Shaped, NEW t \in Threads, Yield(t)
  PROVE  /\ Pc(t) = "run" /\ Shape(t)' /\ Others(t)
         /\ Becomes(t, "t_put", th[t].after, th[t].after, Null, th[t].cur, Null)
<1>1. th \in [Threads -> ThRec] /\ t \in Threads /\ Shape(t) /\ Pc(t) = "run"
  BY Constants DEF Types, Shaped, Yield
<1>2. CASE TRUE
  <2>1. Becomes(t, "t_put", th[t].after, th[t].after, Null, th[t].cur, Null)
    BY <1>1, <1>2, SuspendedDoes DEF Yield, Moves, PcStates
  <2>2. ShapeOf(t, "t_put", th[t].after, th[t].after, Null, th[t].cur, Null)
    BY <1>1, <1>2, Fields, Constants DEF Shape, ShapeOf, Caller, Pc, WithNode, WithArg,
      InDispatch, InRequest
  <2>3. QED
    BY <1>1, <1>2, <2>1, <2>2, NewShape
<1>3. QED
  BY <1>2

\* A file system request.
LEMMA FsRequestDoes ==
  ASSUME Types, Shaped, NEW t \in Threads, FsRequest(t)
  PROVE  /\ Pc(t) = "run" /\ Shape(t)' /\ Others(t)
         /\ Becomes(t, "r_put", th[t].after, th[t].after, Null, th[t].cur, Null)
<1>1. th \in [Threads -> ThRec] /\ t \in Threads /\ Shape(t) /\ Pc(t) = "run"
  BY Constants DEF Types, Shaped, FsRequest
<1>2. CASE TRUE
  <2>1. Becomes(t, "r_put", th[t].after, th[t].after, Null, th[t].cur, Null)
    BY <1>1, <1>2, SuspendedDoes DEF FsRequest, Moves, PcStates
  <2>2. ShapeOf(t, "r_put", th[t].after, th[t].after, Null, th[t].cur, Null)
    BY <1>1, <1>2, Fields, Constants DEF Shape, ShapeOf, Caller, Pc, WithNode, WithArg,
      InDispatch, InRequest
  <2>3. QED
    BY <1>1, <1>2, <2>1, <2>2, NewShape
<1>3. QED
  BY <1>2

\* A file is closed.
LEMMA FsCloseDoes ==
  ASSUME Types, Shaped, NEW t \in Threads, FsClose(t)
  PROVE  /\ Pc(t) = "run" /\ Shape(t)' /\ Others(t)
         /\ Becomes(t, "r_put", "run", th[t].after, th[t].cur, CloseOp, th[t].node)
<1>1. th \in [Threads -> ThRec] /\ t \in Threads /\ Shape(t) /\ Pc(t) = "run"
  BY Constants DEF Types, Shaped, FsClose, BeginRequest
<1>2. CASE TRUE
  <2>1. Becomes(t, "r_put", "run", th[t].after, th[t].cur, CloseOp, th[t].node)
    <3>1. th' = [th EXCEPT ![t].pc = "r_put", ![t].arg = CloseOp, ![t].ret = "run"]
      BY <1>1, <1>2 DEF FsClose, BeginRequest
    <3>2. "r_put" \in PcStates /\ CloseOp \in Requests
          /\ "run" \in {"none", "setup", "run", "resume", "finish", "get"}
      BY <1>1, <1>2, Constants, Fields DEF PcStates, Types
    <3>3. QED
      BY <1>1, <3>1, <3>2, SetPcArgRet
  <2>2. ShapeOf(t, "r_put", "run", th[t].after, th[t].cur, CloseOp, th[t].node)
    BY <1>1, <1>2, Fields, Constants DEF Shape, ShapeOf, Caller, Pc, WithNode, WithArg,
      InDispatch, InRequest
  <2>3. QED
    BY <1>1, <1>2, <2>1, <2>2, NewShape
<1>3. QED
  BY <1>2

\* The coroutine begins to watch.
LEMMA WatchDoes ==
  ASSUME Types, Shaped, NEW t \in Threads, Watch(t)
  PROVE  /\ Pc(t) = "run" /\ Shape(t)' /\ Others(t)
         /\ Becomes(t, "w_add", th[t].ret, th[t].after, th[t].cur, th[t].arg, th[t].node)
<1>1. th \in [Threads -> ThRec] /\ t \in Threads /\ Shape(t) /\ Pc(t) = "run"
  BY Constants DEF Types, Shaped, Watch
<1>2. CASE TRUE
  <2>1. Becomes(t, "w_add", th[t].ret, th[t].after, th[t].cur, th[t].arg, th[t].node)
    <3>1. GoTo(t, "w_add") /\ "w_add" \in PcStates
      BY <1>1, <1>2 DEF Watch, PcStates
    <3>2. QED
      BY <1>1, <3>1, SetPc DEF Moves
  <2>2. ShapeOf(t, "w_add", th[t].ret, th[t].after, th[t].cur, th[t].arg, th[t].node)
    BY <1>1, <1>2, Fields, Constants DEF Shape, ShapeOf, Caller, Pc, WithNode, WithArg,
      InDispatch, InRequest
  <2>3. QED
    BY <1>1, <1>2, <2>1, <2>2, NewShape
<1>3. QED
  BY <1>2

\* linuxWaitFd() suspends.
LEMMA linuxAddFdDoes ==
  ASSUME Types, Shaped, NEW t \in Threads, linuxAddFd(t)
  PROVE  /\ Pc(t) = "w_add" /\ Shape(t)' /\ Others(t)
         /\ Becomes(t, "w_ctl", th[t].after, th[t].after, Null, th[t].cur, Null)
<1>1. th \in [Threads -> ThRec] /\ t \in Threads /\ Shape(t) /\ Pc(t) = "w_add"
  BY Constants DEF Types, Shaped, linuxAddFd
<1>2. CASE TRUE
  <2>1. Becomes(t, "w_ctl", th[t].after, th[t].after, Null, th[t].cur, Null)
    BY <1>1, <1>2, SuspendedDoes DEF linuxAddFd, Moves, PcStates
  <2>2. ShapeOf(t, "w_ctl", th[t].after, th[t].after, Null, th[t].cur, Null)
    BY <1>1, <1>2, Fields, Constants DEF Shape, ShapeOf, Caller, Pc, WithNode, WithArg,
      InDispatch, InRequest
  <2>3. QED
    BY <1>1, <1>2, <2>1, <2>2, NewShape
<1>3. QED
  BY <1>2

\* epoll_ctl adds the descriptor.
LEMMA CtlAddFdDoes ==
  ASSUME Types, Shaped, NEW t \in Threads, CtlAddFd(t)
  PROVE  /\ Pc(t) = "w_ctl" /\ Shape(t)' /\ Others(t)
         /\ Returns(t)
<1>1. th \in [Threads -> ThRec] /\ t \in Threads /\ Shape(t) /\ Pc(t) = "w_ctl"
  BY Constants DEF Types, Shaped, CtlAddFd
<1>2. CASE TRUE
  <2>1. Returns(t)
    BY <1>1, <1>2, ReturnDoes DEF CtlAddFd
  <2>2. QED
    BY <1>1, <1>2, <2>1, ReturnShape DEF InDispatch
<1>3. QED
  BY <1>2

\* The descriptor is removed.
LEMMA linuxRemoveFdDoes ==
  ASSUME Types, Shaped, NEW t \in Threads, linuxRemoveFd(t)
  PROVE  /\ Pc(t) = "w_del" /\ Shape(t)' /\ Others(t)
         /\ Becomes(t, "finish", "run", th[t].after, th[t].cur, th[t].arg, th[t].node)
<1>1. th \in [Threads -> ThRec] /\ t \in Threads /\ Shape(t) /\ Pc(t) = "w_del"
  BY Constants DEF Types, Shaped, linuxRemoveFd
<1>2. CASE TRUE
  <2>1. Becomes(t, "finish", "run", th[t].after, th[t].cur, th[t].arg, th[t].node)
    <3>1. th' = [th EXCEPT ![t].pc = "finish", ![t].ret = "run"]
      BY <1>1, <1>2 DEF linuxRemoveFd
    <3>2. "finish" \in PcStates /\ "run" \in {"none", "setup", "run", "resume", "finish", "get"}
      BY <1>1, <1>2, Constants, Fields DEF PcStates, Types
    <3>3. QED
      BY <1>1, <3>1, <3>2, SetPcRet
  <2>2. ShapeOf(t, "finish", "run", th[t].after, th[t].cur, th[t].arg, th[t].node)
    BY <1>1, <1>2, Fields, Constants DEF Shape, ShapeOf, Caller, Pc, WithNode, WithArg,
      InDispatch, InRequest
  <2>3. QED
    BY <1>1, <1>2, <2>1, <2>2, NewShape
<1>3. QED
  BY <1>2

\* The file system thread clears the futex word.
LEMMA FsClearItemDoes ==
  ASSUME Types, Shaped, NEW t, t = Fs, FsClearItem
  PROVE  /\ Pc(t) = "f_clear" /\ Shape(t)' /\ Others(t)
         /\ Becomes(t, "f_get", th[t].ret, th[t].after, th[t].cur, th[t].arg, th[t].node)
<1>1. th \in [Threads -> ThRec] /\ t \in Threads /\ Shape(t) /\ Pc(t) = "f_clear"
  BY Constants DEF Types, Shaped, FsClearItem
<1>2. CASE TRUE
  <2>1. Becomes(t, "f_get", th[t].ret, th[t].after, th[t].cur, th[t].arg, th[t].node)
    <3>1. GoTo(t, "f_get") /\ "f_get" \in PcStates
      BY <1>1, <1>2 DEF FsClearItem, PcStates
    <3>2. QED
      BY <1>1, <3>1, SetPc DEF Moves
  <2>2. ShapeOf(t, "f_get", th[t].ret, th[t].after, th[t].cur, th[t].arg, th[t].node)
    BY <1>1, <1>2, Fields, Constants DEF Shape, ShapeOf, Caller, Pc, WithNode, WithArg,
      InDispatch, InRequest
  <2>3. QED
    BY <1>1, <1>2, <2>1, <2>2, NewShape
<1>3. QED
  BY <1>2

\* It takes a request.
LEMMA FsGetDoes ==
  ASSUME Types, Shaped, NEW t, t = Fs, FsGet
  PROVE  /\ Pc(t) = "f_get" /\ Shape(t)' /\ Others(t)
         /\ \/ (fs_queue # <<>> /\ Head(fs_queue) = End)
               /\ Becomes(t, "f_exit", th[t].ret, th[t].after, Head(fs_queue), th[t].arg, th[t].node)
            \/ (fs_queue # <<>> /\ Head(fs_queue) = CloseOp)
               /\ Becomes(t, "finish", th[t].ret, th[t].after, Head(fs_queue), th[t].arg, th[t].node)
            \/ (fs_queue # <<>> /\ Head(fs_queue) \in Coros)
               /\ Becomes(t, "f_tick", th[t].ret, th[t].after, Head(fs_queue), th[t].arg, th[t].node)
            \/ (fs_queue = <<>>)
               /\ Becomes(t, "f_wait", th[t].ret, th[t].after, th[t].cur, th[t].arg, th[t].node)
<1>1. th \in [Threads -> ThRec] /\ t \in Threads /\ Shape(t) /\ Pc(t) = "f_get"
  BY Constants DEF Types, Shaped, FsGet
<1>2. CASE (fs_queue # <<>> /\ Head(fs_queue) = End)
  <2>1. Becomes(t, "f_exit", th[t].ret, th[t].after, Head(fs_queue), th[t].arg, th[t].node)
    <3>1. th' = [th EXCEPT ![t].cur = Head(fs_queue), ![t].pc = "f_exit"]
      BY <1>1, <1>2, Constants DEF FsGet
    <3>2. "f_exit" \in PcStates /\ Head(fs_queue) \in Requests
      BY <1>1, <1>2, Constants, Fields DEF PcStates, Types
    <3>3. QED
      BY <1>1, <3>1, <3>2, SetCurPc
  <2>2. ShapeOf(t, "f_exit", th[t].ret, th[t].after, Head(fs_queue), th[t].arg, th[t].node)
    BY <1>1, <1>2, Fields, Constants DEF Shape, ShapeOf, Caller, Pc, WithNode, WithArg,
      InDispatch, InRequest, Types
  <2>3. QED
    BY <1>1, <1>2, <2>1, <2>2, NewShape
<1>3. CASE (fs_queue # <<>> /\ Head(fs_queue) = CloseOp)
  <2>1. Becomes(t, "finish", th[t].ret, th[t].after, Head(fs_queue), th[t].arg, th[t].node)
    <3>1. th' = [th EXCEPT ![t].cur = Head(fs_queue), ![t].pc = "finish"]
      BY <1>1, <1>3, Constants DEF FsGet
    <3>2. "finish" \in PcStates /\ Head(fs_queue) \in Requests
      BY <1>1, <1>3, Constants, Fields DEF PcStates, Types
    <3>3. QED
      BY <1>1, <3>1, <3>2, SetCurPc
  <2>2. ShapeOf(t, "finish", th[t].ret, th[t].after, Head(fs_queue), th[t].arg, th[t].node)
    BY <1>1, <1>3, Fields, Constants DEF Shape, ShapeOf, Caller, Pc, WithNode, WithArg,
      InDispatch, InRequest, Types
  <2>3. QED
    BY <1>1, <1>3, <2>1, <2>2, NewShape
<1>4. CASE (fs_queue # <<>> /\ Head(fs_queue) \in Coros)
  <2>1. Becomes(t, "f_tick", th[t].ret, th[t].after, Head(fs_queue), th[t].arg, th[t].node)
    <3>1. th' = [th EXCEPT ![t].cur = Head(fs_queue), ![t].pc = "f_tick"]
      BY <1>1, <1>4, Constants DEF FsGet
    <3>2. "f_tick" \in PcStates /\ Head(fs_queue) \in Requests
      BY <1>1, <1>4, Constants, Fields DEF PcStates, Types
    <3>3. QED
      BY <1>1, <3>1, <3>2, SetCurPc
  <2>2. ShapeOf(t, "f_tick", th[t].ret, th[t].after, Head(fs_queue), th[t].arg, th[t].node)
    BY <1>1, <1>4, Fields, Constants DEF Shape, ShapeOf, Caller, Pc, WithNode, WithArg,
      InDispatch, InRequest, Types
  <2>3. QED
    BY <1>1, <1>4, <2>1, <2>2, NewShape
<1>5. CASE (fs_queue = <<>>)
  <2>1. Becomes(t, "f_wait", th[t].ret, th[t].after, th[t].cur, th[t].arg, th[t].node)
    <3>1. GoTo(t, "f_wait") /\ "f_wait" \in PcStates
      BY <1>1, <1>5 DEF FsGet, PcStates
    <3>2. QED
      BY <1>1, <3>1, SetPc DEF Moves
  <2>2. ShapeOf(t, "f_wait", th[t].ret, th[t].after, th[t].cur, th[t].arg, th[t].node)
    BY <1>1, <1>5, Fields, Constants DEF Shape, ShapeOf, Caller, Pc, WithNode, WithArg,
      InDispatch, InRequest
  <2>3. QED
    BY <1>1, <1>5, <2>1, <2>2, NewShape
<1>6. fs_queue # <<>> => Head(fs_queue) \in Coros \cup {End, CloseOp}
  BY Constants DEF Types, Requests
<1>7. QED
  BY <1>2, <1>3, <1>4, <1>5, <1>6

\* It ticks the coroutine whose request is done.
LEMMA FsTickDoes ==
  ASSUME Types, Shaped, NEW t \in Threads, t = Fs, FsTick
  PROVE  /\ Pc(t) = "f_tick" /\ Shape(t)' /\ Others(t)
         /\ Becomes(t, "t_put", th[t].after, th[t].after, Null, th[t].cur, Null)
<1>1. th \in [Threads -> ThRec] /\ t \in Threads /\ Shape(t) /\ Pc(t) = "f_tick"
  BY Constants DEF Types, Shaped, FsTick
<1>2. CASE TRUE
  <2>1. Becomes(t, "t_put", th[t].after, th[t].after, Null, th[t].cur, Null)
    BY <1>1, <1>2, SuspendedDoes DEF FsTick, Moves, PcStates
  <2>2. ShapeOf(t, "t_put", th[t].after, th[t].after, Null, th[t].cur, Null)
    BY <1>1, <1>2, Fields, Constants DEF Shape, ShapeOf, Caller, Pc, WithNode, WithArg,
      InDispatch, InRequest
  <2>3. QED
    BY <1>1, <1>2, <2>1, <2>2, NewShape
<1>3. QED
  BY <1>2

\* It waits.
LEMMA FsWaitDoes ==
  ASSUME Types, Shaped, NEW t, t = Fs, FsWait
  PROVE  /\ Pc(t) = "f_wait" /\ Shape(t)' /\ Others(t)
         /\ \/ (fs_queue_item = 0)
               /\ Becomes(t, "f_sleep", th[t].ret, th[t].after, th[t].cur, th[t].arg, th[t].node)
            \/ (fs_queue_item # 0)
               /\ Becomes(t, "f_clear", th[t].ret, th[t].after, th[t].cur, th[t].arg, th[t].node)
<1>1. th \in [Threads -> ThRec] /\ t \in Threads /\ Shape(t) /\ Pc(t) = "f_wait"
  BY Constants DEF Types, Shaped, FsWait
<1>2. CASE (fs_queue_item = 0)
  <2>1. Becomes(t, "f_sleep", th[t].ret, th[t].after, th[t].cur, th[t].arg, th[t].node)
    <3>1. GoTo(t, "f_sleep") /\ "f_sleep" \in PcStates
      BY <1>1, <1>2 DEF FsWait, PcStates
    <3>2. QED
      BY <1>1, <3>1, SetPc DEF Moves
  <2>2. ShapeOf(t, "f_sleep", th[t].ret, th[t].after, th[t].cur, th[t].arg, th[t].node)
    BY <1>1, <1>2, Fields, Constants DEF Shape, ShapeOf, Caller, Pc, WithNode, WithArg,
      InDispatch, InRequest
  <2>3. QED
    BY <1>1, <1>2, <2>1, <2>2, NewShape
<1>3. CASE (fs_queue_item # 0)
  <2>1. Becomes(t, "f_clear", th[t].ret, th[t].after, th[t].cur, th[t].arg, th[t].node)
    <3>1. GoTo(t, "f_clear") /\ "f_clear" \in PcStates
      BY <1>1, <1>3 DEF FsWait, PcStates
    <3>2. QED
      BY <1>1, <3>1, SetPc DEF Moves
  <2>2. ShapeOf(t, "f_clear", th[t].ret, th[t].after, th[t].cur, th[t].arg, th[t].node)
    BY <1>1, <1>3, Fields, Constants DEF Shape, ShapeOf, Caller, Pc, WithNode, WithArg,
      InDispatch, InRequest
  <2>3. QED
    BY <1>1, <1>3, <2>1, <2>2, NewShape
<1>4. QED
  BY <1>2, <1>3 DEF FsWait

\* It is interrupted.
LEMMA FsInterruptedDoes ==
  ASSUME Types, Shaped, NEW t, t = Fs, FsInterrupted
  PROVE  /\ Pc(t) = "f_sleep" /\ Shape(t)' /\ Others(t)
         /\ Becomes(t, "f_clear", th[t].ret, th[t].after, th[t].cur, th[t].arg, th[t].node)
<1>1. th \in [Threads -> ThRec] /\ t \in Threads /\ Shape(t) /\ Pc(t) = "f_sleep"
  BY Constants DEF Types, Shaped, FsInterrupted
<1>2. CASE TRUE
  <2>1. Becomes(t, "f_clear", th[t].ret, th[t].after, th[t].cur, th[t].arg, th[t].node)
    <3>1. GoTo(t, "f_clear") /\ "f_clear" \in PcStates
      BY <1>1, <1>2 DEF FsInterrupted, PcStates
    <3>2. QED
      BY <1>1, <3>1, SetPc DEF Moves
  <2>2. ShapeOf(t, "f_clear", th[t].ret, th[t].after, th[t].cur, th[t].arg, th[t].node)
    BY <1>1, <1>2, Fields, Constants DEF Shape, ShapeOf, Caller, Pc, WithNode, WithArg,
      InDispatch, InRequest
  <2>3. QED
    BY <1>1, <1>2, <2>1, <2>2, NewShape
<1>3. QED
  BY <1>2

-----------------------------------------------------------------------------
(* A step is one thread's. *)

StepOf(t) ==
  \/ Shared(t)
  \/ WorkerGet(t) \/ PollPush(t) \/ PollStop(t) \/ Resume(t)
  \/ \E n \in EventfdNodes : PollEventFd(t, n)
  \/ \E c \in Coros : PollFd(t, c)
  \/ CoroStep(t)
  \/ t = Main /\ run
  \/ t = Fs /\ (FsClearItem \/ FsGet \/ FsTick \/ FsWait \/ FsInterrupted)

\* A step of the loop is a step of one thread.
LEMMA NextIsStep ==
  ASSUME [Next]_vars
  PROVE  (\E t \in Threads : StepOf(t)) \/ UNCHANGED vars
<1>1. ASSUME NEW w \in Workers, WorkerStep(w) PROVE w \in Threads /\ StepOf(w)
  BY <1>1, Constants DEF WorkerStep, StepOf
<1>2. ASSUME run PROVE Main \in Threads /\ StepOf(Main)
  BY <1>2, Constants DEF StepOf
<1>3. ASSUME FsStep \/ FsInterrupted PROVE Fs \in Threads /\ StepOf(Fs)
  BY <1>3, Constants DEF FsStep, StepOf
<1>4. QED
  BY <1>1, <1>2, <1>3 DEF Next, Terminated

(* Types. *)
LEMMA TypesStep ==
  ASSUME Types, Shaped, NodesOnce, NEW t \in Threads, StepOf(t)
  PROVE  Types'
<1>1. CASE DispatchPop(t)
  <2>1. th' \in [Threads -> ThRec]
    BY <1>1, DispatchPopDoes DEF Others
  <2>2. (available' = Tail(available) /\ available # <<>>) \/ available' = available
    BY <1>1, Constants DEF DispatchPop
  <2>3. available # <<>> => Tail(available) \in Seq(EventfdNodes)
    BY TailType DEF Types
  <2>4. available' \in Seq(EventfdNodes)
    BY <1>1, <2>2, <2>3, Constants DEF Types
  <2>5. QED
    BY <1>1, <2>1, <2>2, <2>3, <2>4, Constants DEF Types, DispatchPop, tickq, nodes, fsq, cos,
      watch
<1>2. CASE DispatchGet(t)
  <2>1. th' \in [Threads -> ThRec]
    BY <1>2, DispatchGetDoes DEF Others
  <2>2. \/ /\ next_tick_queue # <<>> /\ next_tick_queue' = Tail(next_tick_queue)
           /\ shadowed' = FALSE
           /\ handle' = [handle EXCEPT ![th[t].node] = Head(next_tick_queue)]
        \/ next_tick_queue' = next_tick_queue /\ shadowed' = shadowed /\ handle' = handle
    BY <1>2, Constants DEF DispatchGet, TickGet, tickq
  <2>3. next_tick_queue # <<>> => Tail(next_tick_queue) \in Seq(Coros) /\ Head(next_tick_queue) \in Coros
    BY TailType DEF Types
  <2>4. next_tick_queue' \in Seq(Coros) /\ shadowed' \in BOOLEAN
    BY <1>2, <2>2, <2>3, Constants DEF Types
  <2>5. handle' \in [EventfdNodes -> Coros \cup {Null}]
    BY <1>2, <2>2, <2>3, <2>4, Constants DEF Types
  <2>6. QED
    BY <1>2, <2>1, <2>2, <2>3, <2>4, <2>5, Constants DEF Types, DispatchGet, TickGet, tickq,
      nodes, fsq, cos, watch
<1>3. CASE DispatchArm(t)
  <2>1. th' \in [Threads -> ThRec]
    BY <1>3, DispatchArmDoes DEF Others
  <2>2. th[t].node \in EventfdNodes
    BY <1>3, Constants DEF DispatchArm, Shaped, Shape, ShapeOf, Pc, WithNode, WithArg, InRequest
  <2>3. QED
    BY <1>3, <2>1, <2>2, Constants DEF Types, DispatchArm, tickq, nodes, fsq, cos, watch
<1>4. CASE DispatchArmFails(t)
  <2>1. th' \in [Threads -> ThRec]
    BY <1>4, DispatchArmFailsDoes DEF Others
  <2>2. th[t].node \in EventfdNodes
    BY <1>4, Constants DEF DispatchArmFails, TickUnget, Shaped, Shape, ShapeOf, Pc, WithNode,
      WithArg, InRequest
  <2>3. handle[th[t].node] \in Coros
    BY <1>4, <2>2, Constants DEF DispatchArmFails, TickUnget, NodesOnce, Pc
  <2>4. next_tick_queue' \in Seq(Coros)
    BY <1>4, <2>2, <2>3, Constants DEF DispatchArmFails, TickUnget
  <2>5. lost' \subseteq Coros /\ shadowed' \in BOOLEAN
    BY <1>4, <2>2, <2>3, <2>4, Constants DEF DispatchArmFails, TickUnget, Types
  <2>6. failures' \in 0..CtlFailures
    BY <1>4, <2>2, <2>3, <2>4, <2>5, Constants, LoopAssumption DEF DispatchArmFails, TickUnget,
      Types
  <2>7. QED
    BY <1>4, <2>1, <2>2, <2>3, <2>4, <2>5, <2>6, Constants DEF Types, DispatchArmFails, TickUnget,
      tickq, nodes, fsq, cos, watch
<1>5. CASE DispatchPush(t)
  <2>1. th' \in [Threads -> ThRec]
    BY <1>5, DispatchPushDoes DEF Others
  <2>2. th[t].node \in EventfdNodes
    BY <1>5, Constants DEF DispatchPush, Shaped, Shape, ShapeOf, Pc, WithNode, WithArg, InRequest
  <2>3. available' \in Seq(EventfdNodes)
    BY <1>5, <2>2, Constants DEF DispatchPush, Types
  <2>4. QED
    BY <1>5, <2>1, <2>2, <2>3, Constants DEF Types, DispatchPush, tickq, nodes, fsq, cos, watch
<1>6. CASE PutTick(t)
  <2>1. th' \in [Threads -> ThRec]
    BY <1>6, PutTickDoes DEF Others
  <2>2. th[t].arg \in Coros
    BY <1>6, Constants DEF PutTick, TickPut, Shaped, Shape, ShapeOf, Pc, WithNode, WithArg,
      InRequest
  <2>3. next_tick_queue' \in Seq(Coros) /\ lost' \subseteq Coros /\ shadowed' \in BOOLEAN
    BY <1>6, <2>2, Constants DEF PutTick, TickPut, Types
  <2>4. QED
    BY <1>6, <2>1, <2>2, <2>3, Constants DEF Types, PutTick, TickPut, tickq, nodes, fsq, cos,
      watch
<1>7. CASE PutRequest(t)
  <2>1. th' \in [Threads -> ThRec]
    BY <1>7, PutRequestDoes DEF Others
  <2>2. th[t].arg \in Requests
    BY <1>7, Constants, Fields DEF PutRequest, Shaped, Shape, ShapeOf, Pc, WithNode, WithArg,
      InRequest, Types
  <2>3. fs_queue' \in Seq(Requests)
    BY <1>7, <2>2, Constants DEF PutRequest, Types
  <2>4. QED
    BY <1>7, <2>1, <2>2, <2>3, Constants DEF Types, PutRequest, tickq, nodes, fsq, cos, watch
<1>8. CASE SetItem(t)
  <2>1. th' \in [Threads -> ThRec]
    BY <1>8, SetItemDoes DEF Others
  <2>2. QED
    BY <1>8, <2>1, Constants DEF Types, SetItem, tickq, nodes, fsq, cos, watch
<1>9. CASE WakeFs(t)
  <2>1. th' \in [Threads -> ThRec]
    BY <1>9, WakeFsStep DEF Others
  <2>2. QED
    BY <1>9, <2>1, Constants DEF Types, WakeFs, tickq, nodes, fsq, cos, watch
<1>10. CASE Finish(t)
  <2>1. th' \in [Threads -> ThRec]
    BY <1>10, FinishStep DEF Others
  <2>2. QED
    BY <1>10, <2>1, Constants DEF Types, Finish, tickq, nodes, fsq, cos, watch
<1>11. CASE RequestEnd(t)
  <2>1. th' \in [Threads -> ThRec]
    BY <1>11, RequestEndDoes DEF Others
  <2>2. pending_event_count' = pending_event_count + 1
        /\ UNCHANGED <<tickq, nodes, final_eventfd, fsq, cos, watch, failures>>
    BY <1>11 DEF RequestEnd, BeginRequest, beginOneEvent
  <2>3. QED
    BY <2>1, <2>2 DEF Types, tickq, nodes, fsq, cos, watch
<1>12. CASE WriteFinal(t)
  <2>1. th' \in [Threads -> ThRec]
    BY <1>12, WriteFinalDoes DEF Others
  <2>2. QED
    BY <1>12, <2>1, Constants DEF Types, WriteFinal, tickq, nodes, fsq, cos, watch
<1>13. CASE WorkerGet(t)
  <2>1. th' \in [Threads -> ThRec]
    BY <1>13, WorkerGetDoes DEF Others
  <2>2. \/ /\ next_tick_queue # <<>> /\ next_tick_queue' = Tail(next_tick_queue)
           /\ shadowed' = FALSE
        \/ next_tick_queue' = next_tick_queue /\ shadowed' = shadowed
    BY <1>13, Constants DEF WorkerGet, TickGet, tickq
  <2>3. next_tick_queue # <<>> => Tail(next_tick_queue) \in Seq(Coros) /\ Head(next_tick_queue) \in Coros
    BY TailType DEF Types
  <2>4. next_tick_queue' \in Seq(Coros) /\ shadowed' \in BOOLEAN
    BY <1>13, <2>2, <2>3, Constants DEF Types
  <2>5. QED
    BY <1>13, <2>1, <2>2, <2>3, <2>4, Constants DEF Types, WorkerGet, TickGet, tickq, nodes, fsq,
      cos, watch
<1>14. ASSUME NEW n \in EventfdNodes, PollEventFd(t, n) PROVE Types'
  <2>0. handle[n] \in Coros
    BY <1>14 DEF NodesOnce, PollEventFd
  <2>1. th' \in [Threads -> ThRec]
    BY <1>14, <2>0, PollEventFdDoes DEF Others
  <2>2. QED
    BY <1>14, <2>1, Constants DEF Types, PollEventFd, tickq, nodes, fsq, cos, watch
<1>15. CASE PollPush(t)
  <2>1. th' \in [Threads -> ThRec]
    BY <1>15, PollPushDoes DEF Others
  <2>2. th[t].node \in EventfdNodes
    BY <1>15, Constants DEF PollPush, Shaped, Shape, ShapeOf, Pc, WithNode, WithArg, InRequest
  <2>3. available' \in Seq(EventfdNodes)
    BY <1>15, <2>2, Constants DEF PollPush, Types
  <2>4. epoll_op' \in [EventfdNodes -> {"ADD", "MOD"}]
    BY <1>15, <2>2, <2>3, Constants DEF PollPush, Types
  <2>5. QED
    BY <1>15, <2>1, <2>2, <2>3, <2>4, Constants DEF Types, PollPush, tickq, nodes, fsq, cos, watch
<1>16. CASE PollStop(t)
  <2>1. th' \in [Threads -> ThRec]
    BY <1>16, PollStopDoes DEF Others
  <2>2. QED
    BY <1>16, <2>1, Constants DEF Types, PollStop, tickq, nodes, fsq, cos, watch
<1>17. ASSUME NEW c \in Coros, PollFd(t, c) PROVE Types'
  <2>1. th' \in [Threads -> ThRec]
    BY <1>17, PollFdDoes DEF Others
  <2>2. edges' \in [Coros -> 0..Edges]
    BY <1>17, Constants, LoopAssumption DEF PollFd, Types
  <2>3. coro' \in [Coros -> {"unstarted", "ticked", "running", "waiting", "polling", "done"}]
    BY <1>17, <2>2, Constants DEF PollFd, Types
  <2>4. QED
    BY <1>17, <2>1, <2>2, <2>3, Constants DEF Types, PollFd, tickq, nodes, fsq, cos, watch
<1>18. CASE Resume(t)
  <2>1. th' \in [Threads -> ThRec]
    BY <1>18, ResumeDoes DEF Others
  <2>2. coro' \in [Coros -> {"unstarted", "ticked", "running", "waiting", "polling", "done"}]
    BY <1>18, Constants DEF Resume, Types
  <2>3. QED
    BY <1>18, <2>1, <2>2, Constants DEF Types, Resume, tickq, nodes, fsq, cos, watch
<1>19. ASSUME NEW c \in Coros, Call(t, c) PROVE Types'
  <2>1. th' \in [Threads -> ThRec]
    BY <1>19, CallDoes DEF Others
  <2>2. coro' \in [Coros -> {"unstarted", "ticked", "running", "waiting", "polling", "done"}]
    BY <1>19, Constants DEF Call, BeginTick, beginOneEvent, Types
  <2>3. pending_event_count' = pending_event_count + 1
        /\ UNCHANGED <<tickq, nodes, final_eventfd, fsq, left, watch, failures>>
    BY <1>19 DEF Call, BeginTick, beginOneEvent
  <2>4. QED
    BY <2>1, <2>2, <2>3 DEF Types, tickq, nodes, fsq, cos, watch
<1>20. CASE t = Main /\ run
  <2>1. th' \in [Threads -> ThRec]
    BY <1>20, runDoes DEF Others
  <2>2. QED
    BY <1>20, <2>1, Constants DEF Types, run, tickq, nodes, fsq, cos, watch
<1>21. CASE CoroReturns(t)
  <2>1. th' \in [Threads -> ThRec]
    BY <1>21, CoroReturnsStep DEF Others
  <2>2. coro' \in [Coros -> {"unstarted", "ticked", "running", "waiting", "polling", "done"}]
    BY <1>21, Constants DEF CoroReturns, Types
  <2>3. QED
    BY <1>21, <2>1, <2>2, Constants DEF Types, CoroReturns, tickq, nodes, fsq, cos, watch
<1>22. CASE Yield(t)
  <2>1. th' \in [Threads -> ThRec]
    BY <1>22, YieldDoes DEF Others
  <2>2. th[t].cur \in Coros
    BY <1>22, Constants DEF Yield, Suspended, beginOneEvent, Shaped, Shape, ShapeOf, Pc, WithNode,
      WithArg, InRequest
  <2>3. left' \in [Coros -> 0..Operations]
    BY <1>22, <2>2, Constants, LoopAssumption, SMTT(30)
    DEF Yield, Suspended, beginOneEvent, Types
  <2>4. coro' \in [Coros -> {"unstarted", "ticked", "running", "waiting", "polling", "done"}]
    BY <1>22, <2>2, <2>3, Constants DEF Yield, Suspended, beginOneEvent, Types
  <2>5. QED
    BY <1>22, <2>1, <2>2, <2>3, <2>4, Constants DEF Types, Yield, Suspended, beginOneEvent, tickq,
      nodes, fsq, cos, watch
<1>23. CASE FsRequest(t)
  <2>1. th' \in [Threads -> ThRec]
    BY <1>23, FsRequestDoes DEF Others
  <2>2. th[t].cur \in Coros
    BY <1>23, Constants DEF FsRequest, Suspended, beginOneEvent, Shaped, Shape, ShapeOf, Pc,
      WithNode, WithArg, InRequest
  <2>3. left' \in [Coros -> 0..Operations]
    BY <1>23, <2>2, Constants, LoopAssumption DEF FsRequest, Suspended, beginOneEvent, Types
  <2>4. coro' \in [Coros -> {"unstarted", "ticked", "running", "waiting", "polling", "done"}]
    BY <1>23, <2>2, <2>3, Constants DEF FsRequest, Suspended, beginOneEvent, Types
  <2>5. QED
    BY <1>23, <2>1, <2>2, <2>3, <2>4, Constants, SMTT(30)
    DEF Types, FsRequest, Suspended, beginOneEvent,
      tickq, nodes, fsq, cos, watch
<1>24. CASE FsClose(t)
  <2>1. th' \in [Threads -> ThRec]
    BY <1>24, FsCloseDoes DEF Others
  <2>2. th[t].cur \in Coros
    BY <1>24, Constants DEF FsClose, BeginRequest, beginOneEvent, Shaped, Shape, ShapeOf, Pc,
      WithNode, WithArg, InRequest
  <2>3. left' \in [Coros -> 0..Operations]
    BY <1>24, <2>2, Constants, LoopAssumption, SMTT(30)
    DEF FsClose, BeginRequest, beginOneEvent, Types
  <2>4. pending_event_count' = pending_event_count + 1
        /\ UNCHANGED <<tickq, nodes, final_eventfd, fsq, coro, watch, failures>>
    BY <1>24 DEF FsClose, BeginRequest, beginOneEvent
  <2>5. QED
    BY <2>1, <2>2, <2>3, <2>4 DEF Types, tickq, nodes, fsq, cos, watch
<1>25. CASE Watch(t)
  <2>1. th' \in [Threads -> ThRec]
    BY <1>25, WatchDoes DEF Others
  <2>2. th[t].cur \in Coros
    BY <1>25, Constants DEF Watch, Shaped, Shape, ShapeOf, Pc, WithNode, WithArg, InRequest
  <2>3. left' \in [Coros -> 0..Operations]
    BY <1>25, <2>2, Constants, LoopAssumption, SMTT(30) DEF Watch, Types
  <2>4. watching' \subseteq Watchers /\ pending_event_count' \in Int
    BY <1>25, <2>2, <2>3, Constants DEF Watch, Types
  <2>5. QED
    BY <1>25, <2>1, <2>2, <2>3, <2>4, Constants DEF Types, Watch, tickq, nodes, fsq, cos, watch
<1>26. CASE linuxAddFd(t)
  <2>1. th' \in [Threads -> ThRec]
    BY <1>26, linuxAddFdDoes DEF Others
  <2>2. coro' \in [Coros -> {"unstarted", "ticked", "running", "waiting", "polling", "done"}]
    BY <1>26, Constants DEF linuxAddFd, Suspended, beginOneEvent, Types
  <2>3. QED
    BY <1>26, <2>1, <2>2, Constants DEF Types, linuxAddFd, Suspended, beginOneEvent, tickq, nodes,
      fsq, cos, watch
<1>27. CASE CtlAddFd(t)
  <2>1. th' \in [Threads -> ThRec]
    BY <1>27, CtlAddFdDoes DEF Others
  <2>2. edges' = [edges EXCEPT ![th[t].arg] = Edges]
    BY <1>27, Constants DEF CtlAddFd
  <2>3. 0 \in 0..Edges /\ Edges \in 0..Edges
    BY <1>27, <2>2, Constants, LoopAssumption 
  <2>4. edges' \in [Coros -> 0..Edges]
    BY <1>27, <2>2, <2>3, Constants, LoopAssumption DEF Types
  <2>5. QED
    BY <1>27, <2>1, <2>2, <2>3, <2>4, Constants DEF Types, CtlAddFd, tickq, nodes, fsq, cos, watch
<1>28. CASE linuxRemoveFd(t)
  <2>1. th' \in [Threads -> ThRec]
    BY <1>28, linuxRemoveFdDoes DEF Others
  <2>2. edges' = [edges EXCEPT ![th[t].cur] = 0]
    BY <1>28, Constants DEF linuxRemoveFd
  <2>3. 0 \in 0..Edges /\ Edges \in 0..Edges
    BY <1>28, <2>2, Constants, LoopAssumption 
  <2>4. edges' \in [Coros -> 0..Edges]
    BY <1>28, <2>2, <2>3, Constants, LoopAssumption DEF Types
  <2>5. QED
    BY <1>28, <2>1, <2>2, <2>3, <2>4, Constants DEF Types, linuxRemoveFd, tickq, nodes, fsq, cos,
      watch
<1>29. CASE t = Fs /\ FsClearItem
  <2>1. th' \in [Threads -> ThRec]
    BY <1>29, FsClearItemDoes DEF Others
  <2>2. QED
    BY <1>29, <2>1, Constants DEF Types, FsClearItem, tickq, nodes, fsq, cos, watch
<1>30. CASE t = Fs /\ FsGet
  <2>1. th' \in [Threads -> ThRec]
    BY <1>30, FsGetDoes DEF Others
  <2>2. (fs_queue # <<>> /\ fs_queue' = Tail(fs_queue)) \/ fs_queue' = fs_queue
    BY <1>30, Constants DEF FsGet
  <2>3. fs_queue # <<>> => Tail(fs_queue) \in Seq(Requests)
    BY TailType DEF Types
  <2>4. fs_queue' \in Seq(Requests)
    BY <1>30, <2>2, <2>3, Constants DEF Types
  <2>5. QED
    BY <1>30, <2>1, <2>2, <2>3, <2>4, Constants DEF Types, FsGet, tickq, nodes, fsq, cos, watch
<1>31. CASE t = Fs /\ FsTick
  <2>1. th' \in [Threads -> ThRec]
    BY <1>31, FsTickDoes DEF Others
  <2>2. coro' \in [Coros -> {"unstarted", "ticked", "running", "waiting", "polling", "done"}]
    BY <1>31, Constants DEF FsTick, Suspended, beginOneEvent, Types
  <2>3. QED
    BY <1>31, <2>1, <2>2, Constants DEF Types, FsTick, Suspended, beginOneEvent, tickq, nodes,
      fsq, cos, watch
<1>32. CASE t = Fs /\ FsWait
  <2>1. th' \in [Threads -> ThRec]
    BY <1>32, FsWaitDoes DEF Others
  <2>2. QED
    BY <1>32, <2>1, Constants DEF Types, FsWait, tickq, nodes, fsq, cos, watch
<1>33. CASE t = Fs /\ FsInterrupted
  <2>1. th' \in [Threads -> ThRec]
    BY <1>33, FsInterruptedDoes DEF Others
  <2>2. QED
    BY <1>33, <2>1, Constants DEF Types, FsInterrupted, tickq, nodes, fsq, cos, watch
<1>34. QED
  BY <1>1, <1>2, <1>3, <1>4, <1>5, <1>6, <1>7, <1>8, <1>9, <1>10, <1>11, <1>12, <1>13, <1>14,
    <1>15, <1>16, <1>17, <1>18, <1>19, <1>20, <1>21, <1>22, <1>23, <1>24, <1>25, <1>26, <1>27,
    <1>28, <1>29, <1>30, <1>31, <1>32, <1>33
     DEF StepOf, Shared, Dispatch, CoroStep

\* Every step keeps the shapes of the threads.
LEMMA ShapedStep ==
  ASSUME Types, Shaped, NodesOnce, NEW t \in Threads, StepOf(t)
  PROVE  Shape(t)' /\ Others(t) /\ Shaped'
<1> SUFFICES Shape(t)' /\ Others(t)
  BY ShapeStep
<1>1. CASE DispatchPop(t)
  BY <1>1, DispatchPopDoes
<1>2. CASE DispatchGet(t)
  BY <1>2, DispatchGetDoes
<1>3. CASE DispatchArm(t)
  BY <1>3, DispatchArmDoes
<1>4. CASE DispatchArmFails(t)
  BY <1>4, DispatchArmFailsDoes
<1>5. CASE DispatchPush(t)
  BY <1>5, DispatchPushDoes
<1>6. CASE PutTick(t)
  BY <1>6, PutTickDoes
<1>7. CASE PutRequest(t)
  BY <1>7, PutRequestDoes
<1>8. CASE SetItem(t)
  BY <1>8, SetItemDoes
<1>9. CASE WakeFs(t)
  BY <1>9, WakeFsStep
<1>10. CASE Finish(t)
  BY <1>10, FinishStep
<1>11. CASE RequestEnd(t)
  BY <1>11, RequestEndDoes
<1>12. CASE WriteFinal(t)
  BY <1>12, WriteFinalDoes
<1>13. CASE WorkerGet(t)
  BY <1>13, WorkerGetDoes
<1>14. ASSUME NEW n \in EventfdNodes, PollEventFd(t, n) PROVE Shape(t)' /\ Others(t)
  <2>1. handle[n] \in Coros
    BY <1>14 DEF NodesOnce, PollEventFd
  <2>2. QED
    BY <1>14, <2>1, PollEventFdDoes
<1>15. CASE PollPush(t)
  BY <1>15, PollPushDoes
<1>16. CASE PollStop(t)
  BY <1>16, PollStopDoes
<1>17. ASSUME NEW c \in Coros, PollFd(t, c) PROVE Shape(t)' /\ Others(t)
  BY <1>17, PollFdDoes
<1>18. CASE Resume(t)
  BY <1>18, ResumeDoes
<1>19. ASSUME NEW c \in Coros, Call(t, c) PROVE Shape(t)' /\ Others(t)
  BY <1>19, CallDoes
<1>20. CASE t = Main /\ run
  BY <1>20, runDoes
<1>21. CASE CoroReturns(t)
  BY <1>21, CoroReturnsStep
<1>22. CASE Yield(t)
  BY <1>22, YieldDoes
<1>23. CASE FsRequest(t)
  BY <1>23, FsRequestDoes
<1>24. CASE FsClose(t)
  BY <1>24, FsCloseDoes
<1>25. CASE Watch(t)
  BY <1>25, WatchDoes
<1>26. CASE linuxAddFd(t)
  BY <1>26, linuxAddFdDoes
<1>27. CASE CtlAddFd(t)
  BY <1>27, CtlAddFdDoes
<1>28. CASE linuxRemoveFd(t)
  BY <1>28, linuxRemoveFdDoes
<1>29. CASE t = Fs /\ FsClearItem
  BY <1>29, FsClearItemDoes
<1>30. CASE t = Fs /\ FsGet
  BY <1>30, FsGetDoes
<1>31. CASE t = Fs /\ FsTick
  BY <1>31, FsTickDoes
<1>32. CASE t = Fs /\ FsWait
  BY <1>32, FsWaitDoes
<1>33. CASE t = Fs /\ FsInterrupted
  BY <1>33, FsInterruptedDoes
<1>34. QED
  BY <1>1, <1>2, <1>3, <1>4, <1>5, <1>6, <1>7, <1>8, <1>9, <1>10, <1>11, <1>12, <1>13, <1>14,
    <1>15, <1>16, <1>17, <1>18, <1>19, <1>20, <1>21, <1>22, <1>23, <1>24, <1>25, <1>26, <1>27,
    <1>28, <1>29, <1>30, <1>31, <1>32, <1>33
     DEF StepOf, Shared, Dispatch, CoroStep

-----------------------------------------------------------------------------
(* The eventfd nodes. *)

\* A step that leaves the nodes where they are.
LEMMA NodesSame ==
  ASSUME Nodes, NEW t \in Threads, Others(t), UNCHANGED nodes,
         th'[t].node = th[t].node, th'[t].pc = "d_arm" => Pc(t) = "d_arm",
         th'[t].pc = "p_push" <=> Pc(t) = "p_push"
  PROVE  Nodes'
<1>1. \A u \in Threads : /\ th'[u].node = th[u].node
                         /\ th'[u].pc = "d_arm" => th[u].pc = "d_arm"
                         /\ th'[u].pc = "p_push" <=> th[u].pc = "p_push"
  BY DEF Others, Still, Pc
<1>2. /\ available' = available /\ handle' = handle /\ epoll_op' = epoll_op
      /\ registered' = registered /\ armed' = armed
  BY DEF nodes
<1>3. NodesOnce'
  BY <1>1, <1>2 DEF Nodes, NodesOnce, Pc
<1>4. NodesKept'
  BY <1>1, <1>2 DEF Nodes, NodesKept
<1>5. Fits'
  BY <1>1, <1>2 DEF Nodes, Fits, Pc
<1>6. QED
  BY <1>3, <1>4, <1>5 DEF Nodes

\* pop() takes the node on top of the stack.
LEMMA NodesPop ==
  ASSUME Types, Shaped, Nodes, NEW t \in Threads, DispatchPop(t)
  PROVE  Nodes'
<1>1. /\ handle' = handle /\ epoll_op' = epoll_op /\ registered' = registered
      /\ armed' = armed /\ Pc(t) = "d_pop" /\ th[t].node = Null /\ Null \notin EventfdNodes
  <2>1. th[t].node \in EventfdNodes \cup {Null} /\ Shape(t)
    BY Fields DEF Types, Shaped
  <2>2. QED
    BY <2>1, Constants DEF DispatchPop, Shape, ShapeOf, WithNode
<1>2. CASE available # <<>>
  <2>1. PICK n \in EventfdNodes : n = Head(available) /\ InQueue(available, n)
    BY <1>2, GetQueue DEF Types, Nodes, NodesOnce
  <2>2. /\ th'[t].pc = "d_get" /\ th'[t].node = n
        /\ \A u \in Threads \ {t} : th'[u].node = th[u].node /\
              (th'[u].pc = th[u].pc \/ (th'[u].pc = "f_clear" /\ th[u].pc = "f_sleep"))
    BY <1>2, <2>1, DispatchPopDoes DEF Becomes, Still
  <2>3. available' = Tail(available)
    BY <1>2 DEF DispatchPop
  <2>4. Distinct(available') /\ \A x : InQueue(available', x) <=> InQueue(available, x) /\ x # n
    BY <1>2, <2>1, <2>3, GetQueue DEF Types, Nodes, NodesOnce
  <2>5. /\ n \notin armed
        /\ \A u \in Threads : th[u].node # n
    BY <2>1 DEF Nodes, NodesOnce
  <2>6. NodesOnce'
    <3>1. \A x \in armed' : ~InQueue(available', x) /\ handle'[x] \in Coros
      BY <1>1, <2>4 DEF Nodes, NodesOnce
    <3>2. ASSUME NEW u \in Threads, th'[u].node \in EventfdNodes
          PROVE  /\ th'[u].node \notin armed' /\ ~InQueue(available', th'[u].node)
                 /\ \A v \in Threads : th'[v].node = th'[u].node => v = u
                 /\ th'[u].pc = "d_arm" => handle'[th'[u].node] \in Coros
      <4>1. CASE u = t
        BY <1>1, <2>1, <2>2, <2>4, <2>5, <4>1
      <4>2. CASE u # t
        BY <1>1, <2>2, <2>4, <2>5, <3>2, <4>2 DEF Nodes, NodesOnce, Pc
      <4>3. QED
        BY <4>1, <4>2
    <3>3. QED
      BY <2>4, <3>1, <3>2 DEF NodesOnce, Pc
  <2>7. NodesKept'
    BY <1>1, <2>1, <2>2, <2>4 DEF Nodes, NodesKept
  <2>8. Fits'
    <3>1. \A u \in Threads : th'[u].pc = "p_push" <=> th[u].pc = "p_push"
      BY <1>1, <2>2 DEF Pc
    <3>2. \A u \in Threads : th[u].pc = "p_push" => th'[u].node = th[u].node
      BY <1>1, <2>2 DEF Pc
    <3>3. QED
      BY <1>1, <3>1, <3>2 DEF Nodes, Fits, Pc
  <2>9. QED
    BY <2>6, <2>7, <2>8 DEF Nodes
<1>3. CASE available = <<>>
  <2>1. Returns(t) /\ Others(t)
    BY <1>3, DispatchPopDoes
  <2>2. th'[t].node = Null /\ th'[t].pc \in {"get", "f_get", "finish", "setup", "run", "resume"}
    BY <2>1 DEF Returns, Becomes, Home
  <2>3. UNCHANGED nodes
    BY <1>1, <1>3 DEF DispatchPop, nodes
  <2>4. QED
    BY <1>1, <2>1, <2>2, <2>3, NodesSame
<1>4. QED
  BY <1>2, <1>3

\* push() puts a node on top of the stack.
LEMMA PushStack ==
  ASSUME NEW S, NEW q \in Seq(S), NEW e \in S, Distinct(q), ~InQueue(q, e)
  PROVE  /\ Distinct(<<e>> \o q)
         /\ \A x : InQueue(<<e>> \o q, x) <=> InQueue(q, x) \/ x = e
<1> DEFINE n == Len(q)
           p == <<e>> \o q
<1>1. /\ n \in Nat /\ Len(p) = n + 1 /\ p[1] = e
      /\ \A i \in 2..(n + 1) : p[i] = q[i - 1]
  OBVIOUS
<1>2. \A i \in 1..n : q[i] # e
  BY DEF InQueue
<1>3. \A i, j \in 1..n : q[i] = q[j] => i = j
  BY DEF Distinct
<1> HIDE DEF p, n
<1>4. \A i \in 1..n : i + 1 \in 2..(n + 1) /\ p[i + 1] = q[i]
  BY <1>1
<1>5. \A i, j \in 1..(n + 1) : p[i] = p[j] => i = j
  BY <1>1, <1>2, <1>3
<1>6. ASSUME NEW x, \E i \in 1..n : q[i] = x PROVE \E i \in 1..(n + 1) : p[i] = x
  BY <1>1, <1>4, <1>6
<1>7. ASSUME NEW x, \E i \in 1..(n + 1) : p[i] = x
      PROVE  (\E i \in 1..n : q[i] = x) \/ x = e
  <2>1. PICK i \in 1..(n + 1) : p[i] = x
    BY <1>7
  <2>2. i = 1 \/ (i - 1 \in 1..n /\ q[i - 1] = x)
    BY <1>1, <2>1
  <2>3. QED
    BY <1>1, <2>1, <2>2
<1>8. \E i \in 1..(n + 1) : p[i] = e
  BY <1>1
<1>9. QED
  BY <1>1, <1>5, <1>6, <1>7, <1>8 DEF Distinct, InQueue, n, p

\* A thread's node leaves its hands for the stack.
LEMMA NodesPush ==
  ASSUME Types, Shaped, Nodes, NEW t \in Threads, Others(t), th[t].node \in EventfdNodes,
         available' = <<th[t].node>> \o available, handle' = handle,
         registered' = registered, armed' = armed,
         \A n \in EventfdNodes : n # th[t].node => epoll_op'[n] = epoll_op[n],
         (epoll_op'[th[t].node] = "ADD") = (th[t].node \notin registered),
         th'[t].node = Null, th'[t].pc \notin {"d_arm", "p_push"}
  PROVE  Nodes'
<1> PICK n \in EventfdNodes : n = th[t].node
  OBVIOUS
<1>1. /\ Distinct(available')
      /\ \A x : InQueue(available', x) <=> InQueue(available, x) \/ x = n
  BY PushStack DEF Types, Nodes, NodesOnce
<1>2. \A u \in Threads \ {t} :
         /\ th'[u].node = th[u].node
         /\ th'[u].pc = "d_arm" => th[u].pc = "d_arm"
         /\ th'[u].pc = "p_push" <=> th[u].pc = "p_push"
  BY DEF Others, Still
<1>3. n \notin armed /\ \A u \in Threads : th[u].node = n => u = t
  BY DEF Nodes, NodesOnce
<1>4. NodesOnce'
  <2>1. \A x \in armed' : ~InQueue(available', x) /\ handle'[x] \in Coros
    BY <1>1, <1>3 DEF Nodes, NodesOnce
  <2>2. ASSUME NEW u \in Threads, th'[u].node \in EventfdNodes
        PROVE  /\ th'[u].node \notin armed' /\ ~InQueue(available', th'[u].node)
               /\ \A v \in Threads : th'[v].node = th'[u].node => v = u
               /\ th'[u].pc = "d_arm" => handle'[th'[u].node] \in Coros
    <3>1. u # t /\ th'[u].node = th[u].node /\ th[u].node # n
      BY <1>2, <1>3, <2>2, Constants
    <3>2. QED
      BY <1>1, <1>2, <1>3, <2>2, <3>1, Constants DEF Nodes, NodesOnce, Pc
  <2>3. QED
    BY <1>1, <2>1, <2>2 DEF NodesOnce, Pc
<1>5. NodesKept'
  BY <1>1, <1>2 DEF Nodes, NodesKept
<1>6. Fits'
  <2>1. ASSUME NEW m \in EventfdNodes, m \notin armed'
        PROVE  \/ (epoll_op'[m] = "ADD") = (m \notin registered')
               \/ \E u \in Threads : th'[u].pc = "p_push" /\ th'[u].node = m
    <3>1. CASE m = n
      BY <3>1
    <3>2. CASE m # n
      <4>1. epoll_op'[m] = epoll_op[m]
        BY <3>2
      <4>2. CASE (epoll_op[m] = "ADD") = (m \notin registered)
        BY <4>1, <4>2
      <4>3. CASE \E u \in Threads : th[u].pc = "p_push" /\ th[u].node = m
        BY <1>2, <3>2, <4>3
      <4>4. QED
        BY <2>1, <4>2, <4>3 DEF Nodes, Fits, Pc
    <3>3. QED
      BY <3>1, <3>2
  <2>2. \A u \in Threads : th'[u].pc = "p_push" => th'[u].node \in registered'
    BY <1>2 DEF Nodes, Fits, Pc
  <2>3. QED
    BY <2>1, <2>2 DEF Fits, Pc
<1>7. QED
  BY <1>4, <1>5, <1>6 DEF Nodes

\* The node takes a tick; the thread keeps it.
LEMMA NodesGet ==
  ASSUME Types, Shaped, Nodes, NEW t \in Threads, DispatchGet(t)
  PROVE  Nodes'
<1>1. th[t].node \in EventfdNodes /\ Pc(t) = "d_get"
  BY DEF DispatchGet, Shaped, Shape, ShapeOf, WithNode
<1>2. CASE next_tick_queue = <<>>
  <2>1. UNCHANGED nodes
    BY <1>2 DEF DispatchGet, TickGet, nodes
  <2>2. Others(t) /\ th'[t].node = th[t].node /\ th'[t].pc = "d_push"
    BY <1>2, DispatchGetDoes DEF Becomes
  <2>3. QED
    BY <1>1, <2>1, <2>2, NodesSame
<1>3. CASE next_tick_queue # <<>>
  <2>1. PICK c \in Coros : c = Head(next_tick_queue)
    BY <1>3, TailType DEF Types
  <2>2. /\ available' = available /\ epoll_op' = epoll_op /\ registered' = registered
        /\ armed' = armed /\ handle' = [handle EXCEPT ![th[t].node] = c]
    BY <1>3, <2>1 DEF DispatchGet
  <2>3. handle'[th[t].node] = c /\ \A n \in EventfdNodes : n # th[t].node => handle'[n] = handle[n]
    BY <1>1, <2>2 DEF Types
  <2>4. /\ th'[t].pc = "d_arm" /\ th'[t].node = th[t].node
        /\ \A u \in Threads \ {t} : th'[u].node = th[u].node /\
              (th'[u].pc = th[u].pc \/ (th'[u].pc = "f_clear" /\ th[u].pc = "f_sleep"))
    BY <1>3, DispatchGetDoes DEF Becomes, Still
  <2>5. NodesOnce'
    <3>1. \A x \in armed' : ~InQueue(available', x) /\ handle'[x] \in Coros
      BY <1>1, <2>2, <2>3 DEF Nodes, NodesOnce, Types
    <3>2. ASSUME NEW u \in Threads, th'[u].node \in EventfdNodes
          PROVE  /\ th'[u].node \notin armed' /\ ~InQueue(available', th'[u].node)
                 /\ \A v \in Threads : th'[v].node = th'[u].node => v = u
                 /\ th'[u].pc = "d_arm" => handle'[th'[u].node] \in Coros
      <4>1. th'[u].node = th[u].node /\ \A v \in Threads : th'[v].node = th[v].node
        BY <2>4
      <4>2. th'[u].pc = "d_arm" => handle'[th'[u].node] \in Coros
        <5>1. CASE u = t
          BY <2>3, <2>4, <5>1
        <5>2. CASE u # t
          BY <1>1, <2>3, <2>4, <3>2, <5>2 DEF Nodes, NodesOnce, Pc
        <5>3. QED
          BY <5>1, <5>2
      <4>3. QED
        BY <2>2, <3>2, <4>1, <4>2 DEF Nodes, NodesOnce
    <3>3. QED
      BY <2>2, <3>1, <3>2 DEF Nodes, NodesOnce, Pc
  <2>6. NodesKept'
    BY <1>1, <2>2, <2>4 DEF Nodes, NodesKept
  <2>7. Fits'
    <3>1. \A u \in Threads : /\ th'[u].pc = "p_push" <=> th[u].pc = "p_push"
                             /\ th'[u].node = th[u].node
      BY <1>1, <2>4 DEF Pc
    <3>2. QED
      BY <2>2, <3>1 DEF Nodes, Fits, Pc
  <2>8. QED
    BY <2>5, <2>6, <2>7 DEF Nodes
<1>4. QED
  BY <1>2, <1>3

\* The node is armed.
LEMMA NodesArm ==
  ASSUME Types, Shaped, Nodes, NEW t \in Threads, DispatchArm(t)
  PROVE  Nodes'
<1>1. PICK n \in EventfdNodes : n = th[t].node /\ Pc(t) = "d_arm"
  BY DEF DispatchArm, Shaped, Shape, ShapeOf, WithNode
<1>2. /\ available' = available /\ epoll_op' = epoll_op /\ registered' = registered \cup {n}
      /\ armed' = armed \cup {n} /\ handle' = handle
  BY <1>1 DEF DispatchArm
<1>3. /\ th'[t].pc = "d_pop" /\ th'[t].node = Null
      /\ \A u \in Threads \ {t} : th'[u].node = th[u].node /\
            (th'[u].pc = th[u].pc \/ (th'[u].pc = "f_clear" /\ th[u].pc = "f_sleep"))
  BY DispatchArmDoes DEF Becomes, Still
<1>4. /\ n \notin armed /\ ~InQueue(available, n) /\ handle[n] \in Coros
      /\ \A u \in Threads : th[u].node = n => u = t
  BY <1>1 DEF Nodes, NodesOnce
<1>5. NodesOnce'
  <2>1. \A x \in armed' : ~InQueue(available', x) /\ handle'[x] \in Coros
    BY <1>2, <1>4 DEF Nodes, NodesOnce
  <2>2. ASSUME NEW u \in Threads, th'[u].node \in EventfdNodes
        PROVE  /\ th'[u].node \notin armed' /\ ~InQueue(available', th'[u].node)
               /\ \A v \in Threads : th'[v].node = th'[u].node => v = u
               /\ th'[u].pc = "d_arm" => handle'[th'[u].node] \in Coros
    <3>1. u # t /\ th'[u].node = th[u].node /\ th[u].node # n
      BY <1>3, <1>4, <2>2, Constants
    <3>2. QED
      BY <1>2, <1>3, <1>4, <2>2, <3>1, Constants DEF Nodes, NodesOnce, Pc
  <2>3. QED
    BY <1>2, <2>1, <2>2 DEF Nodes, NodesOnce, Pc
<1>6. NodesKept'
  BY <1>1, <1>2, <1>3 DEF Nodes, NodesKept
<1>7. Fits'
  <2>1. ASSUME NEW m \in EventfdNodes, m \notin armed'
        PROVE  \/ (epoll_op'[m] = "ADD") = (m \notin registered')
               \/ \E u \in Threads : th'[u].pc = "p_push" /\ th'[u].node = m
    <3>1. m # n /\ m \notin armed /\ (m \in registered' <=> m \in registered)
      BY <1>2, <2>1
    <3>2. CASE (epoll_op[m] = "ADD") = (m \notin registered)
      BY <1>2, <3>1, <3>2
    <3>3. CASE \E u \in Threads : th[u].pc = "p_push" /\ th[u].node = m
      BY <1>1, <1>3, <3>1, <3>3 DEF Pc
    <3>4. QED
      BY <3>1, <3>2, <3>3 DEF Nodes, Fits, Pc
  <2>2. \A u \in Threads : th'[u].pc = "p_push" => th'[u].node \in registered'
    BY <1>2, <1>3 DEF Nodes, Fits, Pc
  <2>3. QED
    BY <2>1, <2>2 DEF Fits, Pc
<1>8. QED
  BY <1>5, <1>6, <1>7 DEF Nodes

\* A worker takes a node that was reported.
LEMMA NodesPoll ==
  ASSUME Types, Shaped, Nodes, NEW t \in Threads, NEW n \in EventfdNodes, PollEventFd(t, n)
  PROVE  Nodes'
<1>1. n \in armed /\ handle[n] \in Coros /\ Pc(t) = "poll" /\ n \in registered
  BY DEF PollEventFd, Nodes, NodesOnce, Types
<1>2. /\ available' = available /\ epoll_op' = epoll_op /\ registered' = registered
      /\ armed' = armed \ {n} /\ handle' = handle
  BY DEF PollEventFd
<1>3. /\ th'[t].pc = "p_push" /\ th'[t].node = n
      /\ \A u \in Threads \ {t} : th'[u].node = th[u].node /\
            (th'[u].pc = th[u].pc \/ (th'[u].pc = "f_clear" /\ th[u].pc = "f_sleep"))
  BY <1>1, PollEventFdDoes DEF Becomes, Still
<1>4. ~InQueue(available, n) /\ (\A u \in Threads : th[u].node # n) /\ th[t].node = Null
  <2>1. ~InQueue(available, n) /\ (\A u \in Threads : th[u].node # n)
    BY <1>1 DEF Nodes, NodesOnce
  <2>2. th[t].node \in EventfdNodes \cup {Null} /\ Shape(t)
    BY Fields DEF Types, Shaped
  <2>3. th[t].node = Null
    BY <1>1, <2>2 DEF Shape, ShapeOf, WithNode
  <2>4. QED
    BY <2>1, <2>3
<1>5. NodesOnce'
  <2>1. \A x \in armed' : ~InQueue(available', x) /\ handle'[x] \in Coros
    BY <1>2 DEF Nodes, NodesOnce
  <2>2. ASSUME NEW u \in Threads, th'[u].node \in EventfdNodes
        PROVE  /\ th'[u].node \notin armed' /\ ~InQueue(available', th'[u].node)
               /\ \A v \in Threads : th'[v].node = th'[u].node => v = u
               /\ th'[u].pc = "d_arm" => handle'[th'[u].node] \in Coros
    <3>1. CASE u = t
      BY <1>2, <1>3, <1>4, <3>1
    <3>2. CASE u # t
      BY <1>2, <1>3, <1>4, <2>2, <3>2 DEF Nodes, NodesOnce, Pc
    <3>3. QED
      BY <3>1, <3>2
  <2>3. QED
    BY <1>2, <2>1, <2>2 DEF Nodes, NodesOnce, Pc
<1>6. NodesKept'
  <2>1. ASSUME NEW m \in EventfdNodes
        PROVE m \in armed' \/ InQueue(available', m) \/ \E u \in Threads : th'[u].node = m
    <3>1. CASE m = n
      BY <1>3, <3>1
    <3>2. CASE m # n
      <4>1. CASE \E u \in Threads : th[u].node = m
        <5>1. PICK u \in Threads : th[u].node = m
          BY <4>1
        <5>2. u # t
          BY <1>4, <5>1, Constants
        <5>3. QED
          BY <1>3, <5>1, <5>2
      <4>2. QED
        BY <1>2, <3>2, <4>1 DEF Nodes, NodesKept
    <3>3. QED
      BY <3>1, <3>2
  <2>2. QED
    BY <2>1 DEF NodesKept
<1>7. Fits'
  <2>1. ASSUME NEW m \in EventfdNodes, m \notin armed'
        PROVE  \/ (epoll_op'[m] = "ADD") = (m \notin registered')
               \/ \E u \in Threads : th'[u].pc = "p_push" /\ th'[u].node = m
    <3>1. CASE m = n
      BY <1>3, <3>1
    <3>2. CASE m # n
      <4>1. m \notin armed
        BY <1>2, <2>1, <3>2
      <4>2. CASE (epoll_op[m] = "ADD") = (m \notin registered)
        BY <1>2, <4>2
      <4>3. CASE \E u \in Threads : th[u].pc = "p_push" /\ th[u].node = m
        BY <1>1, <1>3, <4>3 DEF Pc
      <4>4. QED
        BY <4>1, <4>2, <4>3 DEF Nodes, Fits, Pc
    <3>3. QED
      BY <3>1, <3>2
  <2>2. \A u \in Threads : th'[u].pc = "p_push" => th'[u].node \in registered'
    BY <1>1, <1>2, <1>3 DEF Nodes, Fits, Pc
  <2>3. QED
    BY <2>1, <2>2 DEF Fits, Pc
<1>8. QED
  BY <1>5, <1>6, <1>7 DEF Nodes

\* A thread without a node that gets none.
LEMMA NoNode ==
  ASSUME Types, Shaped, NEW t \in Threads, Pc(t) \notin WithNode
  PROVE  th[t].node = Null
<1>1. th[t].node \in EventfdNodes \cup {Null} /\ Shape(t)
  BY Fields DEF Types, Shaped
<1>2. QED
  BY <1>1 DEF Shape, ShapeOf

\* Every step keeps each eventfd node in one place, with the operation that fits.
LEMMA NodesStep ==
  ASSUME Types, Shaped, Nodes, NEW t \in Threads, StepOf(t)
  PROVE  Nodes'
<1>0. NodesOnce /\ Others(t) /\ Types' /\ Shaped'
  BY ShapedStep, TypesStep DEF Nodes
<1>1. CASE DispatchPop(t)
  BY <1>1, NodesPop
<1>2. CASE DispatchGet(t)
  BY <1>2, NodesGet
<1>3. CASE DispatchArm(t)
  BY <1>3, NodesArm
<1>4. CASE DispatchArmFails(t)
  <2>1. th'[t].node = th[t].node /\ th'[t].pc = "d_push" /\ Pc(t) = "d_arm" /\ UNCHANGED nodes
    BY <1>4, DispatchArmFailsDoes DEF Becomes, DispatchArmFails, TickUnget
  <2>2. QED
    BY <1>0, <2>1, NodesSame
<1>5. CASE DispatchPush(t)
  <2>1. Pc(t) = "d_push" /\ Returns(t)
    BY <1>5, DispatchPushDoes
  <2>2. th'[t].node = Null /\ th'[t].pc \in {"get", "f_get", "finish", "setup", "run", "resume"}
    BY <2>1 DEF Returns, Becomes, Home
  <2>3. /\ available' = <<th[t].node>> \o available /\ handle' = handle /\ epoll_op' = epoll_op
        /\ registered' = registered /\ armed' = armed
    BY <1>5 DEF DispatchPush
  <2>4. th[t].node \in EventfdNodes
    BY <2>1 DEF Shaped, Shape, ShapeOf, WithNode
  <2>5. (epoll_op[th[t].node] = "ADD") = (th[t].node \notin registered)
    <3>1. th[t].node \notin armed /\ \A u \in Threads : th[u].node = th[t].node => u = t
      BY <2>4 DEF Nodes, NodesOnce
    <3>2. QED
      BY <2>1, <2>4, <3>1 DEF Nodes, Fits
  <2>6. QED
    BY <1>0, <2>2, <2>3, <2>4, <2>5, NodesPush
<1>6. CASE PutTick(t)
  <2>1. Pc(t) \notin WithNode /\ UNCHANGED nodes
    BY <1>6, PutTickDoes DEF WithNode, PutTick, TickPut
  <2>2. th[t].node = Null
    BY <2>1, NoNode
  <2>3. th'[t].node = Null /\ th'[t].pc \notin {"d_arm", "p_push"}
    BY <1>6, <2>1, <2>2, Fields, PutTickDoes DEF Becomes, Returns, Home, Types
  <2>4. QED
    BY <1>0, <2>1, <2>2, <2>3, NodesSame DEF WithNode
<1>7. CASE PutRequest(t)
  <2>1. Pc(t) \notin WithNode /\ UNCHANGED nodes
    BY <1>7, PutRequestDoes DEF WithNode, PutRequest
  <2>2. th[t].node = Null
    BY <2>1, NoNode
  <2>3. th'[t].node = Null /\ th'[t].pc \notin {"d_arm", "p_push"}
    BY <1>7, <2>1, <2>2, Fields, PutRequestDoes DEF Becomes, Returns, Home, Types
  <2>4. QED
    BY <1>0, <2>1, <2>2, <2>3, NodesSame DEF WithNode
<1>8. CASE SetItem(t)
  <2>1. Pc(t) \notin WithNode /\ UNCHANGED nodes
    BY <1>8, SetItemDoes DEF WithNode, SetItem
  <2>2. th[t].node = Null
    BY <2>1, NoNode
  <2>3. th'[t].node = Null /\ th'[t].pc \notin {"d_arm", "p_push"}
    BY <1>8, <2>1, <2>2, Fields, SetItemDoes DEF Becomes, Returns, Home, Types
  <2>4. QED
    BY <1>0, <2>1, <2>2, <2>3, NodesSame DEF WithNode
<1>9. CASE WakeFs(t)
  <2>1. Pc(t) \notin WithNode /\ UNCHANGED nodes
    BY <1>9, WakeFsStep DEF WithNode, WakeFs
  <2>2. th[t].node = Null
    BY <2>1, NoNode
  <2>3. th'[t].node = Null /\ th'[t].pc \notin {"d_arm", "p_push"}
    BY <1>9, <2>1, <2>2, Fields, WakeFsStep DEF Becomes, Returns, Home, Types
  <2>4. QED
    BY <1>0, <2>1, <2>2, <2>3, NodesSame DEF WithNode
<1>10. CASE Finish(t)
  <2>1. Pc(t) \notin WithNode /\ UNCHANGED nodes
    BY <1>10, FinishStep DEF WithNode, Finish
  <2>2. th[t].node = Null
    BY <2>1, NoNode
  <2>3. th'[t].node = Null /\ th'[t].pc \notin {"d_arm", "p_push"}
    BY <1>10, <2>1, <2>2, Fields, FinishStep DEF Becomes, Returns, Home, Types
  <2>4. QED
    BY <1>0, <2>1, <2>2, <2>3, NodesSame DEF WithNode
<1>11. CASE RequestEnd(t)
  <2>1. Pc(t) \notin WithNode /\ UNCHANGED nodes
    BY <1>11, RequestEndDoes DEF WithNode, RequestEnd, BeginRequest, beginOneEvent
  <2>2. th[t].node = Null
    BY <2>1, NoNode
  <2>3. th'[t].node = Null /\ th'[t].pc \notin {"d_arm", "p_push"}
    BY <1>11, <2>1, <2>2, Fields, RequestEndDoes DEF Becomes, Returns, Home, Types
  <2>4. QED
    BY <1>0, <2>1, <2>2, <2>3, NodesSame DEF WithNode
<1>12. CASE WriteFinal(t)
  <2>1. Pc(t) \notin WithNode /\ UNCHANGED nodes
    BY <1>12, WriteFinalDoes DEF WithNode, WriteFinal
  <2>2. th[t].node = Null
    BY <2>1, NoNode
  <2>3. th'[t].node = Null /\ th'[t].pc \notin {"d_arm", "p_push"}
    BY <1>12, <2>1, <2>2, Fields, WriteFinalDoes DEF Becomes, Returns, Home, Types
  <2>4. QED
    BY <1>0, <2>1, <2>2, <2>3, NodesSame DEF WithNode
<1>13. CASE WorkerGet(t)
  <2>1. Pc(t) \notin WithNode /\ UNCHANGED nodes
    BY <1>13, WorkerGetDoes DEF WithNode, WorkerGet, TickGet
  <2>2. th[t].node = Null
    BY <2>1, NoNode
  <2>3. th'[t].node = Null /\ th'[t].pc \notin {"d_arm", "p_push"}
    BY <1>13, <2>1, <2>2, Fields, WorkerGetDoes DEF Becomes, Returns, Home, Types
  <2>4. QED
    BY <1>0, <2>1, <2>2, <2>3, NodesSame DEF WithNode
<1>14. ASSUME NEW n \in EventfdNodes, PollEventFd(t, n) PROVE Nodes'
  BY <1>14, NodesPoll
<1>15. CASE PollPush(t)
  <2>1. Pc(t) = "p_push" /\ th'[t].node = Null /\ th'[t].pc = "resume"
    BY <1>15, PollPushDoes DEF Becomes
  <2>2. th[t].node \in EventfdNodes
    BY <2>1 DEF Shaped, Shape, ShapeOf, WithNode
  <2>3. /\ available' = <<th[t].node>> \o available /\ handle' = handle
        /\ registered' = registered /\ armed' = armed
        /\ epoll_op' = [epoll_op EXCEPT ![th[t].node] = "MOD"]
    BY <1>15 DEF PollPush
  <2>4. /\ epoll_op'[th[t].node] = "MOD"
        /\ \A n \in EventfdNodes : n # th[t].node => epoll_op'[n] = epoll_op[n]
    BY <2>2, <2>3 DEF Types
  <2>5. th[t].node \in registered
    BY <2>1 DEF Nodes, Fits
  <2>6. (epoll_op'[th[t].node] = "ADD") = (th[t].node \notin registered)
    BY <2>4, <2>5
  <2>7. QED
    BY <1>0, <2>1, <2>2, <2>3, <2>4, <2>6, NodesPush
<1>16. CASE PollStop(t)
  <2>1. Pc(t) \notin WithNode /\ UNCHANGED nodes
    BY <1>16, PollStopDoes DEF WithNode, PollStop
  <2>2. th[t].node = Null
    BY <2>1, NoNode
  <2>3. th'[t].node = Null /\ th'[t].pc \notin {"d_arm", "p_push"}
    BY <1>16, <2>1, <2>2, Fields, PollStopDoes DEF Becomes, Returns, Home, Types
  <2>4. QED
    BY <1>0, <2>1, <2>2, <2>3, NodesSame DEF WithNode
<1>17. ASSUME NEW c \in Coros, PollFd(t, c) PROVE Nodes'
  <2>1. Pc(t) \notin WithNode /\ UNCHANGED nodes
    BY <1>17, PollFdDoes DEF WithNode, PollFd
  <2>2. th[t].node = Null
    BY <2>1, NoNode
  <2>3. th'[t].node = Null /\ th'[t].pc \notin {"d_arm", "p_push"}
    BY <1>17, <2>1, <2>2, Fields, PollFdDoes DEF Becomes, Returns, Home, Types
  <2>4. QED
    BY <1>0, <2>1, <2>2, <2>3, NodesSame DEF WithNode
<1>18. CASE Resume(t)
  <2>1. Pc(t) \notin WithNode /\ UNCHANGED nodes
    BY <1>18, ResumeDoes DEF WithNode, Resume
  <2>2. th[t].node = Null
    BY <2>1, NoNode
  <2>3. th'[t].node = Null /\ th'[t].pc \notin {"d_arm", "p_push"}
    BY <1>18, <2>1, <2>2, Fields, ResumeDoes DEF Becomes, Returns, Home, Types
  <2>4. QED
    BY <1>0, <2>1, <2>2, <2>3, NodesSame DEF WithNode
<1>19. ASSUME NEW c \in Coros, Call(t, c) PROVE Nodes'
  <2>1. Pc(t) \notin WithNode /\ UNCHANGED nodes
    BY <1>19, CallDoes DEF WithNode, Call, BeginTick, beginOneEvent
  <2>2. th[t].node = Null
    BY <2>1, NoNode
  <2>3. th'[t].node = Null /\ th'[t].pc \notin {"d_arm", "p_push"}
    BY <1>19, <2>1, <2>2, Fields, CallDoes DEF Becomes, Returns, Home, Types
  <2>4. QED
    BY <1>0, <2>1, <2>2, <2>3, NodesSame DEF WithNode
<1>20. CASE t = Main /\ run
  <2>1. Pc(t) \notin WithNode /\ UNCHANGED nodes
    BY <1>20, runDoes DEF WithNode, run
  <2>2. th[t].node = Null
    BY <2>1, NoNode
  <2>3. th'[t].node = Null /\ th'[t].pc \notin {"d_arm", "p_push"}
    BY <1>20, <2>1, <2>2, Fields, runDoes DEF Becomes, Returns, Home, Types
  <2>4. QED
    BY <1>0, <2>1, <2>2, <2>3, NodesSame DEF WithNode
<1>21. CASE CoroReturns(t)
  <2>1. Pc(t) \notin WithNode /\ UNCHANGED nodes
    BY <1>21, CoroReturnsStep DEF WithNode, CoroReturns
  <2>2. th[t].node = Null
    BY <2>1, NoNode
  <2>3. th'[t].node = Null /\ th'[t].pc \notin {"d_arm", "p_push"}
    BY <1>21, <2>1, <2>2, Fields, CoroReturnsStep DEF Becomes, Returns, Home, Types
  <2>4. QED
    BY <1>0, <2>1, <2>2, <2>3, NodesSame DEF WithNode
<1>22. CASE Yield(t)
  <2>1. Pc(t) \notin WithNode /\ UNCHANGED nodes
    BY <1>22, YieldDoes DEF WithNode, Yield, Suspended, beginOneEvent
  <2>2. th[t].node = Null
    BY <2>1, NoNode
  <2>3. th'[t].node = Null /\ th'[t].pc \notin {"d_arm", "p_push"}
    BY <1>22, <2>1, <2>2, Fields, YieldDoes DEF Becomes, Returns, Home, Types
  <2>4. QED
    BY <1>0, <2>1, <2>2, <2>3, NodesSame DEF WithNode
<1>23. CASE FsRequest(t)
  <2>1. Pc(t) \notin WithNode /\ UNCHANGED nodes
    BY <1>23, FsRequestDoes DEF WithNode, FsRequest, Suspended, beginOneEvent
  <2>2. th[t].node = Null
    BY <2>1, NoNode
  <2>3. th'[t].node = Null /\ th'[t].pc \notin {"d_arm", "p_push"}
    BY <1>23, <2>1, <2>2, Fields, FsRequestDoes DEF Becomes, Returns, Home, Types
  <2>4. QED
    BY <1>0, <2>1, <2>2, <2>3, NodesSame DEF WithNode
<1>24. CASE FsClose(t)
  <2>1. Pc(t) \notin WithNode /\ UNCHANGED nodes
    BY <1>24, FsCloseDoes DEF WithNode, FsClose, BeginRequest, beginOneEvent
  <2>2. th[t].node = Null
    BY <2>1, NoNode
  <2>3. th'[t].node = Null /\ th'[t].pc \notin {"d_arm", "p_push"}
    BY <1>24, <2>1, <2>2, Fields, FsCloseDoes DEF Becomes, Returns, Home, Types
  <2>4. QED
    BY <1>0, <2>1, <2>2, <2>3, NodesSame DEF WithNode
<1>25. CASE Watch(t)
  <2>1. Pc(t) \notin WithNode /\ UNCHANGED nodes
    BY <1>25, WatchDoes DEF WithNode, Watch
  <2>2. th[t].node = Null
    BY <2>1, NoNode
  <2>3. th'[t].node = Null /\ th'[t].pc \notin {"d_arm", "p_push"}
    BY <1>25, <2>1, <2>2, Fields, WatchDoes DEF Becomes, Returns, Home, Types
  <2>4. QED
    BY <1>0, <2>1, <2>2, <2>3, NodesSame DEF WithNode
<1>26. CASE linuxAddFd(t)
  <2>1. Pc(t) \notin WithNode /\ UNCHANGED nodes
    BY <1>26, linuxAddFdDoes DEF WithNode, linuxAddFd, Suspended, beginOneEvent
  <2>2. th[t].node = Null
    BY <2>1, NoNode
  <2>3. th'[t].node = Null /\ th'[t].pc \notin {"d_arm", "p_push"}
    BY <1>26, <2>1, <2>2, Fields, linuxAddFdDoes DEF Becomes, Returns, Home, Types
  <2>4. QED
    BY <1>0, <2>1, <2>2, <2>3, NodesSame DEF WithNode
<1>27. CASE CtlAddFd(t)
  <2>1. Pc(t) \notin WithNode /\ UNCHANGED nodes
    BY <1>27, CtlAddFdDoes DEF WithNode, CtlAddFd
  <2>2. th[t].node = Null
    BY <2>1, NoNode
  <2>3. th'[t].node = Null /\ th'[t].pc \notin {"d_arm", "p_push"}
    BY <1>27, <2>1, <2>2, Fields, CtlAddFdDoes DEF Becomes, Returns, Home, Types
  <2>4. QED
    BY <1>0, <2>1, <2>2, <2>3, NodesSame DEF WithNode
<1>28. CASE linuxRemoveFd(t)
  <2>1. Pc(t) \notin WithNode /\ UNCHANGED nodes
    BY <1>28, linuxRemoveFdDoes DEF WithNode, linuxRemoveFd
  <2>2. th[t].node = Null
    BY <2>1, NoNode
  <2>3. th'[t].node = Null /\ th'[t].pc \notin {"d_arm", "p_push"}
    BY <1>28, <2>1, <2>2, Fields, linuxRemoveFdDoes DEF Becomes, Returns, Home, Types
  <2>4. QED
    BY <1>0, <2>1, <2>2, <2>3, NodesSame DEF WithNode
<1>29. CASE t = Fs /\ FsClearItem
  <2>1. Pc(t) \notin WithNode /\ UNCHANGED nodes
    BY <1>29, FsClearItemDoes DEF WithNode, FsClearItem
  <2>2. th[t].node = Null
    BY <2>1, NoNode
  <2>3. th'[t].node = Null /\ th'[t].pc \notin {"d_arm", "p_push"}
    BY <1>29, <2>1, <2>2, Fields, FsClearItemDoes DEF Becomes, Returns, Home, Types
  <2>4. QED
    BY <1>0, <2>1, <2>2, <2>3, NodesSame DEF WithNode
<1>30. CASE t = Fs /\ FsGet
  <2>1. Pc(t) \notin WithNode /\ UNCHANGED nodes
    BY <1>30, FsGetDoes DEF WithNode, FsGet
  <2>2. th[t].node = Null
    BY <2>1, NoNode
  <2>3. th'[t].node = Null /\ th'[t].pc \notin {"d_arm", "p_push"}
    BY <1>30, <2>1, <2>2, Fields, FsGetDoes DEF Becomes, Returns, Home, Types
  <2>4. QED
    BY <1>0, <2>1, <2>2, <2>3, NodesSame DEF WithNode
<1>31. CASE t = Fs /\ FsTick
  <2>1. Pc(t) \notin WithNode /\ UNCHANGED nodes
    BY <1>31, FsTickDoes DEF WithNode, FsTick, Suspended, beginOneEvent
  <2>2. th[t].node = Null
    BY <2>1, NoNode
  <2>3. th'[t].node = Null /\ th'[t].pc \notin {"d_arm", "p_push"}
    BY <1>31, <2>1, <2>2, Fields, FsTickDoes DEF Becomes, Returns, Home, Types
  <2>4. QED
    BY <1>0, <2>1, <2>2, <2>3, NodesSame DEF WithNode
<1>32. CASE t = Fs /\ FsWait
  <2>1. Pc(t) \notin WithNode /\ UNCHANGED nodes
    BY <1>32, FsWaitDoes DEF WithNode, FsWait
  <2>2. th[t].node = Null
    BY <2>1, NoNode
  <2>3. th'[t].node = Null /\ th'[t].pc \notin {"d_arm", "p_push"}
    BY <1>32, <2>1, <2>2, Fields, FsWaitDoes DEF Becomes, Returns, Home, Types
  <2>4. QED
    BY <1>0, <2>1, <2>2, <2>3, NodesSame DEF WithNode
<1>33. CASE t = Fs /\ FsInterrupted
  <2>1. Pc(t) \notin WithNode /\ UNCHANGED nodes
    BY <1>33, FsInterruptedDoes DEF WithNode, FsInterrupted
  <2>2. th[t].node = Null
    BY <2>1, NoNode
  <2>3. th'[t].node = Null /\ th'[t].pc \notin {"d_arm", "p_push"}
    BY <1>33, <2>1, <2>2, Fields, FsInterruptedDoes DEF Becomes, Returns, Home, Types
  <2>4. QED
    BY <1>0, <2>1, <2>2, <2>3, NodesSame DEF WithNode
<1>34. QED
  BY <1>1, <1>2, <1>3, <1>4, <1>5, <1>6, <1>7, <1>8, <1>9, <1>10, <1>11, <1>12, <1>13, <1>14,
    <1>15, <1>16, <1>17, <1>18, <1>19, <1>20, <1>21, <1>22, <1>23, <1>24, <1>25, <1>26, <1>27,
    <1>28, <1>29, <1>30, <1>31, <1>32, <1>33
     DEF StepOf, Shared, Dispatch, CoroStep

\* Every step keeps the types, the shapes and the nodes.
LEMMA BaseStep ==
  ASSUME Base, NEW t \in Threads, StepOf(t)
  PROVE  Base' /\ Others(t) /\ Shape(t)'
<1>1. Types /\ Shaped /\ Nodes /\ NodesOnce
  BY DEF Base, Nodes
<1>2. QED
  BY <1>1, TypesStep, ShapedStep, NodesStep DEF Base

\* Nothing changes.
LEMMA BaseStutter ==
  ASSUME Base, UNCHANGED vars
  PROVE  Base'
<1>1. Types'
  BY DEF Base, Types, vars, tickq, nodes, fsq, cos, watch
<1>2. Shaped'
  BY DEF Base, Shaped, Shape, Pc, vars
<1>3. Nodes'
  BY DEF Base, Nodes, NodesOnce, NodesKept, Fits, Pc, vars, nodes
<1>4. QED
  BY <1>1, <1>2, <1>3 DEF Base

\* The threads, at first.
LEMMA InitThreads ==
  ASSUME Init, NEW t \in Threads
  PROVE  /\ th[t].pc = IF t = Main THEN "setup" ELSE IF t = Fs THEN "f_clear" ELSE "get"
         /\ th[t].ret = "none" /\ th[t].after = "finish" /\ th[t].cur = Null
         /\ th[t].arg = Null /\ th[t].node = Null /\ th[t] \in ThRec
<1>1. PICK pc \in PcStates : pc = CASE t = Main -> "setup" [] t = Fs -> "f_clear" [] OTHER -> "get"
  BY Constants DEF PcStates
<1>2. th[t] = Fresh(pc)
  BY <1>1 DEF Init
<1>3. pc = IF t = Main THEN "setup" ELSE IF t = Fs THEN "f_clear" ELSE "get"
  BY <1>1, Constants
<1>4. QED
  BY <1>2, <1>3, FreshFields

\* The types, the shapes and the nodes hold at first.
LEMMA InitBase == Init => Base
<1> SUFFICES ASSUME Init PROVE Base
  OBVIOUS
<1>1. th \in [Threads -> ThRec]
  BY InitThreads DEF Init
<1> DEFINE k == Cardinality(EventfdNodes)
<1>2. k \in Nat
  BY LoopAssumption, FS_CardinalityType
<1>3. /\ available \in [1..k -> EventfdNodes]
      /\ \A i, j \in 1..k : available[i] = available[j] => i = j
  BY DEF Init
<1> HIDE DEF k
<1>4. available \in Seq(EventfdNodes) /\ Len(available) = k
  BY <1>2, <1>3
<1>5. Types
  <2>1. 0 \in 0..Edges /\ Operations \in 0..Operations /\ 0 \in 0..CtlFailures
    BY LoopAssumption
  <2>2. /\ handle \in [EventfdNodes -> Coros \cup {Null}]
        /\ epoll_op \in [EventfdNodes -> {"ADD", "MOD"}]
        /\ coro \in [Coros -> {"unstarted", "ticked", "running", "waiting", "polling", "done"}]
    BY DEF Init
  <2>3. left \in [Coros -> 0..Operations] /\ edges \in [Coros -> 0..Edges]
    BY <2>1 DEF Init
  <2>4. /\ pending_event_count = 1 /\ next_tick_queue = <<>> /\ lost = {} /\ shadowed = FALSE
        /\ registered = {} /\ armed = {} /\ final_eventfd = FALSE /\ fs_queue = <<>>
        /\ fs_queue_item = 0 /\ watching = {} /\ failures = 0
    BY DEF Init
  <2>5. <<>> \in Seq(Coros) /\ <<>> \in Seq(Requests)
    OBVIOUS
  <2>6. /\ next_tick_queue \in Seq(Coros) /\ fs_queue \in Seq(Requests)
        /\ pending_event_count \in Int /\ failures \in 0..CtlFailures
    BY <2>1, <2>4, <2>5
  <2>7. QED
    BY <1>1, <1>4, <2>2, <2>3, <2>4, <2>6 DEF Types
<1>6. Shaped
  <2>1. ASSUME NEW t \in Threads PROVE Shape(t)
    BY InitThreads, Constants
       DEF Shape, ShapeOf, Pc, WithNode, WithArg, InDispatch, InRequest
  <2>2. QED
    BY <2>1 DEF Shaped
<1>7. NodesOnce
  <2>1. armed = {} /\ \A t \in Threads : th[t].node \notin EventfdNodes
    BY InitThreads, Constants DEF Init
  <2>2. Distinct(available)
    BY <1>3, <1>4 DEF Distinct
  <2>3. QED
    BY <2>1, <2>2 DEF NodesOnce
<1>8. NodesKept
  <2>1. available \in Injection(1..k, EventfdNodes)
    BY <1>3 DEF Injection, IsInjective
  <2>2. IsFiniteSet(1..k) /\ Cardinality(1..k) = k
    <3>1. 1 \in Int /\ k \in Int
      BY <1>2
    <3>2. Cardinality(1..k) = (IF 1 > k THEN 0 ELSE k - 1 + 1) /\ IsFiniteSet(1..k)
      BY <3>1, FS_Interval
    <3>3. QED
      BY <1>2, <3>2
  <2>3. available \in Surjection(1..k, EventfdNodes)
    BY <2>1, <2>2, LoopAssumption, FS_Injection DEF k
  <2>4. \A n \in EventfdNodes : \E i \in 1..k : available[i] = n
    BY <2>3 DEF Surjection
  <2>5. QED
    BY <1>4, <2>4 DEF NodesKept, InQueue
<1>9. Fits
  <2>1. /\ \A n \in EventfdNodes : epoll_op[n] = "ADD" /\ n \notin registered
        /\ \A t \in Threads : Pc(t) # "p_push"
    BY InitThreads DEF Init, Pc
  <2>2. QED
    BY <2>1 DEF Fits
<1>10. QED
  BY <1>5, <1>6, <1>7, <1>8, <1>9 DEF Base, Nodes

\* The threads, the nodes and their types, in every state.
LEMMA BaseHolds == Spec => []Base
<1>1. Init => Base
  BY InitBase
<1>2. Base /\ [Next]_vars => Base'
  BY NextIsStep, BaseStep, BaseStutter
<1>3. QED
  BY <1>1, <1>2, PTL DEF Spec

-----------------------------------------------------------------------------
(* No tick is missed. *)

\* A worker blocked in epoll_wait, or stopped.
Blocked(w) == Pc(w) \in {"poll", "stopped"}

\* Someone will look at the queue, or has armed a node for one who will.
SomeoneComes ==
  \/ \E w \in Workers : ~Blocked(w)
  \/ armed # {}
  \/ Pc(Fs) = "d_pop" /\ available # <<>>
  \/ Pc(Fs) \in {"d_get", "d_arm"}

\* No step leaves a tick behind with nobody to look for it.
LEMMA MissedStep ==
  ASSUME Base, NoMissedTick, EventfdNodes # {}, NEW t \in Threads, StepOf(t)
  PROVE  NoMissedTick'
<1>0. Types /\ Shaped /\ Nodes /\ NodesOnce /\ Base' /\ Others(t) /\ Shape(t)' /\ Shape(t)
  BY BaseStep DEF Base, Nodes, Shaped
<1> SUFFICES ASSUME failures' = 0, next_tick_queue' # <<>> PROVE SomeoneComes'
  BY DEF NoMissedTick, SomeoneComes, Blocked
<1>1. ASSUME failures = 0, next_tick_queue # <<>> PROVE SomeoneComes
  BY <1>1 DEF NoMissedTick, SomeoneComes, Blocked
\* A worker's step leaves it unblocked, or the queue is empty.
<1>2. ASSUME t \in Workers, th'[t].pc \notin {"poll", "stopped"} PROVE SomeoneComes'
  BY <1>2 DEF SomeoneComes, Blocked, Pc
\* A step that touches nothing of this.
<1>3. ASSUME UNCHANGED <<failures, next_tick_queue, available, armed>>,
             t \in Workers => (Blocked(t) <=> Blocked(t)'),
             t = Fs => th[Fs].pc \notin {"d_pop", "d_get", "d_arm"}
      PROVE  SomeoneComes'
  <2>1. \A u \in Threads \ {t} : \/ th'[u].pc = th[u].pc
                                 \/ u = Fs /\ th[u].pc = "f_sleep"
    BY <1>0 DEF Others, Still
  <2>2. SomeoneComes
    BY <1>1, <1>3
  <2>3. ASSUME NEW w \in Workers, ~Blocked(w) PROVE ~Blocked(w)'
    BY <1>3, <2>1, <2>3, Constants DEF Blocked, Pc
  <2>4. Pc(Fs) \in {"d_pop", "d_get", "d_arm"} => Pc(Fs)' = Pc(Fs)
    BY <1>3, <2>1, Constants DEF Pc
  <2>5. QED
    BY <1>3, <2>2, <2>3, <2>4 DEF SomeoneComes
\* A node is somewhere, so the thread that puts a tick finds one or somebody
\* has it.
<1>4. ASSUME th[t].node = Null, armed = {},
             available = <<>> PROVE \E u \in Threads \ {t} : th[u].pc \in WithNode
  <2>1. PICK n \in EventfdNodes : TRUE
    OBVIOUS
  <2>2. ~InQueue(available, n)
    BY <1>4, EmptyQueue
  <2>3. PICK u \in Threads : th[u].node = n
    BY <1>0, <1>4, <2>2 DEF Nodes, NodesKept
  <2>4. u # t
    BY <1>4, <2>3, Constants
  <2>5. th[u].pc \in WithNode
    BY <1>0, <2>3 DEF Shaped, Shape, ShapeOf, Pc
  <2>6. QED
    BY <2>4, <2>5
<1>5. ASSUME t = Fs, NEW w \in Workers, ~Blocked(w) PROVE SomeoneComes'
  <2>1. th'[w].pc = th[w].pc
    BY <1>0, <1>5, Constants DEF Others, Still
  <2>2. QED
    BY <1>5, <2>1 DEF SomeoneComes, Blocked, Pc
<1>6. CASE DispatchPop(t)
  <2>1. CASE t \in Workers
    <3>1. th'[t].pc \notin {"poll", "stopped"}
      BY <1>0, <1>6, Fields, DispatchPopDoes DEF Becomes, Returns, Home, Types
    <3>2. QED
      BY <1>2, <2>1, <3>1
  <2>2. CASE t = Fs
    <3>1. CASE available # <<>>
      <4>1. th'[Fs].pc = "d_get"
        BY <1>0, <2>2, <1>6, <3>1, DispatchPopDoes DEF Becomes
      <4>2. QED
        BY <4>1 DEF SomeoneComes, Pc
    <3>2. CASE available = <<>>
      <4>1. UNCHANGED <<failures, next_tick_queue, armed>> /\ Pc(t) = "d_pop"
        BY <1>6 DEF DispatchPop, tickq
      <4>2. th[t].node = Null
        BY <1>0, <4>1, NoNode DEF WithNode
      <4>3. CASE armed = {}
        <5>1. PICK u \in Threads \ {t} : th[u].pc \in WithNode
          BY <1>4, <3>2, <4>2, <4>3
        <5>2. u \in Workers /\ ~Blocked(u)
          BY <2>2, <5>1, Constants DEF Blocked, Pc, WithNode
        <5>3. QED
          BY <1>5, <2>2, <5>2
      <4>4. CASE armed # {}
        BY <4>1, <4>4 DEF SomeoneComes
      <4>5. QED
        BY <4>3, <4>4
    <3>3. QED
      BY <3>1, <3>2
  <2>3. QED
    BY <2>1, <2>2, Constants
<1>7. CASE DispatchGet(t)
  <2>1. CASE t \in Workers
    <3>1. th'[t].pc \notin {"poll", "stopped"}
      BY <1>0, <1>7, Fields, DispatchGetDoes DEF Becomes, Returns, Home, Types
    <3>2. QED
      BY <1>2, <2>1, <3>1
  <2>2. CASE t = Fs
    <3>1. next_tick_queue # <<>>
      BY <1>7 DEF DispatchGet, TickGet, tickq
    <3>2. th'[Fs].pc = "d_arm"
      BY <1>0, <2>2, <1>7, <3>1, DispatchGetDoes DEF Becomes
    <3>3. QED
      BY <3>2 DEF SomeoneComes, Pc
  <2>3. QED
    BY <2>1, <2>2, Constants
<1>8. CASE DispatchArm(t)
  <2>1. CASE t \in Workers
    <3>1. th'[t].pc \notin {"poll", "stopped"}
      BY <1>0, <1>8, Fields, DispatchArmDoes DEF Becomes, Returns, Home, Types
    <3>2. QED
      BY <1>2, <2>1, <3>1
  <2>2. CASE t = Fs
    BY <1>8 DEF DispatchArm, SomeoneComes
  <2>3. QED
    BY <2>1, <2>2, Constants
<1>9. CASE DispatchArmFails(t)
  <2>1. CASE t \in Workers
    <3>1. th'[t].pc \notin {"poll", "stopped"}
      BY <1>0, <1>9, Fields, DispatchArmFailsDoes DEF Becomes, Returns, Home, Types
    <3>2. QED
      BY <1>2, <2>1, <3>1
  <2>2. CASE t = Fs
    <3>1. Pc(t) = "d_arm" /\ th[t].node \in EventfdNodes
      BY <1>0, <1>9 DEF DispatchArmFails, Shape, ShapeOf, WithNode
    <3>2. /\ th[t].node \notin armed
          /\ \A u \in Threads : th[u].node = th[t].node => u = t
      BY <1>0, <3>1 DEF NodesOnce
    <3>3. (epoll_op[th[t].node] = "ADD") = (th[t].node \notin registered)
      BY <1>0, <3>1, <3>2 DEF Nodes, Fits
    <3>4. failures' = failures + 1 /\ failures \in Nat
      BY <1>0, <1>9, <3>3 DEF DispatchArmFails, Types
    <3>5. QED
      BY <3>4
  <2>3. QED
    BY <2>1, <2>2, Constants
<1>10. CASE DispatchPush(t)
  <2>1. CASE t \in Workers
    <3>1. th'[t].pc \notin {"poll", "stopped"}
      BY <1>0, <1>10, Fields, DispatchPushDoes DEF Becomes, Returns, Home, Types
    <3>2. QED
      BY <1>2, <2>1, <3>1
  <2>2. CASE t = Fs
    <3>1. UNCHANGED <<failures, next_tick_queue, armed>> /\ Pc(Fs) = "d_push"
      BY <2>2, <1>10 DEF DispatchPush, tickq
    <3>2. SomeoneComes
      BY <1>1, <3>1
    <3>3. (\E w \in Workers : ~Blocked(w)) \/ armed # {}
      BY <3>1, <3>2 DEF SomeoneComes
    <3>4. QED
      BY <1>5, <2>2, <3>1, <3>3 DEF SomeoneComes
  <2>3. QED
    BY <2>1, <2>2, Constants
<1>11. CASE PutTick(t)
  <2>1. CASE t \in Workers
    <3>1. th'[t].pc \notin {"poll", "stopped"}
      BY <1>0, <1>11, Fields, PutTickDoes DEF Becomes, Returns, Home, Types
    <3>2. QED
      BY <1>2, <2>1, <3>1
  <2>2. CASE t = Fs
    <3>1. UNCHANGED <<failures, available, armed>> /\ Pc(t) = "t_put" /\ th'[Fs].pc = "d_pop"
      BY <1>0, <2>2, <1>11, PutTickDoes DEF Becomes, PutTick, nodes
    <3>2. th[t].node = Null
      BY <1>0, <3>1, NoNode DEF WithNode
    <3>3. CASE armed = {} /\ available = <<>>
      <4>1. PICK u \in Threads \ {t} : th[u].pc \in WithNode
        BY <1>4, <3>2, <3>3
      <4>2. u \in Workers /\ ~Blocked(u)
        BY <2>2, <4>1, Constants DEF Blocked, Pc, WithNode
      <4>3. QED
        BY <1>5, <2>2, <4>2
    <3>4. CASE armed # {} \/ available # <<>>
      BY <3>1, <3>4 DEF SomeoneComes, Pc
    <3>5. QED
      BY <3>3, <3>4
  <2>3. QED
    BY <2>1, <2>2, Constants
<1>12. CASE PutRequest(t)
  <2>1. CASE t \in Workers
    <3>1. th'[t].pc \notin {"poll", "stopped"}
      BY <1>0, <1>12, Fields, PutRequestDoes DEF Becomes, Returns, Home, Types
    <3>2. QED
      BY <1>2, <2>1, <3>1
  <2>2. CASE t = Fs
    <3>1. UNCHANGED <<failures, next_tick_queue, available, armed>>
          /\ Pc(Fs) \notin {"d_pop", "d_get", "d_arm"}
      BY <2>2, <1>12 DEF PutRequest, tickq, nodes, fsq, cos, watch
    <3>2. QED
      BY <1>3, <2>2, <3>1, Constants DEF Pc
  <2>3. QED
    BY <2>1, <2>2, Constants
<1>13. CASE SetItem(t)
  <2>1. CASE t \in Workers
    <3>1. th'[t].pc \notin {"poll", "stopped"}
      BY <1>0, <1>13, Fields, SetItemDoes DEF Becomes, Returns, Home, Types
    <3>2. QED
      BY <1>2, <2>1, <3>1
  <2>2. CASE t = Fs
    <3>1. UNCHANGED <<failures, next_tick_queue, available, armed>>
          /\ Pc(Fs) \notin {"d_pop", "d_get", "d_arm"}
      BY <2>2, <1>13 DEF SetItem, tickq, nodes, fsq, cos, watch
    <3>2. QED
      BY <1>3, <2>2, <3>1, Constants DEF Pc
  <2>3. QED
    BY <2>1, <2>2, Constants
<1>14. CASE WakeFs(t)
  <2>1. CASE t \in Workers
    <3>1. th'[t].pc \notin {"poll", "stopped"}
      BY <1>0, <1>14, Fields, WakeFsStep DEF Becomes, Returns, Home, Types
    <3>2. QED
      BY <1>2, <2>1, <3>1
  <2>2. CASE t = Fs
    <3>1. UNCHANGED <<failures, next_tick_queue, available, armed>>
          /\ Pc(Fs) \notin {"d_pop", "d_get", "d_arm"}
      BY <2>2, <1>14 DEF WakeFs, tickq, nodes, fsq, cos, watch
    <3>2. QED
      BY <1>3, <2>2, <3>1, Constants DEF Pc
  <2>3. QED
    BY <2>1, <2>2, Constants
<1>15. CASE Finish(t)
  <2>1. CASE t \in Workers
    <3>1. th'[t].pc \notin {"poll", "stopped"}
      BY <1>0, <1>15, Fields, FinishStep DEF Becomes, Returns, Home, Types
    <3>2. QED
      BY <1>2, <2>1, <3>1
  <2>2. CASE t = Fs
    <3>1. UNCHANGED <<failures, next_tick_queue, available, armed>>
          /\ Pc(Fs) \notin {"d_pop", "d_get", "d_arm"}
      BY <2>2, <1>15 DEF Finish, tickq, nodes, fsq, cos, watch
    <3>2. QED
      BY <1>3, <2>2, <3>1, Constants DEF Pc
  <2>3. QED
    BY <2>1, <2>2, Constants
<1>16. CASE RequestEnd(t)
  <2>1. CASE t \in Workers
    <3>1. th'[t].pc \notin {"poll", "stopped"}
      BY <1>0, <1>16, Fields, RequestEndDoes DEF Becomes, Returns, Home, Types
    <3>2. QED
      BY <1>2, <2>1, <3>1
  <2>2. CASE t = Fs
    <3>1. UNCHANGED <<failures, next_tick_queue, available, armed>>
          /\ Pc(Fs) \notin {"d_pop", "d_get", "d_arm"}
      BY <2>2, <1>16 DEF RequestEnd, BeginRequest, beginOneEvent, tickq, nodes, fsq, cos, watch
    <3>2. QED
      BY <1>3, <2>2, <3>1, Constants DEF Pc
  <2>3. QED
    BY <2>1, <2>2, Constants
<1>17. CASE WriteFinal(t)
  <2>1. CASE t \in Workers
    <3>1. th'[t].pc \notin {"poll", "stopped"}
      BY <1>0, <1>17, Fields, WriteFinalDoes DEF Becomes, Returns, Home, Types
    <3>2. QED
      BY <1>2, <2>1, <3>1
  <2>2. CASE t = Fs
    <3>1. UNCHANGED <<failures, next_tick_queue, available, armed>>
          /\ Pc(Fs) \notin {"d_pop", "d_get", "d_arm"}
      BY <2>2, <1>17 DEF WriteFinal, tickq, nodes, fsq, cos, watch
    <3>2. QED
      BY <1>3, <2>2, <3>1, Constants DEF Pc
  <2>3. QED
    BY <2>1, <2>2, Constants
<1>18. CASE WorkerGet(t)
  <2>1. next_tick_queue # <<>> /\ Pc(t) = "get"
    BY <1>18 DEF WorkerGet, TickGet, tickq
  <2>2. th'[t].pc = "d_pop"
    BY <1>0, <1>18, <2>1, WorkerGetDoes DEF Becomes
  <2>3. t \in Workers
    BY <1>0, <2>1, Constants DEF Shape, ShapeOf
  <2>4. QED
    BY <1>2, <2>2, <2>3
<1>19. ASSUME NEW n \in EventfdNodes, PollEventFd(t, n) PROVE SomeoneComes'
  <2>0. handle[n] \in Coros
    BY <1>0, <1>19 DEF NodesOnce, PollEventFd
  <2>1. th'[t].pc \notin {"poll", "stopped"}
    BY <1>0, <1>19, <2>0, Fields, PollEventFdDoes DEF Becomes, Returns, Home, Types
  <2>2. t \in Workers
    BY <1>0, <1>19, <2>0, PollEventFdDoes, Constants DEF Shape, ShapeOf
  <2>3. QED
    BY <1>2, <2>1, <2>2
<1>20. CASE PollPush(t)
  <2>1. th'[t].pc \notin {"poll", "stopped"}
    BY <1>0, <1>20, Fields, PollPushDoes DEF Becomes, Returns, Home, Types
  <2>2. t \in Workers
    BY <1>0, <1>20, PollPushDoes, Constants DEF Shape, ShapeOf
  <2>3. QED
    BY <1>2, <2>1, <2>2
<1>21. CASE PollStop(t)
  <2>1. UNCHANGED <<failures, next_tick_queue, available, armed>> /\ Pc(t) = "poll"
        /\ th'[t].pc = "stopped"
    BY <1>0, <1>21, PollStopDoes DEF PollStop, tickq, nodes, fsq, cos, watch, Becomes
  <2>2. QED
    BY <1>3, <2>1, Constants DEF Blocked, Pc
<1>22. ASSUME NEW c \in Coros, PollFd(t, c) PROVE SomeoneComes'
  <2>1. th'[t].pc \notin {"poll", "stopped"}
    BY <1>0, <1>22, Fields, PollFdDoes DEF Becomes, Returns, Home, Types
  <2>2. t \in Workers
    BY <1>0, <1>22, PollFdDoes, Constants DEF Shape, ShapeOf
  <2>3. QED
    BY <1>2, <2>1, <2>2
<1>23. CASE Resume(t)
  <2>1. th'[t].pc \notin {"poll", "stopped"}
    BY <1>0, <1>23, Fields, ResumeDoes DEF Becomes, Returns, Home, Types
  <2>2. t \in Workers
    BY <1>0, <1>23, ResumeDoes, Constants DEF Shape, ShapeOf
  <2>3. QED
    BY <1>2, <2>1, <2>2
<1>24. ASSUME NEW c \in Coros, Call(t, c) PROVE SomeoneComes'
  <2>1. th'[t].pc \notin {"poll", "stopped"}
    BY <1>0, <1>24, Fields, CallDoes DEF Becomes, Returns, Home, Types
  <2>2. t \in Workers
    BY <1>0, <1>24, CallDoes, Constants DEF Shape, ShapeOf
  <2>3. QED
    BY <1>2, <2>1, <2>2
<1>25. CASE t = Main /\ run
  <2>1. th'[t].pc \notin {"poll", "stopped"}
    BY <1>0, <1>25, Fields, runDoes DEF Becomes, Returns, Home, Types
  <2>2. t \in Workers
    BY <1>0, <1>25, runDoes, Constants DEF Shape, ShapeOf
  <2>3. QED
    BY <1>2, <2>1, <2>2
<1>26. CASE CoroReturns(t)
  <2>1. th'[t].pc \notin {"poll", "stopped"}
    BY <1>0, <1>26, Fields, CoroReturnsStep DEF Becomes, Returns, Home, Types
  <2>2. t \in Workers
    BY <1>0, <1>26, CoroReturnsStep, Constants DEF Shape, ShapeOf
  <2>3. QED
    BY <1>2, <2>1, <2>2
<1>27. CASE Yield(t)
  <2>1. th'[t].pc \notin {"poll", "stopped"}
    BY <1>0, <1>27, Fields, YieldDoes DEF Becomes, Returns, Home, Types
  <2>2. t \in Workers
    BY <1>0, <1>27, YieldDoes, Constants DEF Shape, ShapeOf
  <2>3. QED
    BY <1>2, <2>1, <2>2
<1>28. CASE FsRequest(t)
  <2>1. th'[t].pc \notin {"poll", "stopped"}
    BY <1>0, <1>28, Fields, FsRequestDoes DEF Becomes, Returns, Home, Types
  <2>2. t \in Workers
    BY <1>0, <1>28, FsRequestDoes, Constants DEF Shape, ShapeOf
  <2>3. QED
    BY <1>2, <2>1, <2>2
<1>29. CASE FsClose(t)
  <2>1. th'[t].pc \notin {"poll", "stopped"}
    BY <1>0, <1>29, Fields, FsCloseDoes DEF Becomes, Returns, Home, Types
  <2>2. t \in Workers
    BY <1>0, <1>29, FsCloseDoes, Constants DEF Shape, ShapeOf
  <2>3. QED
    BY <1>2, <2>1, <2>2
<1>30. CASE Watch(t)
  <2>1. th'[t].pc \notin {"poll", "stopped"}
    BY <1>0, <1>30, Fields, WatchDoes DEF Becomes, Returns, Home, Types
  <2>2. t \in Workers
    BY <1>0, <1>30, WatchDoes, Constants DEF Shape, ShapeOf
  <2>3. QED
    BY <1>2, <2>1, <2>2
<1>31. CASE linuxAddFd(t)
  <2>1. th'[t].pc \notin {"poll", "stopped"}
    BY <1>0, <1>31, Fields, linuxAddFdDoes DEF Becomes, Returns, Home, Types
  <2>2. t \in Workers
    BY <1>0, <1>31, linuxAddFdDoes, Constants DEF Shape, ShapeOf
  <2>3. QED
    BY <1>2, <2>1, <2>2
<1>32. CASE CtlAddFd(t)
  <2>1. th'[t].pc \notin {"poll", "stopped"}
    BY <1>0, <1>32, Fields, CtlAddFdDoes DEF Becomes, Returns, Home, Types
  <2>2. t \in Workers
    BY <1>0, <1>32, CtlAddFdDoes, Constants DEF Shape, ShapeOf
  <2>3. QED
    BY <1>2, <2>1, <2>2
<1>33. CASE linuxRemoveFd(t)
  <2>1. th'[t].pc \notin {"poll", "stopped"}
    BY <1>0, <1>33, Fields, linuxRemoveFdDoes DEF Becomes, Returns, Home, Types
  <2>2. t \in Workers
    BY <1>0, <1>33, linuxRemoveFdDoes, Constants DEF Shape, ShapeOf
  <2>3. QED
    BY <1>2, <2>1, <2>2
<1>34. CASE t = Fs /\ FsClearItem
  <2>1. UNCHANGED <<failures, next_tick_queue, available, armed>>
        /\ Pc(Fs) \notin {"d_pop", "d_get", "d_arm"} /\ t = Fs
    BY <1>34 DEF FsClearItem, tickq, nodes, fsq, cos, watch
  <2>2. QED
    BY <1>3, <2>1, Constants DEF Pc
<1>35. CASE t = Fs /\ FsGet
  <2>1. UNCHANGED <<failures, next_tick_queue, available, armed>>
        /\ Pc(Fs) \notin {"d_pop", "d_get", "d_arm"} /\ t = Fs
    BY <1>35 DEF FsGet, tickq, nodes, fsq, cos, watch
  <2>2. QED
    BY <1>3, <2>1, Constants DEF Pc
<1>36. CASE t = Fs /\ FsTick
  <2>1. UNCHANGED <<failures, next_tick_queue, available, armed>>
        /\ Pc(Fs) \notin {"d_pop", "d_get", "d_arm"} /\ t = Fs
    BY <1>36 DEF FsTick, Suspended, beginOneEvent, tickq, nodes, fsq, cos, watch
  <2>2. QED
    BY <1>3, <2>1, Constants DEF Pc
<1>37. CASE t = Fs /\ FsWait
  <2>1. UNCHANGED <<failures, next_tick_queue, available, armed>>
        /\ Pc(Fs) \notin {"d_pop", "d_get", "d_arm"} /\ t = Fs
    BY <1>37 DEF FsWait, tickq, nodes, fsq, cos, watch
  <2>2. QED
    BY <1>3, <2>1, Constants DEF Pc
<1>38. CASE t = Fs /\ FsInterrupted
  <2>1. UNCHANGED <<failures, next_tick_queue, available, armed>>
        /\ Pc(Fs) \notin {"d_pop", "d_get", "d_arm"} /\ t = Fs
    BY <1>38 DEF FsInterrupted, tickq, nodes, fsq, cos, watch
  <2>2. QED
    BY <1>3, <2>1, Constants DEF Pc
<1>39. QED
  BY <1>6, <1>7, <1>8, <1>9, <1>10, <1>11, <1>12, <1>13, <1>14, <1>15, <1>16, <1>17, <1>18, <1>19,
    <1>20, <1>21, <1>22, <1>23, <1>24, <1>25, <1>26, <1>27, <1>28, <1>29, <1>30, <1>31, <1>32,
    <1>33, <1>34, <1>35, <1>36, <1>37, <1>38
     DEF StepOf, Shared, Dispatch, CoroStep

\* A tick that onNextTick() or the file system thread puts into the queue never
\* waits there while every worker is blocked in epoll_wait and no armed eventfd
\* node will wake one, as long as epoll_ctl has not failed: wherever the eventfd
\* nodes are, dispatch() of the thread that put the tick finds one or a thread
\* that will look at the queue again holds it.  There has to be a node, that is,
\* more than one worker thread.
THEOREM TicksNotMissed == EventfdNodes # {} /\ Spec => []NoMissedTick
<1> SUFFICES ASSUME EventfdNodes # {} PROVE Spec => []NoMissedTick
  OBVIOUS
<1>1. Init => NoMissedTick
  BY DEF Init, NoMissedTick
<1>2. Base /\ NoMissedTick /\ [Next]_vars => NoMissedTick'
  <2> SUFFICES ASSUME Base, NoMissedTick, [Next]_vars PROVE NoMissedTick'
    OBVIOUS
  <2>1. CASE UNCHANGED vars
    BY <2>1 DEF NoMissedTick, Pc, vars, tickq, nodes
  <2>2. QED
    BY <2>1, NextIsStep, MissedStep
<1>3. QED
  BY <1>1, <1>2, BaseHolds, PTL DEF Spec

-----------------------------------------------------------------------------
(* Where the coroutines are. *)

QueueSpot == <<"queue", Null>>
LostSpot == <<"lost", Null>>
FsSpot == <<"fs", Null>>
EdgeSpot == <<"edge", Null>>
NodeSpot(n) == <<"node", n>>
CurSpot(t) == <<"cur", t>>
ArgSpot(t) == <<"arg", t>>

\* The places, by kind.
LEMMA SpotKinds ==
  /\ QueueSpot \in Spots /\ LostSpot \in Spots /\ FsSpot \in Spots /\ EdgeSpot \in Spots
  /\ \A n \in EventfdNodes : NodeSpot(n) \in Spots
  /\ \A t \in Threads : CurSpot(t) \in Spots /\ ArgSpot(t) \in Spots
  /\ \A s \in Spots :
       \/ s \in {QueueSpot, LostSpot, FsSpot, EdgeSpot}
       \/ \E n \in EventfdNodes : s = NodeSpot(n)
       \/ \E t \in Threads : s = CurSpot(t) \/ s = ArgSpot(t)
BY DEF Spots, QueueSpot, LostSpot, FsSpot, EdgeSpot, NodeSpot, CurSpot, ArgSpot

\* Places of different kinds differ.
LEMMA SpotsDiffer ==
  /\ QueueSpot # LostSpot /\ QueueSpot # FsSpot /\ QueueSpot # EdgeSpot
  /\ LostSpot # FsSpot /\ LostSpot # EdgeSpot /\ FsSpot # EdgeSpot
  /\ \A n : NodeSpot(n) \notin {QueueSpot, LostSpot, FsSpot, EdgeSpot}
  /\ \A t : CurSpot(t) \notin {QueueSpot, LostSpot, FsSpot, EdgeSpot}
  /\ \A t : ArgSpot(t) \notin {QueueSpot, LostSpot, FsSpot, EdgeSpot}
  /\ \A n, t : NodeSpot(n) # CurSpot(t) /\ NodeSpot(n) # ArgSpot(t)
  /\ \A t, u : CurSpot(t) # ArgSpot(u)
  /\ \A t, u : CurSpot(t) = CurSpot(u) => t = u
  /\ \A t, u : ArgSpot(t) = ArgSpot(u) => t = u
  /\ \A m, n : NodeSpot(m) = NodeSpot(n) => m = n
BY DEF QueueSpot, LostSpot, FsSpot, EdgeSpot, NodeSpot, CurSpot, ArgSpot

\* Who is at a place, by its kind.
LEMMA AtKinds ==
  ASSUME NEW c
  PROVE  /\ At(QueueSpot, c) <=> InQueue(next_tick_queue, c)
         /\ At(LostSpot, c) <=> c \in lost
         /\ At(FsSpot, c) <=> InQueue(fs_queue, c)
         /\ At(EdgeSpot, c) <=> edges[c] > 0
         /\ \A n : At(NodeSpot(n), c) <=> Loaded(n) /\ handle[n] = c
         /\ \A t : At(CurSpot(t), c) <=> th[t].cur = c
         /\ \A t : At(ArgSpot(t), c) <=> Pc(t) \in Passing /\ th[t].arg = c
BY DEF At, QueueSpot, LostSpot, FsSpot, EdgeSpot, NodeSpot, CurSpot, ArgSpot

\* The same, after a step.
LEMMA AtKindsNext ==
  ASSUME NEW c
  PROVE  /\ At(QueueSpot, c)' <=> InQueue(next_tick_queue', c)
         /\ At(LostSpot, c)' <=> c \in lost'
         /\ At(FsSpot, c)' <=> InQueue(fs_queue', c)
         /\ At(EdgeSpot, c)' <=> edges'[c] > 0
         /\ \A n : At(NodeSpot(n), c)' <=> Loaded(n)' /\ handle'[n] = c
         /\ \A t : At(CurSpot(t), c)' <=> th'[t].cur = c
         /\ \A t : At(ArgSpot(t), c)' <=> th'[t].pc \in Passing /\ th'[t].arg = c
BY DEF At, QueueSpot, LostSpot, FsSpot, EdgeSpot, NodeSpot, CurSpot, ArgSpot, Pc

\* What a place says of the state of its coroutine, by its kind.
LEMMA OkKinds ==
  ASSUME NEW c
  PROVE  /\ Ok(QueueSpot, c) <=> coro[c] = "ticked"
         /\ Ok(LostSpot, c) <=> coro[c] = "ticked"
         /\ Ok(FsSpot, c) <=> coro[c] = "waiting"
         /\ Ok(EdgeSpot, c) <=> coro[c] = "polling" /\ c \in watching
         /\ \A n : Ok(NodeSpot(n), c) <=> coro[c] = "ticked"
         /\ \A t : Ok(CurSpot(t), c) <=> CurOk(t, c)
         /\ \A t : Ok(ArgSpot(t), c) <=> ArgOk(t, c)
BY DEF Ok, QueueSpot, LostSpot, FsSpot, EdgeSpot, NodeSpot, CurSpot, ArgSpot

\* The same, after a step.
LEMMA OkKindsNext ==
  ASSUME NEW c
  PROVE  /\ Ok(QueueSpot, c)' <=> coro'[c] = "ticked"
         /\ Ok(LostSpot, c)' <=> coro'[c] = "ticked"
         /\ Ok(FsSpot, c)' <=> coro'[c] = "waiting"
         /\ Ok(EdgeSpot, c)' <=> coro'[c] = "polling" /\ c \in watching'
         /\ \A n : Ok(NodeSpot(n), c)' <=> coro'[c] = "ticked"
         /\ \A t : Ok(CurSpot(t), c)' <=> CurOk(t, c)'
         /\ \A t : Ok(ArgSpot(t), c)' <=> ArgOk(t, c)'
BY DEF Ok, QueueSpot, LostSpot, FsSpot, EdgeSpot, NodeSpot, CurSpot, ArgSpot

Where == AtMostOne /\ Somewhere /\ Status

\* The two places of a thread.
LEMMA ThreadAt ==
  ASSUME NEW u, NEW c
  PROVE  /\ At(CurSpot(u), c) <=> th[u].cur = c
         /\ At(ArgSpot(u), c) <=> th[u].pc \in Passing /\ th[u].arg = c
         /\ At(CurSpot(u), c)' <=> th'[u].cur = c
         /\ At(ArgSpot(u), c)' <=> th'[u].pc \in Passing /\ th'[u].arg = c
BY DEF At, CurSpot, ArgSpot, Pc

\* Another thread than the one that takes the step has what it had.
LEMMA OthersSpots ==
  ASSUME NEW t \in Threads, Others(t), NEW u \in Threads \ {t}, NEW c \in Coros,
         coro'[c] = coro[c], c \in watching => c \in watching'
  PROVE  /\ At(CurSpot(u), c)' <=> At(CurSpot(u), c)
         /\ At(ArgSpot(u), c)' <=> At(ArgSpot(u), c)
         /\ At(CurSpot(u), c) /\ Ok(CurSpot(u), c) => Ok(CurSpot(u), c)'
         /\ Ok(ArgSpot(u), c) => Ok(ArgSpot(u), c)'
<1>1. Still(u)
  BY DEF Others
<1>2. th'[u].pc \in Passing <=> th[u].pc \in Passing
  BY <1>1 DEF Still, Passing
<1>3. At(CurSpot(u), c)' <=> At(CurSpot(u), c)
  BY <1>1, ThreadAt DEF Still
<1>4. At(ArgSpot(u), c)' <=> At(ArgSpot(u), c)
  BY <1>1, <1>2, ThreadAt DEF Still
<1>5. CurOk(u, c) => CurOk(u, c)'
  <2>1. CASE th'[u].pc = th[u].pc
    BY <1>1, <2>1 DEF CurOk, CurStatus, Still, Pc
  <2>2. CASE th'[u].pc = "f_clear" /\ th[u].pc = "f_sleep"
    BY <1>1, <2>2 DEF CurOk, CurStatus, Still, Pc, InDispatch
  <2>3. QED
    BY <1>1, <2>1, <2>2 DEF Still
<1>6. ArgOk(u, c) => ArgOk(u, c)'
  BY <1>1 DEF ArgOk, Still, Pc
<1>7. QED
  BY <1>3, <1>4, <1>5, <1>6, OkKinds, OkKindsNext

\* What a step by thread t does with a coroutine: it goes to s1 (or away), or
\* it stays where it is.
GoesTo(c, s1) ==
  /\ \A s \in Spots : At(s, c)' => s = s1 /\ Ok(s, c)'
  /\ coro'[c] \in {"ticked", "running", "waiting"} => At(s1, c)'

Stays(t, c) ==
  /\ coro'[c] = coro[c] /\ (c \in watching => c \in watching')
  /\ \A s \in Spots : At(s, c)' <=> At(s, c)
  /\ At(CurSpot(t), c)' => CurOk(t, c)'
  /\ At(ArgSpot(t), c)' => ArgOk(t, c)'

\* A step that takes some coroutines elsewhere and leaves the others where they are.
LEMMA Relocations ==
  ASSUME Where, NEW t \in Threads, Others(t),
         \A c \in Coros : Stays(t, c) \/ \E s1 \in Spots : GoesTo(c, s1)
  PROVE  Where'
<1>1. AtMostOne'
  <2>1. ASSUME NEW c \in Coros, NEW r \in Spots, NEW s \in Spots, At(r, c)', At(s, c)'
        PROVE  r = s
    <3>1. CASE \E s1 \in Spots : GoesTo(c, s1)
      BY <2>1, <3>1 DEF GoesTo
    <3>2. CASE Stays(t, c)
      <4>1. At(r, c) /\ At(s, c)
        BY <2>1, <3>2 DEF Stays
      <4>2. QED
        BY <4>1 DEF Where, AtMostOne
    <3>3. QED
      BY <3>1, <3>2
  <2>2. QED
    BY <2>1 DEF AtMostOne
<1>2. Somewhere'
  <2>1. ASSUME NEW c \in Coros, coro'[c] \in {"ticked", "running", "waiting"}
        PROVE  \E s \in Spots : At(s, c)'
    <3>1. CASE \E s1 \in Spots : GoesTo(c, s1)
      BY <2>1, <3>1 DEF GoesTo
    <3>2. CASE Stays(t, c)
      <4>1. PICK s \in Spots : At(s, c)
        BY <2>1, <3>2 DEF Where, Somewhere, Stays
      <4>2. QED
        BY <3>2, <4>1 DEF Stays
    <3>3. QED
      BY <3>1, <3>2
  <2>2. QED
    BY <2>1 DEF Somewhere
<1>3. Status'
  <2>1. ASSUME NEW c \in Coros, NEW s \in Spots, At(s, c)' PROVE Ok(s, c)'
    <3>1. CASE \E s1 \in Spots : GoesTo(c, s1)
      BY <2>1, <3>1 DEF GoesTo
    <3>2. CASE Stays(t, c)
      <4>1. At(s, c) /\ Ok(s, c) /\ coro'[c] = coro[c] /\ (c \in watching => c \in watching')
        BY <2>1, <3>2 DEF Where, Status, Stays
      <4>2. CASE s \in {QueueSpot, LostSpot, FsSpot, EdgeSpot} \/ \E n \in EventfdNodes : s = NodeSpot(n)
        BY <4>1, <4>2, OkKinds, OkKindsNext
      <4>3. ASSUME NEW u \in Threads, s = CurSpot(u) \/ s = ArgSpot(u) PROVE Ok(s, c)'
        <5>1. CASE u = t
          <6>1. /\ At(CurSpot(t), c)' => CurOk(t, c)'
                /\ At(ArgSpot(t), c)' => ArgOk(t, c)'
            BY <3>2 DEF Stays
          <6>2. QED
            BY <2>1, <4>3, <5>1, <6>1, OkKindsNext
        <5>2. CASE u # t
          <6>1. u \in Threads \ {t}
            BY <5>2
          <6>2. /\ At(CurSpot(u), c) /\ Ok(CurSpot(u), c) => Ok(CurSpot(u), c)'
                /\ Ok(ArgSpot(u), c) => Ok(ArgSpot(u), c)'
            BY <4>1, <6>1, OthersSpots
          <6>3. QED
            BY <4>1, <4>3, <6>2
        <5>3. QED
          BY <5>1, <5>2
      <4>4. QED
        BY <4>2, <4>3, SpotKinds
    <3>3. QED
      BY <3>1, <3>2
  <2>2. QED
    BY <2>1 DEF Status
<1>4. QED
  BY <1>1, <1>2, <1>3 DEF Where

\* One coroutine goes to s1 (or away), the others stay.
LEMMA Relocate ==
  ASSUME Where, NEW t \in Threads, Others(t), NEW c0 \in Coros, NEW s1 \in Spots,
         \A s \in Spots : At(s, c0)' => s = s1 /\ Ok(s, c0)',
         coro'[c0] \in {"ticked", "running", "waiting"} => At(s1, c0)',
         \A c \in Coros \ {c0} :
           /\ coro'[c] = coro[c] /\ (c \in watching => c \in watching')
           /\ \A s \in Spots : At(s, c)' <=> At(s, c)
           /\ At(CurSpot(t), c)' => CurOk(t, c)'
           /\ At(ArgSpot(t), c)' => ArgOk(t, c)'
  PROVE  Where'
<1>1. GoesTo(c0, s1)
  BY DEF GoesTo
<1>2. \A c \in Coros \ {c0} : Stays(t, c)
  BY DEF Stays
<1>3. QED
  BY <1>1, <1>2, Relocations

\* The places that a step leaves alone.
SameAt(s) == \A c \in Coros : At(s, c)' <=> At(s, c)

\* The places that a step does not touch.
LEMMA SameSpots ==
  ASSUME NEW t \in Threads, Others(t), NEW D,
         QueueSpot \in D \/ next_tick_queue' = next_tick_queue,
         LostSpot \in D \/ lost' = lost,
         FsSpot \in D \/ fs_queue' = fs_queue,
         EdgeSpot \in D \/ edges' = edges,
         \A n \in EventfdNodes :
           NodeSpot(n) \in D \/ ((Loaded(n)' <=> Loaded(n)) /\ handle'[n] = handle[n]),
         \/ CurSpot(t) \in D \/ th'[t].cur = th[t].cur
         \/ th'[t].cur \notin Coros /\ th[t].cur \notin Coros,
         \/ ArgSpot(t) \in D
         \/ /\ ~(th'[t].pc \in Passing /\ th'[t].arg \in Coros)
            /\ ~(th[t].pc \in Passing /\ th[t].arg \in Coros)
  PROVE  \A s \in Spots \ D : SameAt(s)
<1> SUFFICES ASSUME NEW s \in Spots \ D, NEW c \in Coros PROVE At(s, c)' <=> At(s, c)
  BY DEF SameAt
<1>1. CASE s = QueueSpot
  BY <1>1, AtKinds, AtKindsNext
<1>2. CASE s = LostSpot
  BY <1>2, AtKinds, AtKindsNext
<1>3. CASE s = FsSpot
  BY <1>3, AtKinds, AtKindsNext
<1>4. CASE s = EdgeSpot
  BY <1>4, AtKinds, AtKindsNext
<1>5. ASSUME NEW n \in EventfdNodes, s = NodeSpot(n) PROVE At(s, c)' <=> At(s, c)
  <2>1. (Loaded(n)' <=> Loaded(n)) /\ handle'[n] = handle[n]
    BY <1>5
  <2>2. (At(NodeSpot(n), c) <=> Loaded(n) /\ handle[n] = c) /\ (At(NodeSpot(n), c)' <=> Loaded(n)' /\ handle'[n] = c)
    BY AtKinds, AtKindsNext
  <2>3. QED
    BY <1>5, <2>1, <2>2
<1>6. ASSUME NEW u \in Threads, s = CurSpot(u) \/ s = ArgSpot(u) PROVE At(s, c)' <=> At(s, c)
  <2>1. CASE u = t
    BY <1>6, <2>1, ThreadAt
  <2>2. CASE u # t
    <3>1. Still(u)
      BY <2>2 DEF Others
    <3>2. th'[u].pc \in Passing <=> th[u].pc \in Passing
      BY <3>1 DEF Still, Passing
    <3>3. At(CurSpot(u), c)' <=> At(CurSpot(u), c)
      BY <3>1, ThreadAt DEF Still
    <3>4. At(ArgSpot(u), c)' <=> At(ArgSpot(u), c)
      BY <3>1, <3>2, ThreadAt DEF Still
    <3>5. QED
      BY <1>6, <3>3, <3>4
  <2>3. QED
    BY <2>1, <2>2
<1>7. QED
  BY <1>1, <1>2, <1>3, <1>4, <1>5, <1>6, SpotKinds

\* A coroutine moves from s0 to s1.
LEMMA Move ==
  ASSUME Where, NEW t \in Threads, Others(t), NEW c0 \in Coros, NEW s0 \in Spots,
         NEW s1 \in Spots,
         s0 # s1, At(s0, c0), ~At(s0, c0)', At(s1, c0)', Ok(s1, c0)',
         \A s \in Spots \ {s0, s1} : SameAt(s),
         \A c \in Coros \ {c0} :
           /\ coro'[c] = coro[c] /\ (c \in watching => c \in watching')
           /\ At(s0, c)' <=> At(s0, c)
           /\ At(s1, c)' <=> At(s1, c)
           /\ At(CurSpot(t), c)' => CurOk(t, c)'
           /\ At(ArgSpot(t), c)' => ArgOk(t, c)'
  PROVE  Where'
<1>1. ASSUME NEW s \in Spots, At(s, c0)' PROVE s = s1 /\ Ok(s, c0)'
  <2>1. s # s0
    BY <1>1
  <2>2. s # s1 => At(s, c0)
    BY <1>1, <2>1 DEF SameAt
  <2>3. s # s1 => s = s0
    BY <2>2 DEF Where, AtMostOne
  <2>4. QED
    BY <2>1, <2>3
<1>2. ASSUME NEW c \in Coros \ {c0}, NEW s \in Spots PROVE At(s, c)' <=> At(s, c)
  BY DEF SameAt
<1>3. QED
  BY <1>1, <1>2, Relocate

\* A coroutine stays with thread t; or nothing happens to any.
LEMMA Keep ==
  ASSUME Where, NEW t \in Threads, Others(t), \A s \in Spots : SameAt(s),
         \A c \in Coros :
           /\ \/ coro'[c] = coro[c] /\ (c \in watching => c \in watching')
              \/ At(CurSpot(t), c)
           /\ At(CurSpot(t), c)' => CurOk(t, c)'
           /\ At(ArgSpot(t), c)' => ArgOk(t, c)'
  PROVE  Where'
<1>0. \A s \in Spots : \A c \in Coros : At(s, c)' <=> At(s, c)
  BY DEF SameAt
<1>1. CASE \E c \in Coros : At(CurSpot(t), c)
  <2>1. PICK c0 \in Coros : At(CurSpot(t), c0)
    BY <1>1
  <2>2. CurSpot(t) \in Spots
    BY SpotKinds
  <2>3. ASSUME NEW s \in Spots, At(s, c0)' PROVE s = CurSpot(t) /\ Ok(s, c0)'
    <3>1. At(s, c0)
      BY <1>0, <2>3
    <3>2. s = CurSpot(t)
      BY <2>1, <2>2, <3>1 DEF Where, AtMostOne
    <3>3. QED
      BY <2>3, <3>2, OkKindsNext
  <2>4. ASSUME NEW c \in Coros \ {c0} PROVE ~At(CurSpot(t), c)
    BY <2>1, ThreadAt
  <2>5. QED
    BY <1>0, <2>1, <2>2, <2>3, <2>4, Relocate
<1>2. CASE ~\E c \in Coros : At(CurSpot(t), c)
  <2>1. \A c \in Coros : coro'[c] = coro[c] /\ (c \in watching => c \in watching')
    BY <1>2
  <2>2. AtMostOne' /\ Somewhere'
    BY <1>0, <2>1 DEF Where, AtMostOne, Somewhere
  <2>3. ASSUME NEW c \in Coros, NEW s \in Spots, At(s, c)' PROVE Ok(s, c)'
    <3>1. At(s, c) /\ Ok(s, c)
      BY <1>0, <2>3 DEF Where, Status
    <3>2. CASE s \in {QueueSpot, LostSpot, FsSpot, EdgeSpot} \/ \E n \in EventfdNodes : s = NodeSpot(n)
      BY <2>1, <3>1, <3>2, OkKinds, OkKindsNext
    <3>3. ASSUME NEW u \in Threads, s = CurSpot(u) \/ s = ArgSpot(u) PROVE Ok(s, c)'
      <4>1. CASE u = t
        BY <2>3, <3>3, <4>1, OkKindsNext
      <4>2. CASE u # t
        <5>1. u \in Threads \ {t}
          BY <4>2
        <5>2. /\ At(CurSpot(u), c) /\ Ok(CurSpot(u), c) => Ok(CurSpot(u), c)'
              /\ Ok(ArgSpot(u), c) => Ok(ArgSpot(u), c)'
          BY <2>1, <5>1, OthersSpots
        <5>3. QED
          BY <3>1, <3>3, <5>2
      <4>3. QED
        BY <4>1, <4>2
    <3>4. QED
      BY <3>2, <3>3, SpotKinds
  <2>4. QED
    BY <2>2, <2>3 DEF Where, Status
<1>3. QED
  BY <1>1, <1>2

\* The nodes that hold a tick stay the same.
LEMMA LoadedSame ==
  ASSUME NEW t \in Threads, Others(t), armed' = armed, th'[t].pc # "d_arm", Pc(t) # "d_arm"
  PROVE  \A n : Loaded(n)' <=> Loaded(n)
<1>1. \A u \in Threads : /\ th'[u].pc = "d_arm" <=> th[u].pc = "d_arm"
                         /\ th[u].pc = "d_arm" => th'[u].node = th[u].node
  BY DEF Others, Still, Pc
<1>2. QED
  BY <1>1 DEF Loaded, Pc

\* A step that moves no coroutine.
LEMMA KeepThread ==
  ASSUME Where, NEW t \in Threads, Others(t),
         UNCHANGED <<next_tick_queue, lost, fs_queue, edges, handle, armed, coro, watching>>,
         th'[t].pc # "d_arm", Pc(t) # "d_arm",
         th'[t].cur = th[t].cur \/ (th'[t].cur \notin Coros /\ th[t].cur \notin Coros),
         ~(th'[t].pc \in Passing /\ th'[t].arg \in Coros),
         ~(th[t].pc \in Passing /\ th[t].arg \in Coros),
         th[t].cur \in Coros => CurStatus(t)' = CurStatus(t),
         th'[t].after = "get" \/ th'[t].pc = "w_add" => th[t].after = "get"
  PROVE  Where'
<1>1. \A n : Loaded(n)' <=> Loaded(n)
  BY LoadedSame
<1>2. PICK D : D = {}
  OBVIOUS
<1>3. \A s \in Spots \ D : SameAt(s)
  BY <1>1, SameSpots
<1>4. \A s \in Spots : SameAt(s)
  BY <1>2, <1>3
<1>5. ASSUME NEW c \in Coros, At(CurSpot(t), c)' PROVE CurOk(t, c)'
  <2>1. th'[t].cur = c /\ th[t].cur = c
    BY <1>5, ThreadAt
  <2>2. At(CurSpot(t), c) /\ CurSpot(t) \in Spots
    BY <2>1, ThreadAt, SpotKinds
  <2>3. CurOk(t, c)
    BY <2>2, OkKinds DEF Where, Status
  <2>4. QED
    BY <2>1, <2>3 DEF CurOk, Pc
<1>6. ASSUME NEW c \in Coros PROVE ~At(ArgSpot(t), c)'
  BY ThreadAt
<1>7. QED
  BY <1>4, <1>5, <1>6, Keep

\* Where the coroutines are after DispatchPop.
LEMMA WhereDispatchPop ==
  ASSUME Base, Where, NEW t \in Threads, Others(t), DispatchPop(t)
  PROVE  Where'
<1>1. Types /\ Shaped /\ th \in [Threads -> ThRec]
  BY DEF Base, Types
<1>2. UNCHANGED <<next_tick_queue, lost, fs_queue, edges, handle, armed, coro, watching>>
  BY DEF DispatchPop, tickq, nodes, fsq, cos, watch
<1>3. Shape(t) /\ Pc(t) # "d_arm" /\ ~(th[t].pc \in Passing /\ th[t].arg \in Coros)
  BY <1>1, DispatchPopDoes, Constants DEF Shaped, Shape, ShapeOf, Pc, Passing, WithArg, InRequest
<1>4. /\ th'[t].pc # "d_arm" /\ ~(th'[t].pc \in Passing /\ th'[t].arg \in Coros)
      /\ th'[t].cur = th[t].cur \/ (th'[t].cur \notin Coros /\ th[t].cur \notin Coros)
      /\ th'[t].after = "get" \/ th'[t].pc = "w_add" => th[t].after = "get"
  BY <1>1, <1>3, DispatchPopDoes, Fields, Constants
     DEF Becomes, Returns, Home, Passing, Shape, ShapeOf, Caller, InDispatch, InRequest, Pc
<1>5. th[t].cur \in Coros => CurStatus(t)' = CurStatus(t)
  BY <1>1, <1>3, DispatchPopDoes, Fields, Constants
     DEF Becomes, Returns, Home, CurStatus, Shape, ShapeOf, Caller, InDispatch, InRequest, Pc
<1>6. QED
  BY <1>2, <1>3, <1>4, <1>5, KeepThread

\* Where the coroutines are after DispatchPush.
LEMMA WhereDispatchPush ==
  ASSUME Base, Where, NEW t \in Threads, Others(t), DispatchPush(t)
  PROVE  Where'
<1>1. Types /\ Shaped /\ th \in [Threads -> ThRec]
  BY DEF Base, Types
<1>2. UNCHANGED <<next_tick_queue, lost, fs_queue, edges, handle, armed, coro, watching>>
  BY DEF DispatchPush, tickq, nodes, fsq, cos, watch
<1>3. Shape(t) /\ Pc(t) # "d_arm" /\ ~(th[t].pc \in Passing /\ th[t].arg \in Coros)
  BY <1>1, DispatchPushDoes, Constants DEF Shaped, Shape, ShapeOf, Pc, Passing, WithArg, InRequest
<1>4. /\ th'[t].pc # "d_arm" /\ ~(th'[t].pc \in Passing /\ th'[t].arg \in Coros)
      /\ th'[t].cur = th[t].cur \/ (th'[t].cur \notin Coros /\ th[t].cur \notin Coros)
      /\ th'[t].after = "get" \/ th'[t].pc = "w_add" => th[t].after = "get"
  BY <1>1, <1>3, DispatchPushDoes, Fields, Constants
     DEF Becomes, Returns, Home, Passing, Shape, ShapeOf, Caller, InDispatch, InRequest, Pc
<1>5. th[t].cur \in Coros => CurStatus(t)' = CurStatus(t)
  BY <1>1, <1>3, DispatchPushDoes, Fields, Constants
     DEF Becomes, Returns, Home, CurStatus, Shape, ShapeOf, Caller, InDispatch, InRequest, Pc
<1>6. QED
  BY <1>2, <1>3, <1>4, <1>5, KeepThread

\* Where the coroutines are after SetItem.
LEMMA WhereSetItem ==
  ASSUME Base, Where, NEW t \in Threads, Others(t), SetItem(t)
  PROVE  Where'
<1>1. Types /\ Shaped /\ th \in [Threads -> ThRec]
  BY DEF Base, Types
<1>2. UNCHANGED <<next_tick_queue, lost, fs_queue, edges, handle, armed, coro, watching>>
  BY DEF SetItem, tickq, nodes, fsq, cos, watch
<1>3. Shape(t) /\ Pc(t) # "d_arm" /\ ~(th[t].pc \in Passing /\ th[t].arg \in Coros)
  BY <1>1, SetItemDoes, Constants DEF Shaped, Shape, ShapeOf, Pc, Passing, WithArg, InRequest
<1>4. /\ th'[t].pc # "d_arm" /\ ~(th'[t].pc \in Passing /\ th'[t].arg \in Coros)
      /\ th'[t].cur = th[t].cur \/ (th'[t].cur \notin Coros /\ th[t].cur \notin Coros)
      /\ th'[t].after = "get" \/ th'[t].pc = "w_add" => th[t].after = "get"
  BY <1>1, <1>3, SetItemDoes, Fields, Constants
     DEF Becomes, Returns, Home, Passing, Shape, ShapeOf, Caller, InDispatch, InRequest, Pc
<1>5. th[t].cur \in Coros => CurStatus(t)' = CurStatus(t)
  BY <1>1, <1>3, SetItemDoes, Fields, Constants
     DEF Becomes, Returns, Home, CurStatus, Shape, ShapeOf, Caller, InDispatch, InRequest, Pc
<1>6. QED
  BY <1>2, <1>3, <1>4, <1>5, KeepThread

\* Where the coroutines are after WakeFs.
LEMMA WhereWakeFs ==
  ASSUME Base, Where, NEW t \in Threads, Others(t), WakeFs(t)
  PROVE  Where'
<1>1. Types /\ Shaped /\ th \in [Threads -> ThRec]
  BY DEF Base, Types
<1>2. UNCHANGED <<next_tick_queue, lost, fs_queue, edges, handle, armed, coro, watching>>
  BY DEF WakeFs, tickq, nodes, fsq, cos, watch
<1>3. Shape(t) /\ Pc(t) # "d_arm" /\ ~(th[t].pc \in Passing /\ th[t].arg \in Coros)
  BY <1>1, WakeFsStep, Constants DEF Shaped, Shape, ShapeOf, Pc, Passing, WithArg, InRequest
<1>4. \/ /\ th[t].arg = End
         /\ Becomes(t, "final", th[t].ret, th[t].after, th[t].cur, Null, th[t].node)
      \/ /\ th[t].cur = Null
         /\ Becomes(t, th[t].after, "none", "finish", Null, Null, Null)
      \/ /\ th[t].cur \in Coros
         /\ Becomes(t, "run", "none", th[t].after, th[t].cur, Null, Null)
  <2>1. Pc(t) = "r_wake" /\ th[t].arg \in Coros \cup {CloseOp, End}
    BY <1>1, <1>3, WakeFsStep, Fields, Constants DEF Shape, ShapeOf, WithArg, InRequest
  <2>2. CASE th[t].arg = End
    BY <1>1, <2>2, WakeFsStep
  <2>3. CASE th[t].arg \in Coros
    <3>1. Returns(t) /\ th[t].ret = th[t].after /\ th[t].cur = Null
      BY <1>1, <1>3, <2>1, <2>3, WakeFsStep, Constants DEF Shape, ShapeOf, InRequest
    <3>2. th[t].ret \in {"finish", "get"}
      BY <1>1, <3>1, Fields
    <3>3. QED
      BY <3>1, <3>2 DEF Returns
  <2>4. CASE th[t].arg = CloseOp
    <3>1. Returns(t) /\ th[t].ret = "run" /\ th[t].cur \in Coros
      BY <1>1, <1>3, <2>1, <2>4, WakeFsStep, Constants DEF Shape, ShapeOf, InRequest
    <3>2. QED
      BY <3>1 DEF Returns
  <2>5. QED
    BY <2>1, <2>2, <2>3, <2>4
<1>5. /\ th'[t].pc # "d_arm" /\ ~(th'[t].pc \in Passing /\ th'[t].arg \in Coros)
      /\ th'[t].cur = th[t].cur \/ (th'[t].cur \notin Coros /\ th[t].cur \notin Coros)
      /\ th'[t].after = "get" \/ th'[t].pc = "w_add" => th[t].after = "get"
  BY <1>1, <1>4, Fields, Constants DEF Becomes, Passing
<1>6. Pc(t) = "r_wake" /\ (th[t].cur \in Coros => th'[t].pc \in {"final", "run"})
  BY <1>1, <1>4, WakeFsStep, Constants DEF Becomes
<1>7. th[t].cur \in Coros => CurStatus(t)' = CurStatus(t)
  BY <1>6 DEF CurStatus, InDispatch, Pc
<1>8. QED
  BY <1>2, <1>3, <1>5, <1>7, KeepThread

\* Where the coroutines are after Finish.
LEMMA WhereFinish ==
  ASSUME Base, Where, NEW t \in Threads, Others(t), Finish(t)
  PROVE  Where'
<1>1. Types /\ Shaped /\ th \in [Threads -> ThRec]
  BY DEF Base, Types
<1>2. UNCHANGED <<next_tick_queue, lost, fs_queue, edges, handle, armed, coro, watching>>
  BY DEF Finish, tickq, nodes, fsq, cos, watch
<1>3. Shape(t) /\ Pc(t) # "d_arm" /\ ~(th[t].pc \in Passing /\ th[t].arg \in Coros)
  BY <1>1, FinishStep, Constants DEF Shaped, Shape, ShapeOf, Pc, Passing, WithArg, InRequest
<1>4. /\ th'[t].pc # "d_arm" /\ ~(th'[t].pc \in Passing /\ th'[t].arg \in Coros)
      /\ th'[t].cur = th[t].cur \/ (th'[t].cur \notin Coros /\ th[t].cur \notin Coros)
      /\ th'[t].after = "get" \/ th'[t].pc = "w_add" => th[t].after = "get"
  BY <1>1, <1>3, FinishStep, Fields, Constants
     DEF Becomes, Returns, Home, Passing, Shape, ShapeOf, Caller, InDispatch, InRequest, Pc
<1>5. th[t].cur \in Coros => CurStatus(t)' = CurStatus(t)
  BY <1>1, <1>3, FinishStep, Fields, Constants
     DEF Becomes, Returns, Home, CurStatus, Shape, ShapeOf, Caller, InDispatch, InRequest, Pc
<1>6. QED
  BY <1>2, <1>3, <1>4, <1>5, KeepThread

\* Where the coroutines are after RequestEnd.
LEMMA WhereRequestEnd ==
  ASSUME Base, Where, NEW t \in Threads, Others(t), RequestEnd(t)
  PROVE  Where'
<1>1. Types /\ Shaped /\ th \in [Threads -> ThRec]
  BY DEF Base, Types
<1>2. UNCHANGED <<next_tick_queue, lost, fs_queue, edges, handle, armed, coro, watching>>
  BY DEF RequestEnd, BeginRequest, beginOneEvent, tickq, nodes, fsq, cos, watch
<1>3. Shape(t) /\ Pc(t) # "d_arm" /\ ~(th[t].pc \in Passing /\ th[t].arg \in Coros)
  BY <1>1, RequestEndDoes, Constants DEF Shaped, Shape, ShapeOf, Pc, Passing, WithArg, InRequest
<1>4. /\ th'[t].pc # "d_arm" /\ ~(th'[t].pc \in Passing /\ th'[t].arg \in Coros)
      /\ th'[t].cur = th[t].cur \/ (th'[t].cur \notin Coros /\ th[t].cur \notin Coros)
      /\ th'[t].after = "get" \/ th'[t].pc = "w_add" => th[t].after = "get"
  BY <1>1, <1>3, RequestEndDoes, Fields, Constants
     DEF Becomes, Returns, Home, Passing, Shape, ShapeOf, Caller, InDispatch, InRequest, Pc
<1>5. th[t].cur \in Coros => CurStatus(t)' = CurStatus(t)
  BY <1>1, <1>3, RequestEndDoes, Fields, Constants
     DEF Becomes, Returns, Home, CurStatus, Shape, ShapeOf, Caller, InDispatch, InRequest, Pc
<1>6. QED
  BY <1>2, <1>3, <1>4, <1>5, KeepThread

\* Where the coroutines are after WriteFinal.
LEMMA WhereWriteFinal ==
  ASSUME Base, Where, NEW t \in Threads, Others(t), WriteFinal(t)
  PROVE  Where'
<1>1. Types /\ Shaped /\ th \in [Threads -> ThRec]
  BY DEF Base, Types
<1>2. UNCHANGED <<next_tick_queue, lost, fs_queue, edges, handle, armed, coro, watching>>
  BY DEF WriteFinal, tickq, nodes, fsq, cos, watch
<1>3. Shape(t) /\ Pc(t) # "d_arm" /\ ~(th[t].pc \in Passing /\ th[t].arg \in Coros)
  BY <1>1, WriteFinalDoes, Constants DEF Shaped, Shape, ShapeOf, Pc, Passing, WithArg, InRequest
<1>4. /\ th'[t].pc # "d_arm" /\ ~(th'[t].pc \in Passing /\ th'[t].arg \in Coros)
      /\ th'[t].cur = th[t].cur \/ (th'[t].cur \notin Coros /\ th[t].cur \notin Coros)
      /\ th'[t].after = "get" \/ th'[t].pc = "w_add" => th[t].after = "get"
  BY <1>1, <1>3, WriteFinalDoes, Fields, Constants
     DEF Becomes, Returns, Home, Passing, Shape, ShapeOf, Caller, InDispatch, InRequest, Pc
<1>5. th[t].cur \in Coros => CurStatus(t)' = CurStatus(t)
  BY <1>1, <1>3, WriteFinalDoes, Fields, Constants
     DEF Becomes, Returns, Home, CurStatus, Shape, ShapeOf, Caller, InDispatch, InRequest, Pc
<1>6. QED
  BY <1>2, <1>3, <1>4, <1>5, KeepThread

\* Where the coroutines are after PollPush.
LEMMA WherePollPush ==
  ASSUME Base, Where, NEW t \in Threads, Others(t), PollPush(t)
  PROVE  Where'
<1>1. Types /\ Shaped /\ th \in [Threads -> ThRec]
  BY DEF Base, Types
<1>2. UNCHANGED <<next_tick_queue, lost, fs_queue, edges, handle, armed, coro, watching>>
  BY DEF PollPush, tickq, nodes, fsq, cos, watch
<1>3. Shape(t) /\ Pc(t) # "d_arm" /\ ~(th[t].pc \in Passing /\ th[t].arg \in Coros)
  BY <1>1, PollPushDoes, Constants DEF Shaped, Shape, ShapeOf, Pc, Passing, WithArg, InRequest
<1>4. /\ th'[t].pc # "d_arm" /\ ~(th'[t].pc \in Passing /\ th'[t].arg \in Coros)
      /\ th'[t].cur = th[t].cur \/ (th'[t].cur \notin Coros /\ th[t].cur \notin Coros)
      /\ th'[t].after = "get" \/ th'[t].pc = "w_add" => th[t].after = "get"
  BY <1>1, <1>3, PollPushDoes, Fields, Constants
     DEF Becomes, Returns, Home, Passing, Shape, ShapeOf, Caller, InDispatch, InRequest, Pc
<1>5. th[t].cur \in Coros => CurStatus(t)' = CurStatus(t)
  BY <1>1, <1>3, PollPushDoes, Fields, Constants
     DEF Becomes, Returns, Home, CurStatus, Shape, ShapeOf, Caller, InDispatch, InRequest, Pc
<1>6. QED
  BY <1>2, <1>3, <1>4, <1>5, KeepThread

\* Where the coroutines are after PollStop.
LEMMA WherePollStop ==
  ASSUME Base, Where, NEW t \in Threads, Others(t), PollStop(t)
  PROVE  Where'
<1>1. Types /\ Shaped /\ th \in [Threads -> ThRec]
  BY DEF Base, Types
<1>2. UNCHANGED <<next_tick_queue, lost, fs_queue, edges, handle, armed, coro, watching>>
  BY DEF PollStop, tickq, nodes, fsq, cos, watch
<1>3. Shape(t) /\ Pc(t) # "d_arm" /\ ~(th[t].pc \in Passing /\ th[t].arg \in Coros)
  BY <1>1, PollStopDoes, Constants DEF Shaped, Shape, ShapeOf, Pc, Passing, WithArg, InRequest
<1>4. /\ th'[t].pc # "d_arm" /\ ~(th'[t].pc \in Passing /\ th'[t].arg \in Coros)
      /\ th'[t].cur = th[t].cur \/ (th'[t].cur \notin Coros /\ th[t].cur \notin Coros)
      /\ th'[t].after = "get" \/ th'[t].pc = "w_add" => th[t].after = "get"
  BY <1>1, <1>3, PollStopDoes, Fields, Constants
     DEF Becomes, Returns, Home, Passing, Shape, ShapeOf, Caller, InDispatch, InRequest, Pc
<1>5. th[t].cur \in Coros => CurStatus(t)' = CurStatus(t)
  BY <1>1, <1>3, PollStopDoes, Fields, Constants
     DEF Becomes, Returns, Home, CurStatus, Shape, ShapeOf, Caller, InDispatch, InRequest, Pc
<1>6. QED
  BY <1>2, <1>3, <1>4, <1>5, KeepThread

\* Where the coroutines are after run.
LEMMA Whererun ==
  ASSUME Base, Where, NEW t \in Threads, Others(t), t = Main /\ run
  PROVE  Where'
<1>1. Types /\ Shaped /\ th \in [Threads -> ThRec]
  BY DEF Base, Types
<1>2. UNCHANGED <<next_tick_queue, lost, fs_queue, edges, handle, armed, coro, watching>>
  BY DEF run, tickq, nodes, fsq, cos, watch
<1>3. Shape(t) /\ Pc(t) # "d_arm" /\ ~(th[t].pc \in Passing /\ th[t].arg \in Coros)
  BY <1>1, runDoes, Constants DEF Shaped, Shape, ShapeOf, Pc, Passing, WithArg, InRequest
<1>4. /\ th'[t].pc # "d_arm" /\ ~(th'[t].pc \in Passing /\ th'[t].arg \in Coros)
      /\ th'[t].cur = th[t].cur \/ (th'[t].cur \notin Coros /\ th[t].cur \notin Coros)
      /\ th'[t].after = "get" \/ th'[t].pc = "w_add" => th[t].after = "get"
  BY <1>1, <1>3, runDoes, Fields, Constants
     DEF Becomes, Returns, Home, Passing, Shape, ShapeOf, Caller, InDispatch, InRequest, Pc
<1>5. th[t].cur \in Coros => CurStatus(t)' = CurStatus(t)
  BY <1>1, <1>3, runDoes, Fields, Constants
     DEF Becomes, Returns, Home, CurStatus, Shape, ShapeOf, Caller, InDispatch, InRequest, Pc
<1>6. QED
  BY <1>2, <1>3, <1>4, <1>5, KeepThread

\* Where the coroutines are after FsClose.
LEMMA WhereFsClose ==
  ASSUME Base, Where, NEW t \in Threads, Others(t), FsClose(t)
  PROVE  Where'
<1>1. Types /\ Shaped /\ th \in [Threads -> ThRec]
  BY DEF Base, Types
<1>2. UNCHANGED <<next_tick_queue, lost, fs_queue, edges, handle, armed, coro, watching>>
  BY DEF FsClose, BeginRequest, beginOneEvent, tickq, nodes, fsq, cos, watch
<1>3. Shape(t) /\ Pc(t) # "d_arm" /\ ~(th[t].pc \in Passing /\ th[t].arg \in Coros)
  BY <1>1, FsCloseDoes, Constants DEF Shaped, Shape, ShapeOf, Pc, Passing, WithArg, InRequest
<1>4. /\ th'[t].pc # "d_arm" /\ ~(th'[t].pc \in Passing /\ th'[t].arg \in Coros)
      /\ th'[t].cur = th[t].cur \/ (th'[t].cur \notin Coros /\ th[t].cur \notin Coros)
      /\ th'[t].after = "get" \/ th'[t].pc = "w_add" => th[t].after = "get"
  BY <1>1, <1>3, FsCloseDoes, Fields, Constants
     DEF Becomes, Returns, Home, Passing, Shape, ShapeOf, Caller, InDispatch, InRequest, Pc
<1>5. th[t].cur \in Coros => CurStatus(t)' = CurStatus(t)
  BY <1>1, <1>3, FsCloseDoes, Fields, Constants
     DEF Becomes, Returns, Home, CurStatus, Shape, ShapeOf, Caller, InDispatch, InRequest, Pc
<1>6. QED
  BY <1>2, <1>3, <1>4, <1>5, KeepThread

\* Where the coroutines are after FsClearItem.
LEMMA WhereFsClearItem ==
  ASSUME Base, Where, NEW t \in Threads, Others(t), t = Fs /\ FsClearItem
  PROVE  Where'
<1>1. Types /\ Shaped /\ th \in [Threads -> ThRec]
  BY DEF Base, Types
<1>2. UNCHANGED <<next_tick_queue, lost, fs_queue, edges, handle, armed, coro, watching>>
  BY DEF FsClearItem, tickq, nodes, fsq, cos, watch
<1>3. Shape(t) /\ Pc(t) # "d_arm" /\ ~(th[t].pc \in Passing /\ th[t].arg \in Coros)
  BY <1>1, FsClearItemDoes, Constants DEF Shaped, Shape, ShapeOf, Pc, Passing, WithArg, InRequest
<1>4. /\ th'[t].pc # "d_arm" /\ ~(th'[t].pc \in Passing /\ th'[t].arg \in Coros)
      /\ th'[t].cur = th[t].cur \/ (th'[t].cur \notin Coros /\ th[t].cur \notin Coros)
      /\ th'[t].after = "get" \/ th'[t].pc = "w_add" => th[t].after = "get"
  BY <1>1, <1>3, FsClearItemDoes, Fields, Constants
     DEF Becomes, Returns, Home, Passing, Shape, ShapeOf, Caller, InDispatch, InRequest, Pc
<1>5. th[t].cur \in Coros => CurStatus(t)' = CurStatus(t)
  BY <1>1, <1>3, FsClearItemDoes, Fields, Constants
     DEF Becomes, Returns, Home, CurStatus, Shape, ShapeOf, Caller, InDispatch, InRequest, Pc
<1>6. QED
  BY <1>2, <1>3, <1>4, <1>5, KeepThread

\* Where the coroutines are after FsWait.
LEMMA WhereFsWait ==
  ASSUME Base, Where, NEW t \in Threads, Others(t), t = Fs /\ FsWait
  PROVE  Where'
<1>1. Types /\ Shaped /\ th \in [Threads -> ThRec]
  BY DEF Base, Types
<1>2. UNCHANGED <<next_tick_queue, lost, fs_queue, edges, handle, armed, coro, watching>>
  BY DEF FsWait, tickq, nodes, fsq, cos, watch
<1>3. Shape(t) /\ Pc(t) # "d_arm" /\ ~(th[t].pc \in Passing /\ th[t].arg \in Coros)
  BY <1>1, FsWaitDoes, Constants DEF Shaped, Shape, ShapeOf, Pc, Passing, WithArg, InRequest
<1>4. /\ th'[t].pc # "d_arm" /\ ~(th'[t].pc \in Passing /\ th'[t].arg \in Coros)
      /\ th'[t].cur = th[t].cur \/ (th'[t].cur \notin Coros /\ th[t].cur \notin Coros)
      /\ th'[t].after = "get" \/ th'[t].pc = "w_add" => th[t].after = "get"
  BY <1>1, <1>3, FsWaitDoes, Fields, Constants
     DEF Becomes, Returns, Home, Passing, Shape, ShapeOf, Caller, InDispatch, InRequest, Pc
<1>5. th[t].cur \in Coros => CurStatus(t)' = CurStatus(t)
  BY <1>1, <1>3, FsWaitDoes, Fields, Constants
     DEF Becomes, Returns, Home, CurStatus, Shape, ShapeOf, Caller, InDispatch, InRequest, Pc
<1>6. QED
  BY <1>2, <1>3, <1>4, <1>5, KeepThread

\* Where the coroutines are after FsInterrupted.
LEMMA WhereFsInterrupted ==
  ASSUME Base, Where, NEW t \in Threads, Others(t), t = Fs /\ FsInterrupted
  PROVE  Where'
<1>1. Types /\ Shaped /\ th \in [Threads -> ThRec]
  BY DEF Base, Types
<1>2. UNCHANGED <<next_tick_queue, lost, fs_queue, edges, handle, armed, coro, watching>>
  BY DEF FsInterrupted, tickq, nodes, fsq, cos, watch
<1>3. Shape(t) /\ Pc(t) # "d_arm" /\ ~(th[t].pc \in Passing /\ th[t].arg \in Coros)
  BY <1>1, FsInterruptedDoes, Constants DEF Shaped, Shape, ShapeOf, Pc, Passing, WithArg,
    InRequest
<1>4. /\ th'[t].pc # "d_arm" /\ ~(th'[t].pc \in Passing /\ th'[t].arg \in Coros)
      /\ th'[t].cur = th[t].cur \/ (th'[t].cur \notin Coros /\ th[t].cur \notin Coros)
      /\ th'[t].after = "get" \/ th'[t].pc = "w_add" => th[t].after = "get"
  BY <1>1, <1>3, FsInterruptedDoes, Fields, Constants
     DEF Becomes, Returns, Home, Passing, Shape, ShapeOf, Caller, InDispatch, InRequest, Pc
<1>5. th[t].cur \in Coros => CurStatus(t)' = CurStatus(t)
  BY <1>1, <1>3, FsInterruptedDoes, Fields, Constants
     DEF Becomes, Returns, Home, CurStatus, Shape, ShapeOf, Caller, InDispatch, InRequest, Pc
<1>6. QED
  BY <1>2, <1>3, <1>4, <1>5, KeepThread

\* Where the coroutines are after DispatchGet, when there is none to take.
LEMMA WhereDispatchGetEmpty ==
  ASSUME Base, Where, NEW t \in Threads, Others(t), DispatchGet(t), next_tick_queue = <<>>
  PROVE  Where'
<1>1. Types /\ Shaped /\ th \in [Threads -> ThRec]
  BY DEF Base, Types
<1>2. UNCHANGED <<next_tick_queue, lost, fs_queue, edges, handle, armed, coro, watching>>
  BY DEF DispatchGet, TickGet, tickq, nodes, fsq, cos, watch
<1>3. Shape(t) /\ Pc(t) # "d_arm" /\ ~(th[t].pc \in Passing /\ th[t].arg \in Coros)
  BY <1>1, DispatchGetDoes, Constants DEF Shaped, Shape, ShapeOf, Pc, Passing, WithArg, InRequest
<1>4. /\ th'[t].pc # "d_arm" /\ ~(th'[t].pc \in Passing /\ th'[t].arg \in Coros)
      /\ th'[t].cur = th[t].cur \/ (th'[t].cur \notin Coros /\ th[t].cur \notin Coros)
      /\ th'[t].after = "get" \/ th'[t].pc = "w_add" => th[t].after = "get"
  BY <1>1, <1>3, DispatchGetDoes, Fields, Constants
     DEF Becomes, Returns, Home, Passing, Shape, ShapeOf, Caller, InDispatch, InRequest, Pc
<1>5. th[t].cur \in Coros => CurStatus(t)' = CurStatus(t)
  BY <1>1, <1>3, DispatchGetDoes, Fields, Constants
     DEF Becomes, Returns, Home, CurStatus, Shape, ShapeOf, Caller, InDispatch, InRequest, Pc
<1>6. QED
  BY <1>2, <1>3, <1>4, <1>5, KeepThread

\* Where the coroutines are after WorkerGet, when there is none to take.
LEMMA WhereWorkerGetEmpty ==
  ASSUME Base, Where, NEW t \in Threads, Others(t), WorkerGet(t), next_tick_queue = <<>>
  PROVE  Where'
<1>1. Types /\ Shaped /\ th \in [Threads -> ThRec]
  BY DEF Base, Types
<1>2. UNCHANGED <<next_tick_queue, lost, fs_queue, edges, handle, armed, coro, watching>>
  BY DEF WorkerGet, TickGet, tickq, nodes, fsq, cos, watch
<1>3. Shape(t) /\ Pc(t) # "d_arm" /\ ~(th[t].pc \in Passing /\ th[t].arg \in Coros)
  BY <1>1, WorkerGetDoes, Constants DEF Shaped, Shape, ShapeOf, Pc, Passing, WithArg, InRequest
<1>4. /\ th'[t].pc # "d_arm" /\ ~(th'[t].pc \in Passing /\ th'[t].arg \in Coros)
      /\ th'[t].cur = th[t].cur \/ (th'[t].cur \notin Coros /\ th[t].cur \notin Coros)
      /\ th'[t].after = "get" \/ th'[t].pc = "w_add" => th[t].after = "get"
  BY <1>1, <1>3, WorkerGetDoes, Fields, Constants
     DEF Becomes, Returns, Home, Passing, Shape, ShapeOf, Caller, InDispatch, InRequest, Pc
<1>5. th[t].cur \in Coros => CurStatus(t)' = CurStatus(t)
  BY <1>1, <1>3, WorkerGetDoes, Fields, Constants
     DEF Becomes, Returns, Home, CurStatus, Shape, ShapeOf, Caller, InDispatch, InRequest, Pc
<1>6. QED
  BY <1>2, <1>3, <1>4, <1>5, KeepThread

\* Where the coroutines are after FsGet, when there is none to take.
LEMMA WhereFsGetEmpty ==
  ASSUME Base, Where, NEW t \in Threads, Others(t), t = Fs /\ FsGet, fs_queue = <<>>
  PROVE  Where'
<1>1. Types /\ Shaped /\ th \in [Threads -> ThRec]
  BY DEF Base, Types
<1>2. UNCHANGED <<next_tick_queue, lost, fs_queue, edges, handle, armed, coro, watching>>
  BY DEF FsGet, tickq, nodes, fsq, cos, watch
<1>3. Shape(t) /\ Pc(t) # "d_arm" /\ ~(th[t].pc \in Passing /\ th[t].arg \in Coros)
  BY <1>1, FsGetDoes, Constants DEF Shaped, Shape, ShapeOf, Pc, Passing, WithArg, InRequest
<1>4. /\ th'[t].pc # "d_arm" /\ ~(th'[t].pc \in Passing /\ th'[t].arg \in Coros)
      /\ th'[t].cur = th[t].cur \/ (th'[t].cur \notin Coros /\ th[t].cur \notin Coros)
      /\ th'[t].after = "get" \/ th'[t].pc = "w_add" => th[t].after = "get"
  BY <1>1, <1>3, FsGetDoes, Fields, Constants
     DEF Becomes, Returns, Home, Passing, Shape, ShapeOf, Caller, InDispatch, InRequest, Pc
<1>5. th[t].cur \in Coros => CurStatus(t)' = CurStatus(t)
  BY <1>1, <1>3, FsGetDoes, Fields, Constants
     DEF Becomes, Returns, Home, CurStatus, Shape, ShapeOf, Caller, InDispatch, InRequest, Pc
<1>6. QED
  BY <1>2, <1>3, <1>4, <1>5, KeepThread

\* A thread that keeps its coroutine keeps its place.
LEMMA CurKept ==
  ASSUME Where, NEW t \in Threads, NEW c \in Coros, th[t].cur = c, coro'[c] = coro[c],
         c \in watching => c \in watching', CurStatus(t)' = CurStatus(t),
         th'[t].after = "get" \/ th'[t].pc = "w_add" => th[t].after = "get" \/ th[t].pc = "w_add"
  PROVE  CurOk(t, c)'
<1>1. At(CurSpot(t), c) /\ CurSpot(t) \in Spots
  BY ThreadAt, SpotKinds
<1>2. CurOk(t, c)
  BY <1>1, OkKinds DEF Where, Status
<1>3. QED
  BY <1>2 DEF CurOk, Pc

\* The state of the coroutine at a place.
LEMMA OkAt ==
  ASSUME Where, NEW s \in Spots, NEW c \in Coros, At(s, c)
  PROVE  Ok(s, c)
BY DEF Where, Status

\* A coroutine that is not started or done is nowhere.
LEMMA Nowhere ==
  ASSUME Where, NEW c \in Coros, coro[c] \in {"unstarted", "done"}, NEW s \in Spots
  PROVE  ~At(s, c)
<1> SUFFICES ASSUME At(s, c) PROVE FALSE
  OBVIOUS
<1>1. Ok(s, c)
  BY OkAt
<1>2. CASE s \in {QueueSpot, LostSpot, FsSpot, EdgeSpot} \/ \E n \in EventfdNodes : s = NodeSpot(n)
  BY <1>1, <1>2, OkKinds
<1>3. ASSUME NEW u \in Threads, s = CurSpot(u) PROVE FALSE
  BY <1>1, <1>3, OkKinds DEF CurOk, CurStatus
<1>4. ASSUME NEW u \in Threads, s = ArgSpot(u) PROVE FALSE
  <2>1. ArgOk(u, c) /\ th[u].pc \in Passing
    BY <1>1, <1>4, OkKinds, ThreadAt
  <2>2. QED
    BY <2>1 DEF ArgOk, Passing, Pc
<1>5. QED
  BY <1>2, <1>3, <1>4, SpotKinds

\* A request is added behind the others.
LEMMA AppendIn ==
  ASSUME NEW S, NEW q \in Seq(S), NEW e \in S
  PROVE  \A x : InQueue(Append(q, e), x) <=> InQueue(q, x) \/ x = e
<1> DEFINE n == Len(q)
           p == Append(q, e)
<1>1. /\ n \in Nat /\ Len(p) = n + 1 /\ p[n + 1] = e
      /\ \A i \in 1..n : p[i] = q[i]
  OBVIOUS
<1> HIDE DEF p, n
<1>2. ASSUME NEW x, \E i \in 1..n : q[i] = x PROVE \E i \in 1..(n + 1) : p[i] = x
  BY <1>1, <1>2
<1>3. ASSUME NEW x, \E i \in 1..(n + 1) : p[i] = x
      PROVE  (\E i \in 1..n : q[i] = x) \/ x = e
  BY <1>1, <1>3
<1>4. \E i \in 1..(n + 1) : p[i] = e
  BY <1>1
<1>5. QED
  BY <1>1, <1>2, <1>3, <1>4 DEF InQueue, n, p

\* The first request is taken.
LEMMA TailIn ==
  ASSUME NEW S, NEW q \in Seq(S), q # <<>>, NEW C,
         \A i, j \in 1..Len(q) : q[i] = q[j] /\ q[i] \in C => i = j
  PROVE  /\ InQueue(q, Head(q))
         /\ \A x : x # Head(q) => (InQueue(Tail(q), x) <=> InQueue(q, x))
         /\ Head(q) \in C => ~InQueue(Tail(q), Head(q))
         /\ \A i, j \in 1..Len(Tail(q)) : Tail(q)[i] = Tail(q)[j] /\ Tail(q)[i] \in C => i = j
<1> DEFINE n == Len(q)
           p == Tail(q)
<1>1. /\ n \in Nat /\ n >= 1 /\ Len(p) = n - 1 /\ Head(q) = q[1]
      /\ \A i \in 1..(n - 1) : p[i] = q[i + 1]
  OBVIOUS
<1>2. \A i, j \in 1..n : q[i] = q[j] /\ q[i] \in C => i = j
  OBVIOUS
<1> HIDE DEF p, n
<1>3. \A i, j \in 1..(n - 1) : p[i] = p[j] /\ p[i] \in C => i = j
  BY <1>1, <1>2
<1>4. ASSUME NEW x, \E i \in 1..(n - 1) : p[i] = x
      PROVE  (\E i \in 1..n : q[i] = x) /\ (x \in C => x # q[1])
  <2>1. PICK i \in 1..(n - 1) : p[i] = x
    BY <1>4
  <2>2. i + 1 \in 1..n /\ q[i + 1] = x /\ i + 1 # 1
    BY <1>1, <2>1
  <2>3. QED
    BY <1>1, <1>2, <2>2
<1>5. ASSUME NEW x, \E i \in 1..n : q[i] = x, x # q[1]
      PROVE  \E i \in 1..(n - 1) : p[i] = x
  <2>1. PICK i \in 1..n : q[i] = x
    BY <1>5
  <2>2. i - 1 \in 1..(n - 1) /\ p[i - 1] = x
    BY <1>1, <1>5, <2>1
  <2>3. QED
    BY <2>2
<1>6. \E i \in 1..n : q[i] = q[1]
  BY <1>1
<1>7. InQueue(q, Head(q))
  BY <1>1, <1>6 DEF InQueue, n
<1>8. \A x : x # Head(q) => (InQueue(p, x) <=> InQueue(q, x))
  BY <1>1, <1>4, <1>5 DEF InQueue, n
<1>9. Head(q) \in C => ~InQueue(p, Head(q))
  BY <1>1, <1>4 DEF InQueue
<1>10. QED
  BY <1>1, <1>3, <1>7, <1>8, <1>9 DEF p

\* dispatch() gives the tick at the head of the queue to its node.
LEMMA WhereDispatchGet ==
  ASSUME Base, Where, QueuesDistinct, NEW t \in Threads, Others(t), DispatchGet(t),
         next_tick_queue # <<>>
  PROVE  Where'
<1>1. Types /\ Shaped /\ NodesOnce /\ th \in [Threads -> ThRec]
  BY DEF Base, Types, Nodes
<1>2. PICK n \in EventfdNodes : n = th[t].node /\ Pc(t) = "d_get"
  BY <1>1 DEF DispatchGet, Shaped, Shape, ShapeOf, WithNode
<1>3. PICK c0 \in Coros : c0 = Head(next_tick_queue)
  BY <1>1, TailType DEF Types
<1>4. /\ UNCHANGED <<lost, fs_queue, edges, armed, coro, watching>>
      /\ next_tick_queue' = Tail(next_tick_queue)
      /\ handle' = [handle EXCEPT ![n] = c0]
  BY <1>2, <1>3 DEF DispatchGet, TickGet, fsq, cos, watch
<1>5. handle'[n] = c0 /\ \A m \in EventfdNodes : m # n => handle'[m] = handle[m]
  BY <1>1, <1>4 DEF Types
<1>6. /\ th'[t].pc = "d_arm" /\ th'[t].ret = th[t].ret /\ th'[t].after = th[t].after
      /\ th'[t].cur = th[t].cur /\ th'[t].node = n
  BY <1>1, <1>2, DispatchGetDoes DEF Becomes
<1>7. /\ InQueue(next_tick_queue, c0) /\ ~InQueue(next_tick_queue', c0)
      /\ \A x : x # c0 => (InQueue(next_tick_queue', x) <=> InQueue(next_tick_queue, x))
  BY <1>1, <1>3, <1>4, GetQueue DEF Types, QueuesDistinct
<1>8. Loaded(n)' /\ ~Loaded(n)
  <2>1. Loaded(n)'
    BY <1>6 DEF Loaded, Pc
  <2>2. n \notin armed /\ \A u \in Threads : th[u].node = n => u = t
    BY <1>1, <1>2 DEF NodesOnce
  <2>3. QED
    BY <1>2, <2>1, <2>2 DEF Loaded, Pc
<1>9. ASSUME NEW m \in EventfdNodes, m # n PROVE Loaded(m)' <=> Loaded(m)
  <2>1. \A u \in Threads \ {t} : /\ th'[u].node = th[u].node
                                 /\ th'[u].pc = "d_arm" <=> th[u].pc = "d_arm"
    BY DEF Others, Still
  <2>2. QED
    BY <1>2, <1>4, <1>6, <1>9, <2>1 DEF Loaded, Pc
<1>10. PICK s0, s1 \in Spots : s0 = QueueSpot /\ s1 = NodeSpot(n)
  BY SpotKinds
<1>11. \A s \in Spots \ {s0, s1} : SameAt(s)
  <2>1. PICK D : D = {s0, s1}
    OBVIOUS
  <2>2. \A s \in Spots \ D : SameAt(s)
    BY <1>2, <1>4, <1>5, <1>6, <1>9, <1>10, <2>1, SameSpots DEF Passing, Pc
  <2>3. QED
    BY <2>1, <2>2
<1>12. s0 # s1 /\ At(s0, c0) /\ ~At(s0, c0)' /\ At(s1, c0)'
  BY <1>5, <1>7, <1>8, <1>10, AtKinds, AtKindsNext, SpotsDiffer
<1>13. Ok(s1, c0)'
  BY <1>4, <1>10, <1>12, OkAt, OkKinds, OkKindsNext
<1>14. ASSUME NEW c \in Coros \ {c0}
       PROVE /\ At(s0, c)' <=> At(s0, c)
             /\ At(s1, c)' <=> At(s1, c)
             /\ At(CurSpot(t), c)' => CurOk(t, c)'
             /\ At(ArgSpot(t), c)' => ArgOk(t, c)'
  <2>1. At(s0, c)' <=> At(s0, c)
    BY <1>7, <1>10, AtKinds, AtKindsNext
  <2>2. ~At(s1, c)' /\ ~At(s1, c)
    BY <1>5, <1>8, <1>10, AtKinds, AtKindsNext
  <2>3. ~At(ArgSpot(t), c)'
    BY <1>6, ThreadAt DEF Passing
  <2>4. At(CurSpot(t), c)' => CurOk(t, c)'
    <3>1. CurStatus(t)' = CurStatus(t)
      BY <1>2, <1>6 DEF CurStatus, Pc, InDispatch
    <3>2. QED
      BY <1>4, <1>6, <3>1, ThreadAt, CurKept
  <2>5. QED
    BY <2>1, <2>2, <2>3, <2>4
<1>15. QED
  BY <1>4, <1>11, <1>12, <1>13, <1>14, Move

\* The tick is put: at the end of the queue, or where nobody finds it.
LEMMA WherePutTick ==
  ASSUME Base, Where, NEW t \in Threads, Others(t), PutTick(t)
  PROVE  Where'
<1>1. Types /\ Shaped /\ th \in [Threads -> ThRec] /\ Shape(t)
  BY DEF Base, Types, Shaped
<1>2. PICK c0 \in Coros : c0 = th[t].arg /\ Pc(t) = "t_put"
  BY <1>1 DEF PutTick, Shape, ShapeOf
<1>3. UNCHANGED <<fs_queue, edges, armed, handle, coro, watching>>
  BY DEF PutTick, nodes, fsq, cos, watch
<1>4. /\ th'[t].pc = "d_pop" /\ th'[t].ret = th[t].ret /\ th'[t].after = th[t].after
      /\ th'[t].cur = th[t].cur /\ th[t].ret # "resume"
  <2>1. th[t].ret # "resume"
    BY <1>1, <1>2, Fields DEF Shape, ShapeOf, Caller
  <2>2. QED
    BY <1>1, <2>1, PutTickDoes DEF Becomes
<1>5. \A n : Loaded(n)' <=> Loaded(n)
  BY <1>2, <1>3, <1>4, LoadedSame
<1>6. PICK s1 \in {QueueSpot, LostSpot} :
        /\ s1 # QueueSpot => next_tick_queue' = next_tick_queue
        /\ s1 # LostSpot => lost' = lost
        /\ At(s1, c0)'
        /\ \A c \in Coros \ {c0} : At(s1, c)' <=> At(s1, c)
  <2>1. CASE shadowed
    <3>1. next_tick_queue' = next_tick_queue /\ lost' = lost \cup {c0}
      BY <1>2, <2>1 DEF PutTick, TickPut
    <3>2. /\ At(LostSpot, c0)'
          /\ \A c \in Coros \ {c0} : At(LostSpot, c)' <=> At(LostSpot, c)
      BY <3>1, AtKinds, AtKindsNext
    <3>3. QED
      BY <3>1, <3>2
  <2>2. CASE ~shadowed
    <3>1. next_tick_queue' = Append(next_tick_queue, c0) /\ lost' = lost
      BY <1>2, <2>2 DEF PutTick, TickPut
    <3>2. \A x : InQueue(next_tick_queue', x) <=> InQueue(next_tick_queue, x) \/ x = c0
      BY <1>1, <3>1, AppendIn DEF Types
    <3>3. /\ At(QueueSpot, c0)'
          /\ \A c \in Coros \ {c0} : At(QueueSpot, c)' <=> At(QueueSpot, c)
      BY <3>2, AtKinds, AtKindsNext
    <3>4. QED
      BY <3>1, <3>3
  <2>3. QED
    BY <2>1, <2>2
<1>7. PICK s0 \in Spots : s0 = ArgSpot(t) /\ s1 \in Spots /\ s0 # s1
  BY <1>6, SpotKinds, SpotsDiffer
<1>8. \A s \in Spots \ {s0, s1} : SameAt(s)
  <2>1. PICK D : D = {s0, s1}
    OBVIOUS
  <2>2. \A s \in Spots \ D : SameAt(s)
    BY <1>3, <1>4, <1>5, <1>6, <1>7, <2>1, SameSpots
  <2>3. QED
    BY <2>1, <2>2
<1>9. At(s0, c0) /\ ~At(s0, c0)'
  BY <1>2, <1>4, <1>7, ThreadAt DEF Passing, Pc
<1>10. Ok(s1, c0)'
  <2>1. ArgOk(t, c0)
    BY <1>7, <1>9, OkAt, OkKinds
  <2>2. coro'[c0] = "ticked"
    BY <1>2, <1>3, <2>1 DEF ArgOk
  <2>3. QED
    BY <1>6, <2>2, OkKindsNext
<1>11. ASSUME NEW c \in Coros \ {c0}
       PROVE /\ At(s0, c)' <=> At(s0, c)
             /\ At(CurSpot(t), c)' => CurOk(t, c)'
             /\ At(ArgSpot(t), c)' => ArgOk(t, c)'
  <2>1. ~At(ArgSpot(t), c)' /\ ~At(ArgSpot(t), c)
    BY <1>2, <1>4, ThreadAt DEF Passing
  <2>2. At(CurSpot(t), c)' => CurOk(t, c)'
    <3>1. CurStatus(t)' = CurStatus(t)
      BY <1>2, <1>4 DEF CurStatus, Pc, InDispatch
    <3>2. QED
      BY <1>3, <1>4, <3>1, ThreadAt, CurKept
  <2>3. QED
    BY <1>7, <2>1, <2>2
<1>12. QED
  BY <1>3, <1>6, <1>7, <1>8, <1>9, <1>10, <1>11, Move

\* A request is put: that of a coroutine, which moves, or one without a tick.
LEMMA WherePutRequest ==
  ASSUME Base, Where, NEW t \in Threads, Others(t), PutRequest(t)
  PROVE  Where'
<1>1. Types /\ Shaped /\ th \in [Threads -> ThRec] /\ Shape(t)
  BY DEF Base, Types, Shaped
<1>2. PICK r \in Requests : r = th[t].arg /\ Pc(t) = "r_put"
  <2>1. th[t].arg \in Requests \cup {Null} /\ th[t].arg # Null
    BY <1>1, Fields DEF PutRequest, Shape, ShapeOf, WithArg, InRequest
  <2>2. QED
    BY <2>1 DEF PutRequest
<1>3. /\ UNCHANGED <<next_tick_queue, lost, edges, armed, handle, coro, watching>>
      /\ fs_queue' = Append(fs_queue, r)
  BY <1>2 DEF PutRequest, tickq, nodes, cos, watch
<1>4. /\ th'[t].pc = "r_item" /\ th'[t].after = th[t].after /\ th'[t].cur = th[t].cur
  BY <1>1, PutRequestDoes DEF Becomes
<1>5. \A n : Loaded(n)' <=> Loaded(n)
  BY <1>2, <1>3, <1>4, LoadedSame
<1>6. \A x : InQueue(fs_queue', x) <=> InQueue(fs_queue, x) \/ x = r
  BY <1>1, <1>3, AppendIn DEF Types
<1>7. PICK s0, s1 \in Spots : s0 = ArgSpot(t) /\ s1 = FsSpot /\ s0 # s1
  BY SpotKinds, SpotsDiffer
<1>8. \A s \in Spots \ {s0, s1} : SameAt(s)
  <2>1. PICK D : D = {s0, s1}
    OBVIOUS
  <2>2. \A s \in Spots \ D : SameAt(s)
    BY <1>3, <1>4, <1>5, <1>7, <2>1, SameSpots
  <2>3. QED
    BY <2>1, <2>2
<1>9. ASSUME NEW c \in Coros, c # r
      PROVE /\ At(s0, c)' <=> At(s0, c)
            /\ At(s1, c)' <=> At(s1, c)
            /\ ~At(ArgSpot(t), c)'
  <2>1. ~At(ArgSpot(t), c)' /\ ~At(ArgSpot(t), c)
    BY <1>2, <1>4, <1>9, ThreadAt DEF Passing
  <2>2. At(s1, c)' <=> At(s1, c)
    BY <1>6, <1>7, <1>9, AtKinds, AtKindsNext
  <2>3. QED
    BY <1>7, <2>1, <2>2
<1>10. ASSUME NEW c \in Coros PROVE At(CurSpot(t), c)' => CurOk(t, c)'
  <2>1. CurStatus(t)' = CurStatus(t)
    BY <1>2, <1>4 DEF CurStatus, Pc, InDispatch
  <2>2. QED
    BY <1>3, <1>4, <2>1, ThreadAt, CurKept
<1>11. CASE r \in Coros
  <2>1. At(s0, r) /\ ~At(s0, r)' /\ At(s1, r)'
    <3>1. At(s0, r) /\ ~At(s0, r)'
      BY <1>2, <1>4, <1>7, ThreadAt DEF Passing, Pc
    <3>2. At(s1, r)'
      BY <1>6, <1>7, AtKindsNext
    <3>3. QED
      BY <3>1, <3>2
  <2>2. Ok(s1, r)'
    <3>1. ArgOk(t, r)
      BY <1>7, <1>11, <2>1, OkAt, OkKinds
    <3>2. QED
      BY <1>2, <1>3, <1>7, <3>1, OkKindsNext DEF ArgOk
  <2>3. QED
    BY <1>3, <1>7, <1>8, <1>9, <1>10, <1>11, <2>1, <2>2, Move
<1>12. CASE r \notin Coros
  <2>1. \A s \in Spots : SameAt(s)
    BY <1>8, <1>9, <1>12 DEF SameAt
  <2>2. QED
    BY <1>3, <1>9, <1>10, <1>12, <2>1, Keep
<1>13. QED
  BY <1>11, <1>12

\* A worker takes the tick at the head of the queue.
LEMMA WhereWorkerGet ==
  ASSUME Base, Where, QueuesDistinct, NEW t \in Threads, Others(t), WorkerGet(t),
         next_tick_queue # <<>>
  PROVE  Where'
<1>1. Types /\ Shaped /\ th \in [Threads -> ThRec] /\ Shape(t) /\ Pc(t) = "get"
  BY DEF Base, Types, Shaped, WorkerGet
<1>2. PICK c0 \in Coros : c0 = Head(next_tick_queue)
  BY <1>1, TailType DEF Types
<1>3. /\ UNCHANGED <<lost, fs_queue, edges, armed, handle, coro, watching>>
      /\ next_tick_queue' = Tail(next_tick_queue)
  BY DEF WorkerGet, TickGet, nodes, fsq, cos, watch
<1>4. /\ th'[t].pc = "d_pop" /\ th'[t].ret = "resume" /\ th'[t].after = th[t].after
      /\ th'[t].cur = c0 /\ th[t].cur = Null /\ th[t].after = "finish"
  <2>1. th[t].cur = Null /\ th[t].after = "finish"
    BY <1>1 DEF Shape, ShapeOf
  <2>2. QED
    BY <1>1, <1>2, <2>1, WorkerGetDoes DEF Becomes
<1>5. \A n : Loaded(n)' <=> Loaded(n)
  BY <1>1, <1>3, <1>4, LoadedSame
<1>6. /\ InQueue(next_tick_queue, c0) /\ ~InQueue(next_tick_queue', c0)
      /\ \A x : x # c0 => (InQueue(next_tick_queue', x) <=> InQueue(next_tick_queue, x))
  BY <1>1, <1>2, <1>3, GetQueue DEF Types, QueuesDistinct
<1>7. PICK s0, s1 \in Spots : s0 = QueueSpot /\ s1 = CurSpot(t) /\ s0 # s1
  BY SpotKinds, SpotsDiffer
<1>8. \A s \in Spots \ {s0, s1} : SameAt(s)
  <2>1. PICK D : D = {s0, s1}
    OBVIOUS
  <2>2. \A s \in Spots \ D : SameAt(s)
    BY <1>1, <1>3, <1>4, <1>5, <1>7, <2>1, SameSpots DEF Passing, Pc
  <2>3. QED
    BY <2>1, <2>2
<1>9. At(s0, c0) /\ ~At(s0, c0)' /\ At(s1, c0)'
  <2>1. At(s1, c0)'
    BY <1>4, <1>7, ThreadAt
  <2>2. QED
    BY <1>6, <1>7, <2>1, AtKinds, AtKindsNext
<1>10. Ok(s1, c0)'
  <2>1. coro[c0] = "ticked"
    BY <1>7, <1>9, OkAt, OkKinds
  <2>2. CurOk(t, c0)'
    BY <1>3, <1>4, <2>1 DEF CurOk, CurStatus, Pc, InDispatch
  <2>3. QED
    BY <1>7, <2>2, OkKindsNext
<1>11. ASSUME NEW c \in Coros \ {c0}
       PROVE /\ At(s0, c)' <=> At(s0, c)
             /\ ~At(CurSpot(t), c)' /\ ~At(CurSpot(t), c)
             /\ ~At(ArgSpot(t), c)'
  <2>1. At(s0, c)' <=> At(s0, c)
    BY <1>6, <1>7, AtKinds, AtKindsNext
  <2>2. ~At(CurSpot(t), c)' /\ ~At(CurSpot(t), c) /\ ~At(ArgSpot(t), c)'
    BY <1>4, ThreadAt, Constants DEF Passing
  <2>3. QED
    BY <2>1, <2>2
<1>12. QED
  BY <1>3, <1>7, <1>8, <1>9, <1>10, <1>11, Move

\* epoll_wait reports an eventfd node, whose tick the worker takes.
LEMMA WherePollEventFd ==
  ASSUME Base, Where, NEW t \in Threads, Others(t), NEW n \in EventfdNodes, PollEventFd(t, n)
  PROVE  Where'
<1>1. /\ Types /\ Shaped /\ NodesOnce /\ th \in [Threads -> ThRec] /\ Shape(t)
      /\ Pc(t) = "poll" /\ n \in armed
  BY DEF Base, Types, Shaped, Nodes, PollEventFd
<1>2. PICK c0 \in Coros : c0 = handle[n]
  BY <1>1 DEF NodesOnce
<1>3. /\ UNCHANGED <<next_tick_queue, lost, fs_queue, edges, handle, coro, watching>>
      /\ armed' = armed \ {n}
  BY DEF PollEventFd, tickq, nodes, fsq, cos, watch
<1>4. /\ th'[t].pc = "p_push" /\ th'[t].after = "finish"
      /\ th'[t].cur = c0 /\ th[t].cur = Null /\ th'[t].node = n
  <2>1. th[t].cur = Null /\ th[t].after = "finish"
    BY <1>1 DEF Shape, ShapeOf
  <2>2. QED
    BY <1>1, <1>2, <2>1, PollEventFdDoes DEF Becomes
<1>5. /\ Loaded(n) /\ ~Loaded(n)'
      /\ \A m \in EventfdNodes : m # n => (Loaded(m)' <=> Loaded(m))
  <2>1. \A u \in Threads : th[u].node # n
    BY <1>1 DEF NodesOnce
  <2>2. \A u \in Threads : /\ th'[u].pc = "d_arm" <=> th[u].pc = "d_arm"
                           /\ th[u].pc = "d_arm" => th'[u].node = th[u].node
    BY <1>1, <1>4 DEF Others, Still, Pc
  <2>3. QED
    BY <1>1, <1>3, <2>1, <2>2 DEF Loaded, Pc
<1>6. PICK s0, s1 \in Spots : s0 = NodeSpot(n) /\ s1 = CurSpot(t) /\ s0 # s1
  BY SpotKinds, SpotsDiffer
<1>7. \A s \in Spots \ {s0, s1} : SameAt(s)
  <2>1. PICK D : D = {s0, s1}
    OBVIOUS
  <2>2. \A m \in EventfdNodes : NodeSpot(m) \in D \/ (Loaded(m)' <=> Loaded(m))
    BY <1>5, <1>6, <2>1
  <2>3. \A s \in Spots \ D : SameAt(s)
    BY <1>1, <1>3, <1>4, <1>6, <2>1, <2>2, SameSpots DEF Passing, Pc
  <2>4. QED
    BY <2>1, <2>3
<1>8. At(s0, c0) /\ ~At(s0, c0)' /\ At(s1, c0)'
  <2>1. At(s1, c0)'
    BY <1>4, <1>6, ThreadAt
  <2>2. QED
    BY <1>2, <1>5, <1>6, <2>1, AtKinds, AtKindsNext
<1>9. Ok(s1, c0)'
  <2>1. coro[c0] = "ticked"
    BY <1>6, <1>8, OkAt, OkKinds
  <2>2. CurOk(t, c0)'
    BY <1>3, <1>4, <2>1 DEF CurOk, CurStatus, Pc
  <2>3. QED
    BY <1>6, <2>2, OkKindsNext
<1>10. ASSUME NEW c \in Coros \ {c0}
       PROVE /\ At(s0, c)' <=> At(s0, c)
             /\ ~At(CurSpot(t), c)' /\ ~At(CurSpot(t), c)
             /\ ~At(ArgSpot(t), c)'
  <2>1. ~At(s0, c)' /\ ~At(s0, c)
    BY <1>2, <1>3, <1>6, AtKinds, AtKindsNext
  <2>2. ~At(CurSpot(t), c)' /\ ~At(CurSpot(t), c) /\ ~At(ArgSpot(t), c)'
    BY <1>4, ThreadAt, Constants DEF Passing
  <2>3. QED
    BY <2>1, <2>2
<1>11. QED
  BY <1>3, <1>6, <1>7, <1>8, <1>9, <1>10, Move

\* epoll_wait reports a coroutine's descriptor: the only report to come.
LEMMA WherePollFd ==
  ASSUME Edges <= 1, Base, Where, NEW t \in Threads, Others(t), NEW c0 \in Coros, PollFd(t, c0)
  PROVE  Where'
<1>1. /\ Types /\ Shaped /\ th \in [Threads -> ThRec] /\ Shape(t)
      /\ Pc(t) = "poll" /\ edges[c0] > 0
  BY DEF Base, Types, Shaped, PollFd
<1>2. /\ UNCHANGED <<next_tick_queue, lost, fs_queue, armed, handle, watching>>
      /\ edges' = [edges EXCEPT ![c0] = @ - 1]
      /\ coro' = [coro EXCEPT ![c0] = "ticked"]
  BY DEF PollFd, tickq, nodes, fsq
<1>3. ~(edges'[c0] > 0) /\ \A c \in Coros \ {c0} : edges'[c] = edges[c]
  <2>1. edges \in [Coros -> 0..Edges] /\ Edges \in Nat
    BY <1>1, LoopAssumption DEF Types
  <2>2. edges[c0] = 1
    BY <1>1, <2>1
  <2>3. QED
    BY <1>2, <2>1, <2>2
<1>4. coro'[c0] = "ticked" /\ \A c \in Coros \ {c0} : coro'[c] = coro[c]
  BY <1>1, <1>2 DEF Types
<1>5. /\ th'[t].pc = "resume" /\ th'[t].after = "get"
      /\ th'[t].cur = c0 /\ th[t].cur = Null
  <2>1. th[t].cur = Null
    BY <1>1 DEF Shape, ShapeOf
  <2>2. QED
    BY <1>1, <2>1, PollFdDoes DEF Becomes
<1>6. \A n : Loaded(n)' <=> Loaded(n)
  BY <1>1, <1>2, <1>5, LoadedSame
<1>7. PICK s0, s1 \in Spots : s0 = EdgeSpot /\ s1 = CurSpot(t) /\ s0 # s1
  BY SpotKinds, SpotsDiffer
<1>8. \A s \in Spots \ {s0, s1} : SameAt(s)
  <2>1. PICK D : D = {s0, s1}
    OBVIOUS
  <2>2. \A s \in Spots \ D : SameAt(s)
    BY <1>1, <1>2, <1>5, <1>6, <1>7, <2>1, SameSpots DEF Passing, Pc
  <2>3. QED
    BY <2>1, <2>2
<1>9. At(s0, c0) /\ ~At(s0, c0)' /\ At(s1, c0)'
  <2>1. At(s1, c0)'
    BY <1>5, <1>7, ThreadAt
  <2>2. QED
    BY <1>1, <1>3, <1>7, <2>1, AtKinds, AtKindsNext
<1>10. Ok(s1, c0)'
  <2>1. c0 \in watching
    BY <1>7, <1>9, OkAt, OkKinds
  <2>2. CurOk(t, c0)'
    BY <1>2, <1>4, <1>5, <2>1 DEF CurOk, CurStatus, Pc
  <2>3. QED
    BY <1>7, <2>2, OkKindsNext
<1>11. ASSUME NEW c \in Coros \ {c0}
       PROVE /\ At(s0, c)' <=> At(s0, c)
             /\ ~At(CurSpot(t), c)' /\ ~At(CurSpot(t), c)
             /\ ~At(ArgSpot(t), c)'
  <2>1. At(s0, c)' <=> At(s0, c)
    BY <1>3, <1>7, AtKinds, AtKindsNext
  <2>2. ~At(CurSpot(t), c)' /\ ~At(CurSpot(t), c) /\ ~At(ArgSpot(t), c)'
    BY <1>5, ThreadAt, Constants DEF Passing
  <2>3. QED
    BY <2>1, <2>2
<1>12. QED
  BY <1>2, <1>4, <1>7, <1>8, <1>9, <1>10, <1>11, Move

\* A coroutine is called for the first time: it was nowhere.
LEMMA WhereCall ==
  ASSUME Base, Where, NEW t \in Threads, Others(t), NEW c0 \in Coros, Call(t, c0)
  PROVE  Where'
<1>1. /\ Types /\ Shaped /\ th \in [Threads -> ThRec] /\ Shape(t)
      /\ Pc(t) \in {"setup", "run"} /\ coro[c0] = "unstarted"
  BY DEF Base, Types, Shaped, Call
<1>2. /\ UNCHANGED <<next_tick_queue, lost, fs_queue, armed, handle, watching, edges>>
      /\ coro' = [coro EXCEPT ![c0] = "ticked"]
  BY DEF Call, tickq, nodes, fsq, watch
<1>3. coro'[c0] = "ticked" /\ \A c \in Coros \ {c0} : coro'[c] = coro[c]
  BY <1>1, <1>2 DEF Types
<1>4. /\ th'[t].pc = "t_put" /\ th'[t].after = th[t].after
      /\ th'[t].cur = th[t].cur /\ th'[t].arg = c0
  BY <1>1, CallDoes DEF Becomes
<1>5. \A n : Loaded(n)' <=> Loaded(n)
  BY <1>1, <1>2, <1>4, LoadedSame
<1>6. PICK s1 \in Spots : s1 = ArgSpot(t)
  BY SpotKinds
<1>7. \A s \in Spots \ {s1} : SameAt(s)
  <2>1. PICK D : D = {s1}
    OBVIOUS
  <2>2. \A s \in Spots \ D : SameAt(s)
    BY <1>1, <1>2, <1>4, <1>5, <1>6, <2>1, SameSpots
  <2>3. QED
    BY <2>1, <2>2
<1>8. At(s1, c0)' /\ Ok(s1, c0)'
  <2>1. ArgOk(t, c0)'
    BY <1>3, <1>4 DEF ArgOk, Pc
  <2>2. At(s1, c0)'
    BY <1>4, <1>6, ThreadAt DEF Passing
  <2>3. QED
    BY <1>6, <2>1, <2>2, OkKindsNext
<1>9. ASSUME NEW s \in Spots, At(s, c0)' PROVE s = s1
  <2>1. ~At(s, c0)
    BY <1>1, Nowhere
  <2>2. QED
    BY <1>7, <1>9, <2>1 DEF SameAt
<1>10. ASSUME NEW c \in Coros \ {c0}
       PROVE /\ \A s \in Spots : At(s, c)' <=> At(s, c)
             /\ At(CurSpot(t), c)' => CurOk(t, c)'
             /\ ~At(ArgSpot(t), c)'
  <2>1. ~At(ArgSpot(t), c)' /\ ~At(ArgSpot(t), c)
    BY <1>1, <1>4, ThreadAt DEF Passing, Pc
  <2>2. At(CurSpot(t), c)' => CurOk(t, c)'
    <3>1. CurStatus(t)' = CurStatus(t)
      BY <1>1, <1>4 DEF CurStatus, Pc, InDispatch
    <3>2. QED
      BY <1>2, <1>3, <1>4, <3>1, ThreadAt, CurKept
  <2>3. QED
    BY <1>6, <1>7, <2>1, <2>2 DEF SameAt
<1>11. QED
  BY <1>2, <1>3, <1>8, <1>9, <1>10, Relocate

\* A coroutine returns and is nowhere any more.
LEMMA WhereCoroReturns ==
  ASSUME Base, Where, NEW t \in Threads, Others(t), CoroReturns(t)
  PROVE  Where'
<1>1. /\ Types /\ Shaped /\ th \in [Threads -> ThRec] /\ Shape(t) /\ Pc(t) = "run"
  BY DEF Base, Types, Shaped, CoroReturns
<1>2. PICK c0 \in Coros : c0 = th[t].cur
  BY <1>1 DEF Shape, ShapeOf
<1>3. /\ UNCHANGED <<next_tick_queue, lost, fs_queue, armed, handle, edges>>
      /\ coro' = [coro EXCEPT ![c0] = "done"]
      /\ watching' = watching \ {c0}
  BY <1>2 DEF CoroReturns, tickq, nodes, fsq
<1>4. coro'[c0] = "done" /\ \A c \in Coros \ {c0} : coro'[c] = coro[c]
  BY <1>1, <1>3 DEF Types
<1>5. th'[t].pc \in {"finish", "get"} /\ th'[t].cur = Null
  BY <1>1, CoroReturnsStep, Fields DEF Becomes
<1>6. \A n : Loaded(n)' <=> Loaded(n)
  BY <1>1, <1>3, <1>5, LoadedSame
<1>7. PICK s1 \in Spots : s1 = CurSpot(t)
  BY SpotKinds
<1>8. \A s \in Spots \ {s1} : SameAt(s)
  <2>1. PICK D : D = {s1}
    OBVIOUS
  <2>2. \A s \in Spots \ D : SameAt(s)
    BY <1>1, <1>3, <1>5, <1>6, <1>7, <2>1, SameSpots DEF Passing, Pc
  <2>3. QED
    BY <2>1, <2>2
<1>9. \A c \in Coros : ~At(CurSpot(t), c)' /\ ~At(ArgSpot(t), c)'
  BY <1>5, ThreadAt, Constants DEF Passing
<1>10. ASSUME NEW s \in Spots PROVE ~At(s, c0)'
  <2>1. At(s1, c0)
    BY <1>2, <1>7, ThreadAt
  <2>2. s # s1 => ~At(s, c0)
    BY <2>1 DEF Where, AtMostOne
  <2>3. QED
    BY <1>7, <1>8, <1>9, <2>2 DEF SameAt
<1>11. ASSUME NEW c \in Coros \ {c0}, NEW s \in Spots PROVE At(s, c)' <=> At(s, c)
  <2>1. ~At(CurSpot(t), c)
    BY <1>2, ThreadAt
  <2>2. QED
    BY <1>7, <1>8, <1>9, <2>1 DEF SameAt
<1>12. QED
  BY <1>3, <1>4, <1>9, <1>10, <1>11, Relocate

\* A coroutine suspends: the thread no longer has it in hand but is about to
\* put its node.
LEMMA Suspends ==
  ASSUME Where, NEW t \in Threads, Others(t), NEW c0 \in Coros,
         th[t].cur = c0, th'[t].cur = Null, th'[t].arg = c0,
         th'[t].pc \in Passing, Pc(t) \notin Passing \cup {"d_arm"},
         UNCHANGED <<next_tick_queue, lost, fs_queue, edges, handle, armed, watching>>,
         \A c \in Coros \ {c0} : coro'[c] = coro[c],
         ArgOk(t, c0)'
  PROVE  Where'
<1>1. \A n : Loaded(n)' <=> Loaded(n)
  BY LoadedSame DEF Passing
<1>2. PICK s0, s1 \in Spots : s0 = CurSpot(t) /\ s1 = ArgSpot(t) /\ s0 # s1
  BY SpotKinds, SpotsDiffer
<1>3. \A s \in Spots \ {s0, s1} : SameAt(s)
  <2>1. PICK D : D = {s0, s1}
    OBVIOUS
  <2>2. \A s \in Spots \ D : SameAt(s)
    BY <1>1, <1>2, <2>1, SameSpots
  <2>3. QED
    BY <2>1, <2>2
<1>4. At(s0, c0) /\ ~At(s0, c0)' /\ At(s1, c0)'
  BY <1>2, ThreadAt, Constants
<1>5. Ok(s1, c0)'
  BY <1>2, OkKindsNext
<1>6. ASSUME NEW c \in Coros \ {c0}
      PROVE /\ ~At(CurSpot(t), c)' /\ ~At(CurSpot(t), c)
            /\ ~At(ArgSpot(t), c)' /\ ~At(ArgSpot(t), c)
  BY ThreadAt, Constants DEF Pc
<1>7. QED
  BY <1>2, <1>3, <1>4, <1>5, <1>6, Move

\* Where the coroutines are after Yield.
LEMMA WhereYield ==
  ASSUME Base, Where, NEW t \in Threads, Others(t), Yield(t)
  PROVE  Where'
<1>1. Types /\ Shaped /\ th \in [Threads -> ThRec] /\ Shape(t) /\ Pc(t) = "run"
  BY DEF Base, Types, Shaped, Yield
<1>2. PICK c0 \in Coros : c0 = th[t].cur
  BY <1>1 DEF Shape, ShapeOf
<1>3. /\ UNCHANGED <<next_tick_queue, lost, fs_queue, edges, handle, armed, watching>>
      /\ coro' = [coro EXCEPT ![c0] = "ticked"]
  BY <1>2 DEF Yield, tickq, nodes, fsq, watch
<1>4. coro'[c0] = "ticked" /\ \A c \in Coros \ {c0} : coro'[c] = coro[c]
  BY <1>1, <1>3 DEF Types
<1>5. th'[t].pc = "t_put" /\ th'[t].cur = Null /\ th'[t].arg = c0
  BY <1>1, <1>2, YieldDoes DEF Becomes
<1>6. ArgOk(t, c0)'
  BY <1>4, <1>5 DEF ArgOk, Pc
<1>7. QED
  BY <1>1, <1>2, <1>3, <1>4, <1>5, <1>6, Suspends DEF Passing

\* Where the coroutines are after FsRequest.
LEMMA WhereFsRequest ==
  ASSUME Base, Where, NEW t \in Threads, Others(t), FsRequest(t)
  PROVE  Where'
<1>1. Types /\ Shaped /\ th \in [Threads -> ThRec] /\ Shape(t) /\ Pc(t) = "run"
  BY DEF Base, Types, Shaped, FsRequest
<1>2. PICK c0 \in Coros : c0 = th[t].cur
  BY <1>1 DEF Shape, ShapeOf
<1>3. /\ UNCHANGED <<next_tick_queue, lost, fs_queue, edges, handle, armed, watching>>
      /\ coro' = [coro EXCEPT ![c0] = "waiting"]
  BY <1>2 DEF FsRequest, tickq, nodes, fsq, watch
<1>4. coro'[c0] = "waiting" /\ \A c \in Coros \ {c0} : coro'[c] = coro[c]
  BY <1>1, <1>3 DEF Types
<1>5. th'[t].pc = "r_put" /\ th'[t].cur = Null /\ th'[t].arg = c0
  BY <1>1, <1>2, FsRequestDoes DEF Becomes
<1>6. ArgOk(t, c0)'
  BY <1>4, <1>5 DEF ArgOk, Pc
<1>7. QED
  BY <1>1, <1>2, <1>3, <1>4, <1>5, <1>6, Suspends DEF Passing

\* Where the coroutines are after linuxAddFd.
LEMMA WherelinuxAddFd ==
  ASSUME Base, Where, NEW t \in Threads, Others(t), linuxAddFd(t)
  PROVE  Where'
<1>1. Types /\ Shaped /\ th \in [Threads -> ThRec] /\ Shape(t) /\ Pc(t) = "w_add"
  BY DEF Base, Types, Shaped, linuxAddFd
<1>2. PICK c0 \in Coros : c0 = th[t].cur
  BY <1>1 DEF Shape, ShapeOf
<1>3. /\ UNCHANGED <<next_tick_queue, lost, fs_queue, edges, handle, armed, watching>>
      /\ coro' = [coro EXCEPT ![c0] = "polling"]
  BY <1>2 DEF linuxAddFd, tickq, nodes, fsq, watch
<1>4. coro'[c0] = "polling" /\ \A c \in Coros \ {c0} : coro'[c] = coro[c]
  BY <1>1, <1>3 DEF Types
<1>5. th'[t].pc = "w_ctl" /\ th'[t].cur = Null /\ th'[t].arg = c0
  BY <1>1, <1>2, linuxAddFdDoes DEF Becomes
<1>6. ArgOk(t, c0)'
  <2>1. At(CurSpot(t), c0) /\ CurSpot(t) \in Spots
    BY <1>2, ThreadAt, SpotKinds
  <2>2. CurOk(t, c0)
    BY <2>1, OkAt, OkKinds
  <2>3. c0 \in watching'
    BY <1>1, <1>3, <2>2 DEF CurOk
  <2>4. QED
    BY <1>4, <1>5, <2>3 DEF ArgOk, Pc
<1>7. QED
  BY <1>1, <1>2, <1>3, <1>4, <1>5, <1>6, Suspends DEF Passing

\* Where the coroutines are after FsTick.
LEMMA WhereFsTick ==
  ASSUME Base, Where, NEW t \in Threads, Others(t), t = Fs /\ FsTick
  PROVE  Where'
<1>1. Types /\ Shaped /\ th \in [Threads -> ThRec] /\ Shape(t) /\ Pc(t) = "f_tick"
  BY DEF Base, Types, Shaped, FsTick
<1>2. PICK c0 \in Coros : c0 = th[t].cur
  BY <1>1 DEF Shape, ShapeOf
<1>3. /\ UNCHANGED <<next_tick_queue, lost, fs_queue, edges, handle, armed, watching>>
      /\ coro' = [coro EXCEPT ![c0] = "ticked"]
  BY <1>2 DEF FsTick, tickq, nodes, fsq, watch
<1>4. coro'[c0] = "ticked" /\ \A c \in Coros \ {c0} : coro'[c] = coro[c]
  BY <1>1, <1>3 DEF Types
<1>5. th'[t].pc = "t_put" /\ th'[t].cur = Null /\ th'[t].arg = c0
  BY <1>1, <1>2, FsTickDoes DEF Becomes
<1>6. ArgOk(t, c0)'
  BY <1>4, <1>5 DEF ArgOk, Pc
<1>7. QED
  BY <1>1, <1>2, <1>3, <1>4, <1>5, <1>6, Suspends DEF Passing

\* The descriptor is added: a report of it may come.
LEMMA WhereCtlAddFd ==
  ASSUME Base, Where, NEW t \in Threads, Others(t), CtlAddFd(t)
  PROVE  Where'
<1>1. Types /\ Shaped /\ th \in [Threads -> ThRec] /\ Shape(t) /\ Pc(t) = "w_ctl"
  BY DEF Base, Types, Shaped, CtlAddFd
<1>2. PICK c0 \in Coros : c0 = th[t].arg
  BY <1>1 DEF Shape, ShapeOf
<1>3. /\ UNCHANGED <<next_tick_queue, lost, fs_queue, handle, armed, watching, coro>>
      /\ edges' = [edges EXCEPT ![c0] = Edges]
  BY <1>2 DEF CtlAddFd, tickq, nodes, fsq, cos
<1>4. \A c \in Coros \ {c0} : edges'[c] = edges[c]
  BY <1>1, <1>3 DEF Types
<1>5. th[t].cur = Null /\ th'[t].pc \in {"finish", "get"} /\ th'[t].cur = Null
  <2>1. th[t].ret = th[t].after /\ th[t].cur = Null
    BY <1>1 DEF Shape, ShapeOf
  <2>2. th[t].ret \in {"finish", "get"}
    BY <1>1, <2>1, Fields
  <2>3. QED
    BY <1>1, <2>1, <2>2, CtlAddFdDoes DEF Returns, Becomes
<1>6. \A n : Loaded(n)' <=> Loaded(n)
  BY <1>1, <1>3, <1>5, LoadedSame
<1>7. PICK s0, s1 \in Spots : s0 = ArgSpot(t) /\ s1 = EdgeSpot /\ s0 # s1
  BY SpotKinds, SpotsDiffer
<1>8. \A s \in Spots \ {s0, s1} : SameAt(s)
  <2>1. PICK D : D = {s0, s1}
    OBVIOUS
  <2>2. \A s \in Spots \ D : SameAt(s)
    BY <1>3, <1>5, <1>6, <1>7, <2>1, SameSpots
  <2>3. QED
    BY <2>1, <2>2
<1>9. \A c \in Coros : ~At(CurSpot(t), c)' /\ ~At(ArgSpot(t), c)'
  BY <1>5, ThreadAt, Constants DEF Passing
<1>10. At(s0, c0) /\ coro'[c0] = "polling" /\ c0 \in watching'
  <2>1. At(s0, c0)
    BY <1>1, <1>2, <1>7, ThreadAt DEF Passing, Pc
  <2>2. ArgOk(t, c0)
    BY <1>7, <2>1, OkAt, OkKinds
  <2>3. QED
    BY <1>1, <1>3, <2>1, <2>2 DEF ArgOk
<1>11. ASSUME NEW s \in Spots, At(s, c0)' PROVE s = s1 /\ Ok(s, c0)'
  <2>1. s # s0
    BY <1>7, <1>9, <1>11
  <2>2. s # s1 => ~At(s, c0)
    BY <1>10, <2>1 DEF Where, AtMostOne
  <2>3. s = s1
    BY <1>8, <1>11, <2>1, <2>2 DEF SameAt
  <2>4. QED
    BY <1>7, <1>10, <2>3, OkKindsNext
<1>12. ASSUME NEW c \in Coros \ {c0}, NEW s \in Spots PROVE At(s, c)' <=> At(s, c)
  <2>1. ~At(ArgSpot(t), c)
    BY <1>2, ThreadAt
  <2>2. At(EdgeSpot, c)' <=> At(EdgeSpot, c)
    BY <1>4, AtKinds, AtKindsNext
  <2>3. QED
    BY <1>7, <1>8, <1>9, <2>1, <2>2 DEF SameAt
<1>13. QED
  BY <1>3, <1>9, <1>10, <1>11, <1>12, Relocate

\* The coroutine in hand is resumed.
LEMMA WhereResume ==
  ASSUME Base, Where, NEW t \in Threads, Others(t), Resume(t)
  PROVE  Where'
<1>1. Types /\ Shaped /\ th \in [Threads -> ThRec] /\ Shape(t) /\ Pc(t) = "resume"
  BY DEF Base, Types, Shaped, Resume
<1>2. PICK c0 \in Coros : c0 = th[t].cur
  BY <1>1 DEF Shape, ShapeOf
<1>3. /\ UNCHANGED <<next_tick_queue, lost, fs_queue, handle, armed, watching, edges>>
      /\ coro' = [coro EXCEPT ![c0] = "running"]
  BY <1>2 DEF Resume, tickq, nodes, fsq, watch
<1>4. coro'[c0] = "running" /\ \A c \in Coros \ {c0} : coro'[c] = coro[c]
  BY <1>1, <1>3 DEF Types
<1>5. /\ th'[t].pc \in {"w_del", "run"} /\ th'[t].cur = c0 /\ th'[t].after = th[t].after
  BY <1>1, <1>2, ResumeDoes DEF Becomes
<1>6. \A n : Loaded(n)' <=> Loaded(n)
  BY <1>1, <1>3, <1>5, LoadedSame
<1>7. \A s \in Spots : SameAt(s)
  <2>1. PICK D : D = {}
    OBVIOUS
  <2>2. \A s \in Spots \ D : SameAt(s)
    BY <1>1, <1>2, <1>3, <1>5, <1>6, SameSpots DEF Passing, Pc
  <2>3. QED
    BY <2>1, <2>2
<1>8. At(CurSpot(t), c0)
  BY <1>2, ThreadAt
<1>9. \A c \in Coros : ~At(ArgSpot(t), c)'
  BY <1>5, ThreadAt DEF Passing
<1>10. ASSUME NEW c \in Coros, At(CurSpot(t), c)' PROVE CurOk(t, c)'
  <2>1. c = c0
    BY <1>5, <1>10, ThreadAt
  <2>2. CurSpot(t) \in Spots
    BY SpotKinds
  <2>3. CurOk(t, c0)
    BY <1>8, <2>2, OkAt, OkKinds
  <2>4. th'[t].after = "get" => c0 \in watching'
    BY <1>3, <1>5, <2>3 DEF CurOk
  <2>5. QED
    BY <1>4, <1>5, <2>1, <2>4 DEF CurOk, CurStatus, Pc, InDispatch
<1>11. \A c \in Coros : coro'[c] = coro[c] \/ At(CurSpot(t), c)
  BY <1>4, <1>8
<1>12. QED
  BY <1>3, <1>7, <1>9, <1>10, <1>11, Keep

\* The coroutine takes a reference of its own.
LEMMA WhereWatch ==
  ASSUME Base, Where, NEW t \in Threads, Others(t), Watch(t)
  PROVE  Where'
<1>1. Types /\ Shaped /\ th \in [Threads -> ThRec] /\ Shape(t) /\ Pc(t) = "run"
  BY DEF Base, Types, Shaped, Watch
<1>2. PICK c0 \in Coros : c0 = th[t].cur
  BY <1>1 DEF Shape, ShapeOf
<1>3. /\ UNCHANGED <<next_tick_queue, lost, fs_queue, handle, armed, edges, coro>>
      /\ watching' = watching \cup {c0}
  BY <1>2 DEF Watch, tickq, nodes, fsq
<1>4. /\ th'[t].pc = "w_add" /\ th'[t].cur = c0 /\ th'[t].after = th[t].after
  BY <1>1, <1>2, WatchDoes DEF Becomes
<1>5. \A n : Loaded(n)' <=> Loaded(n)
  BY <1>1, <1>3, <1>4, LoadedSame
<1>6. \A s \in Spots : SameAt(s)
  <2>1. PICK D : D = {}
    OBVIOUS
  <2>2. \A s \in Spots \ D : SameAt(s)
    BY <1>1, <1>2, <1>3, <1>4, <1>5, SameSpots DEF Passing, Pc
  <2>3. QED
    BY <2>1, <2>2
<1>7. \A c \in Coros : ~At(ArgSpot(t), c)'
  BY <1>4, ThreadAt DEF Passing
<1>8. ASSUME NEW c \in Coros, At(CurSpot(t), c)' PROVE CurOk(t, c)'
  <2>1. c = c0
    BY <1>4, <1>8, ThreadAt
  <2>2. CurSpot(t) \in Spots /\ At(CurSpot(t), c0)
    BY <1>2, SpotKinds, ThreadAt
  <2>3. CurOk(t, c0)
    BY <2>2, OkAt, OkKinds
  <2>4. coro'[c0] = "running"
    BY <1>1, <1>3, <2>3 DEF CurOk, CurStatus, InDispatch
  <2>5. QED
    BY <1>3, <1>4, <2>1, <2>4 DEF CurOk, CurStatus, Pc, InDispatch
<1>9. QED
  BY <1>3, <1>6, <1>7, <1>8, Keep

\* The descriptor is removed: no report of it was to come.
LEMMA WherelinuxRemoveFd ==
  ASSUME Base, Where, NEW t \in Threads, Others(t), linuxRemoveFd(t)
  PROVE  Where'
<1>1. Types /\ Shaped /\ th \in [Threads -> ThRec] /\ Shape(t) /\ Pc(t) = "w_del"
  BY DEF Base, Types, Shaped, linuxRemoveFd
<1>2. PICK c0 \in Coros : c0 = th[t].cur
  BY <1>1 DEF Shape, ShapeOf
<1>3. /\ UNCHANGED <<next_tick_queue, lost, fs_queue, handle, armed, coro, watching>>
      /\ edges' = [edges EXCEPT ![c0] = 0]
  BY <1>2 DEF linuxRemoveFd, tickq, nodes, fsq, cos
<1>4. edges'[c0] = 0 /\ \A c \in Coros \ {c0} : edges'[c] = edges[c]
  BY <1>1, <1>3 DEF Types
<1>5. /\ th'[t].pc = "finish" /\ th'[t].cur = c0 /\ th'[t].after = th[t].after
  BY <1>1, <1>2, linuxRemoveFdDoes DEF Becomes
<1>6. \A n : Loaded(n)' <=> Loaded(n)
  BY <1>1, <1>3, <1>5, LoadedSame
<1>7. SameAt(EdgeSpot)
  <2>1. At(CurSpot(t), c0) /\ CurSpot(t) \in Spots /\ EdgeSpot \in Spots /\ EdgeSpot # CurSpot(t)
    BY <1>2, ThreadAt, SpotKinds, SpotsDiffer
  <2>2. ~At(EdgeSpot, c0)
    BY <2>1 DEF Where, AtMostOne
  <2>3. ~At(EdgeSpot, c0)'
    BY <1>4, AtKindsNext
  <2>4. \A c \in Coros \ {c0} : At(EdgeSpot, c)' <=> At(EdgeSpot, c)
    BY <1>4, AtKinds, AtKindsNext
  <2>5. QED
    BY <2>2, <2>3, <2>4 DEF SameAt
<1>8. \A s \in Spots : SameAt(s)
  <2>1. PICK D : D = {EdgeSpot}
    OBVIOUS
  <2>2. \A s \in Spots \ D : SameAt(s)
    BY <1>1, <1>2, <1>3, <1>5, <1>6, <2>1, SameSpots DEF Passing, Pc
  <2>3. QED
    BY <1>7, <2>1, <2>2
<1>9. \A c \in Coros : ~At(ArgSpot(t), c)'
  BY <1>5, ThreadAt DEF Passing
<1>10. ASSUME NEW c \in Coros, At(CurSpot(t), c)' PROVE CurOk(t, c)'
  <2>1. c = c0
    BY <1>5, <1>10, ThreadAt
  <2>2. CurStatus(t)' = CurStatus(t)
    BY <1>1, <1>5 DEF CurStatus, Pc, InDispatch
  <2>3. QED
    BY <1>2, <1>3, <1>5, <2>1, <2>2, CurKept
<1>11. QED
  BY <1>3, <1>8, <1>9, <1>10, Keep

\* The node is armed and keeps its tick.
LEMMA WhereDispatchArm ==
  ASSUME Base, Where, NEW t \in Threads, Others(t), DispatchArm(t)
  PROVE  Where'
<1>1. Types /\ Shaped /\ NodesOnce /\ th \in [Threads -> ThRec] /\ Shape(t) /\ Pc(t) = "d_arm"
  BY DEF Base, Types, Shaped, Nodes, DispatchArm
<1>2. PICK n \in EventfdNodes : n = th[t].node
  BY <1>1 DEF Shape, ShapeOf, WithNode
<1>3. /\ UNCHANGED <<next_tick_queue, lost, fs_queue, handle, edges, coro, watching>>
      /\ armed' = armed \cup {n}
  BY <1>2 DEF DispatchArm, tickq, fsq, cos, watch
<1>4. /\ th'[t].pc = "d_pop" /\ th'[t].cur = th[t].cur /\ th'[t].after = th[t].after
      /\ th'[t].ret = th[t].ret
  BY <1>1, DispatchArmDoes DEF Becomes
<1>5. \A m : Loaded(m)' <=> Loaded(m)
  <2>1. \A u \in Threads \ {t} : /\ th'[u].node = th[u].node
                                 /\ th'[u].pc = "d_arm" <=> th[u].pc = "d_arm"
    BY DEF Others, Still
  <2>2. QED
    BY <1>1, <1>2, <1>3, <1>4, <2>1 DEF Loaded, Pc
<1>6. \A s \in Spots : SameAt(s)
  <2>1. PICK D : D = {}
    OBVIOUS
  <2>2. \A s \in Spots \ D : SameAt(s)
    BY <1>1, <1>3, <1>4, <1>5, SameSpots DEF Passing, Pc
  <2>3. QED
    BY <2>1, <2>2
<1>7. \A c \in Coros : ~At(ArgSpot(t), c)'
  BY <1>4, ThreadAt DEF Passing
<1>8. ASSUME NEW c \in Coros, At(CurSpot(t), c)' PROVE CurOk(t, c)'
  <2>1. c = th[t].cur
    BY <1>4, <1>8, ThreadAt
  <2>2. CurStatus(t)' = CurStatus(t)
    BY <1>1, <1>4 DEF CurStatus, Pc, InDispatch
  <2>3. QED
    BY <1>3, <1>4, <2>1, <2>2, CurKept
<1>9. QED
  BY <1>3, <1>6, <1>7, <1>8, Keep

\* The file system thread takes a request.
LEMMA WhereFsGet ==
  ASSUME Base, Where, QueuesDistinct, NEW t \in Threads, Others(t), t = Fs /\ FsGet,
         fs_queue # <<>>
  PROVE  Where'
<1>1. Types /\ Shaped /\ th \in [Threads -> ThRec] /\ Shape(t) /\ Pc(t) = "f_get"
  BY DEF Base, Types, Shaped, FsGet
<1>2. PICK r \in Requests : r = Head(fs_queue)
  BY <1>1, TailType DEF Types
<1>3. /\ UNCHANGED <<next_tick_queue, lost, edges, armed, handle, coro, watching>>
      /\ fs_queue' = Tail(fs_queue)
  BY DEF FsGet, tickq, nodes, cos, watch
<1>4. /\ th'[t].pc \in {"f_exit", "finish", "f_tick"} /\ (r \in Coros => th'[t].pc = "f_tick")
      /\ th'[t].cur = r /\ th'[t].after = "finish" /\ th[t].cur = Null
  <2>1. th[t].cur = Null /\ th[t].after = "finish"
    BY <1>1 DEF Shape, ShapeOf
  <2>2. QED
    BY <1>1, <1>2, <2>1, FsGetDoes, Constants DEF Becomes
<1>5. \A n : Loaded(n)' <=> Loaded(n)
  BY <1>1, <1>3, <1>4, LoadedSame
<1>6. /\ InQueue(fs_queue, r)
      /\ \A x : x # r => (InQueue(fs_queue', x) <=> InQueue(fs_queue, x))
      /\ r \in Coros => ~InQueue(fs_queue', r)
  <2>1. fs_queue \in Seq(Requests)
        /\ \A i, j \in 1..Len(fs_queue) : fs_queue[i] = fs_queue[j] /\ fs_queue[i] \in Coros => i = j
    BY <1>1 DEF Types, QueuesDistinct
  <2>2. QED
    BY <1>2, <1>3, <2>1, TailIn
<1>7. PICK s0, s1 \in Spots : s0 = FsSpot /\ s1 = CurSpot(t) /\ s0 # s1
  BY SpotKinds, SpotsDiffer
<1>8. \A s \in Spots \ {s0, s1} : SameAt(s)
  <2>1. PICK D : D = {s0, s1}
    OBVIOUS
  <2>2. \A s \in Spots \ D : SameAt(s)
    BY <1>1, <1>3, <1>4, <1>5, <1>7, <2>1, SameSpots DEF Passing, Pc
  <2>3. QED
    BY <2>1, <2>2
<1>9. ASSUME NEW c \in Coros, c # r
      PROVE /\ At(s0, c)' <=> At(s0, c)
            /\ ~At(CurSpot(t), c)' /\ ~At(CurSpot(t), c)
  <2>1. At(s0, c)' <=> At(s0, c)
    BY <1>6, <1>7, <1>9, AtKinds, AtKindsNext
  <2>2. ~At(CurSpot(t), c)' /\ ~At(CurSpot(t), c)
    BY <1>4, <1>9, ThreadAt, Constants
  <2>3. QED
    BY <2>1, <2>2
<1>10. \A c \in Coros : ~At(ArgSpot(t), c)'
  BY <1>4, ThreadAt DEF Passing
<1>11. CASE r \in Coros
  <2>1. At(s0, r) /\ ~At(s0, r)' /\ At(s1, r)'
    <3>1. At(s1, r)'
      BY <1>4, <1>7, ThreadAt
    <3>2. QED
      BY <1>6, <1>7, <1>11, <3>1, AtKinds, AtKindsNext
  <2>2. Ok(s1, r)'
    <3>1. coro[r] = "waiting"
      BY <1>7, <1>11, <2>1, OkAt, OkKinds
    <3>2. CurOk(t, r)'
      BY <1>3, <1>4, <1>11, <3>1 DEF CurOk, CurStatus, Pc
    <3>3. QED
      BY <1>7, <3>2, OkKindsNext
  <2>3. QED
    BY <1>3, <1>7, <1>8, <1>9, <1>10, <1>11, <2>1, <2>2, Move
<1>12. CASE r \notin Coros
  <2>1. \A s \in Spots : SameAt(s)
    BY <1>7, <1>8, <1>9, <1>12 DEF SameAt
  <2>2. QED
    BY <1>3, <1>9, <1>10, <1>12, <2>1, Keep
<1>13. QED
  BY <1>11, <1>12

\* The tick goes back to the head of the queue, over the ones in it.
LEMMA WhereDispatchArmFails ==
  ASSUME Base, Where, NEW t \in Threads, Others(t), DispatchArmFails(t)
  PROVE  Where'
<1>1. /\ Types /\ Shaped /\ NodesOnce /\ th \in [Threads -> ThRec] /\ Shape(t)
      /\ Pc(t) = "d_arm"
  BY DEF Base, Types, Shaped, Nodes, DispatchArmFails
<1>2. PICK n \in EventfdNodes : n = th[t].node
  BY <1>1 DEF Shape, ShapeOf, WithNode
<1>3. PICK c0 \in Coros : c0 = handle[n]
  BY <1>1, <1>2 DEF NodesOnce
<1>4. /\ UNCHANGED <<fs_queue, edges, armed, handle, coro, watching>>
      /\ next_tick_queue' = <<c0>>
      /\ lost' = lost \cup {next_tick_queue[i] : i \in 1..Len(next_tick_queue)}
  BY <1>2, <1>3 DEF DispatchArmFails, TickUnget, nodes, fsq, cos, watch
<1>5. /\ th'[t].pc = "d_push" /\ th'[t].cur = th[t].cur /\ th'[t].after = th[t].after
      /\ th'[t].ret = th[t].ret
  BY <1>1, DispatchArmFailsDoes DEF Becomes
<1>6. /\ Loaded(n) /\ ~Loaded(n)'
      /\ \A m \in EventfdNodes : m # n => (Loaded(m)' <=> Loaded(m))
  <2>1. \A u \in Threads \ {t} : /\ th'[u].node = th[u].node /\ th[u].node # n
                                 /\ th'[u].pc = "d_arm" <=> th[u].pc = "d_arm"
    BY <1>1, <1>2 DEF Others, Still, NodesOnce
  <2>2. n \notin armed
    BY <1>1, <1>2 DEF NodesOnce
  <2>3. QED
    BY <1>1, <1>2, <1>4, <1>5, <2>1, <2>2 DEF Loaded, Pc
<1>7. /\ \A x : InQueue(next_tick_queue', x) <=> x = c0
      /\ \A x : x \in lost' <=> x \in lost \/ InQueue(next_tick_queue, x)
  BY <1>4 DEF InQueue
<1>8. PICK q, l, s0 \in Spots : q = QueueSpot /\ l = LostSpot /\ s0 = NodeSpot(n)
                               /\ q # l /\ q # s0 /\ l # s0
  BY SpotKinds, SpotsDiffer
<1>9. \A s \in Spots \ {q, l, s0} : SameAt(s)
  <2>1. PICK D : D = {q, l, s0}
    OBVIOUS
  <2>2. \A m \in EventfdNodes : NodeSpot(m) \in D \/ (Loaded(m)' <=> Loaded(m))
    BY <1>6, <1>8, <2>1
  <2>3. \A s \in Spots \ D : SameAt(s)
    BY <1>1, <1>4, <1>5, <1>8, <2>1, <2>2, SameSpots DEF Passing, Pc
  <2>4. QED
    BY <2>1, <2>3
<1>10. ASSUME NEW c \in Coros
       PROVE  /\ At(q, c)' <=> c = c0
              /\ At(l, c)' <=> At(l, c) \/ At(q, c)
              /\ ~At(s0, c)'
              /\ At(s0, c) <=> c = c0
  BY <1>3, <1>6, <1>7, <1>8, AtKinds, AtKindsNext
<1>11. \A c \in Coros : ~At(ArgSpot(t), c)'
  BY <1>5, ThreadAt DEF Passing
<1>12. ASSUME NEW c \in Coros, At(CurSpot(t), c)' PROVE CurOk(t, c)'
  <2>1. c = th[t].cur
    BY <1>5, <1>12, ThreadAt
  <2>2. CurStatus(t)' = CurStatus(t)
    BY <1>1, <1>5 DEF CurStatus, Pc, InDispatch
  <2>3. QED
    BY <1>4, <1>5, <2>1, <2>2, CurKept
<1>13. GoesTo(c0, q)
  <2>1. At(s0, c0) /\ ~At(l, c0) /\ ~At(q, c0)
    BY <1>8, <1>10 DEF Where, AtMostOne
  <2>2. ASSUME NEW s \in Spots, At(s, c0)' PROVE s = q
    <3>1. s # l /\ s # s0
      BY <1>10, <2>1, <2>2
    <3>2. s # q => At(s, c0)
      BY <1>9, <2>2, <3>1 DEF SameAt
    <3>3. QED
      BY <1>8, <2>1, <3>1, <3>2 DEF Where, AtMostOne
  <2>3. coro'[c0] = "ticked"
    BY <1>4, <1>8, <2>1, OkAt, OkKinds
  <2>4. Ok(q, c0)'
    BY <1>8, <2>3, OkKindsNext
  <2>5. QED
    BY <1>10, <2>2, <2>4 DEF GoesTo
<1>14. ASSUME NEW c \in Coros \ {c0}, At(q, c) PROVE GoesTo(c, l)
  <2>1. ASSUME NEW s \in Spots, At(s, c)' PROVE s = l
    <3>1. s # q /\ s # s0
      BY <1>10, <2>1
    <3>2. s # l => At(s, c)
      BY <1>9, <2>1, <3>1 DEF SameAt
    <3>3. QED
      BY <1>14, <3>1, <3>2 DEF Where, AtMostOne
  <2>2. coro'[c] = "ticked"
    BY <1>4, <1>8, <1>14, OkAt, OkKinds
  <2>3. Ok(l, c)'
    BY <1>8, <2>2, OkKindsNext
  <2>4. QED
    BY <1>10, <1>14, <2>1, <2>3 DEF GoesTo
<1>15. ASSUME NEW c \in Coros \ {c0}, ~At(q, c) PROVE Stays(t, c)
  <2>1. \A s \in Spots : At(s, c)' <=> At(s, c)
    BY <1>9, <1>10, <1>15 DEF SameAt
  <2>2. QED
    BY <1>4, <1>11, <1>12, <2>1 DEF Stays
<1>16. QED
  BY <1>8, <1>13, <1>14, <1>15, Relocations

\* Every step leaves each coroutine in one place at most, with a state that fits.
LEMMA WhereStep ==
  ASSUME Edges <= 1, Base, Where, QueuesDistinct, NEW t \in Threads, Others(t), StepOf(t)
  PROVE  Where'

<1>1. CASE DispatchPop(t)
  BY <1>1, WhereDispatchPop
<1>2. CASE DispatchGet(t)
  BY <1>2, WhereDispatchGet, WhereDispatchGetEmpty
<1>3. CASE DispatchArm(t)
  BY <1>3, WhereDispatchArm
<1>4. CASE DispatchArmFails(t)
  BY <1>4, WhereDispatchArmFails
<1>5. CASE DispatchPush(t)
  BY <1>5, WhereDispatchPush
<1>6. CASE PutTick(t)
  BY <1>6, WherePutTick
<1>7. CASE PutRequest(t)
  BY <1>7, WherePutRequest
<1>8. CASE SetItem(t)
  BY <1>8, WhereSetItem
<1>9. CASE WakeFs(t)
  BY <1>9, WhereWakeFs
<1>10. CASE Finish(t)
  BY <1>10, WhereFinish
<1>11. CASE RequestEnd(t)
  BY <1>11, WhereRequestEnd
<1>12. CASE WriteFinal(t)
  BY <1>12, WhereWriteFinal
<1>13. CASE WorkerGet(t)
  BY <1>13, WhereWorkerGet, WhereWorkerGetEmpty
<1>14. ASSUME NEW n \in EventfdNodes, PollEventFd(t, n) PROVE Where'
  BY <1>14, WherePollEventFd
<1>15. CASE PollPush(t)
  BY <1>15, WherePollPush
<1>16. CASE PollStop(t)
  BY <1>16, WherePollStop
<1>17. ASSUME NEW c \in Coros, PollFd(t, c) PROVE Where'
  BY <1>17, WherePollFd
<1>18. CASE Resume(t)
  BY <1>18, WhereResume
<1>19. ASSUME NEW c \in Coros, Call(t, c) PROVE Where'
  BY <1>19, WhereCall
<1>20. CASE t = Main /\ run
  BY <1>20, Whererun
<1>21. CASE CoroReturns(t)
  BY <1>21, WhereCoroReturns
<1>22. CASE Yield(t)
  BY <1>22, WhereYield
<1>23. CASE FsRequest(t)
  BY <1>23, WhereFsRequest
<1>24. CASE FsClose(t)
  BY <1>24, WhereFsClose
<1>25. CASE Watch(t)
  BY <1>25, WhereWatch
<1>26. CASE linuxAddFd(t)
  BY <1>26, WherelinuxAddFd
<1>27. CASE CtlAddFd(t)
  BY <1>27, WhereCtlAddFd
<1>28. CASE linuxRemoveFd(t)
  BY <1>28, WherelinuxRemoveFd
<1>29. CASE t = Fs /\ FsClearItem
  BY <1>29, WhereFsClearItem
<1>30. CASE t = Fs /\ FsGet
  BY <1>30, WhereFsGet, WhereFsGetEmpty
<1>31. CASE t = Fs /\ FsTick
  BY <1>31, WhereFsTick
<1>32. CASE t = Fs /\ FsWait
  BY <1>32, WhereFsWait
<1>33. CASE t = Fs /\ FsInterrupted
  BY <1>33, WhereFsInterrupted
<1>34. QED
  BY <1>1, <1>2, <1>3, <1>4, <1>5, <1>6, <1>7, <1>8, <1>9, <1>10, <1>11, <1>12, <1>13, <1>14,
    <1>15, <1>16, <1>17, <1>18, <1>19, <1>20, <1>21, <1>22, <1>23, <1>24, <1>25, <1>26, <1>27,
    <1>28, <1>29, <1>30, <1>31, <1>32, <1>33 DEF StepOf, Shared, Dispatch, CoroStep

\* No coroutine is in a queue twice.
LEMMA AppendDistinct ==
  ASSUME NEW S, NEW q \in Seq(S), NEW e \in S, NEW C, e \in C => ~InQueue(q, e),
         \A i, j \in 1..Len(q) : q[i] = q[j] /\ q[i] \in C => i = j
  PROVE  \A i, j \in 1..Len(Append(q, e)) :
           Append(q, e)[i] = Append(q, e)[j] /\ Append(q, e)[i] \in C => i = j
<1> DEFINE n == Len(q)
           p == Append(q, e)
<1>1. /\ n \in Nat /\ Len(p) = n + 1 /\ p[n + 1] = e
      /\ \A i \in 1..n : p[i] = q[i]
  OBVIOUS
<1>2. \A i, j \in 1..n : q[i] = q[j] /\ q[i] \in C => i = j
  OBVIOUS
<1>3. e \in C => \A i \in 1..n : q[i] # e
  BY DEF InQueue
<1> HIDE DEF p, n
<1>4. ASSUME NEW i \in 1..(n + 1), NEW j \in 1..(n + 1), p[i] = p[j], p[i] \in C PROVE i = j
  <2>1. CASE i \in 1..n /\ j \in 1..n
    BY <1>1, <1>2, <1>4, <2>1
  <2>2. CASE i = n + 1 \/ j = n + 1
    BY <1>1, <1>3, <1>4, <2>2
  <2>3. QED
    BY <1>1, <2>1, <2>2
<1>5. QED
  BY <1>1, <1>4 DEF p

\* Every step leaves the queues without repetitions.
LEMMA QueuesStep ==
  ASSUME Base, Where, QueuesDistinct, NEW t \in Threads, StepOf(t)
  PROVE  QueuesDistinct'
<1>0. Types /\ Shaped /\ Shape(t) /\ th \in [Threads -> ThRec]
  BY DEF Base, Shaped, Types
<1> DEFINE TickD == Distinct(next_tick_queue)
           FsD == \A i, j \in 1..Len(fs_queue) : fs_queue[i] = fs_queue[j] /\ fs_queue[i] \in Coros => i = j
<1>a. TickD /\ FsD
  BY DEF QueuesDistinct
<1>b. TickD' /\ FsD' => QueuesDistinct'
  BY DEF QueuesDistinct
<1>c. fs_queue' = fs_queue => FsD'
  BY <1>a
<1>d. next_tick_queue' = next_tick_queue => TickD'
  BY <1>a
<1>e. next_tick_queue # <<>> /\ next_tick_queue' = Tail(next_tick_queue) => TickD'
  BY <1>0, <1>a, GetQueue DEF Types

<1>1. CASE DispatchPop(t)
  <2>1. UNCHANGED <<next_tick_queue, fs_queue>>
    BY <1>1 DEF DispatchPop, tickq, nodes, fsq, cos, watch
  <2>2. QED
    BY <1>b, <1>c, <1>d, <2>1
<1>2. CASE DispatchGet(t)
  <2>1. /\ fs_queue' = fs_queue
        /\ \/ next_tick_queue # <<>> /\ next_tick_queue' = Tail(next_tick_queue)
           \/ next_tick_queue' = next_tick_queue
    BY <1>2 DEF DispatchGet, TickGet, tickq, nodes, fsq, cos, watch
  <2>2. QED
    BY <1>b, <1>c, <1>d, <1>e, <2>1
<1>3. CASE DispatchArm(t)
  <2>1. UNCHANGED <<next_tick_queue, fs_queue>>
    BY <1>3 DEF DispatchArm, tickq, nodes, fsq, cos, watch
  <2>2. QED
    BY <1>b, <1>c, <1>d, <2>1
<1>4. CASE DispatchArmFails(t)
  <2>1. fs_queue' = fs_queue /\ next_tick_queue' = <<handle[th[t].node]>>
    BY <1>4 DEF DispatchArmFails, TickUnget, tickq, nodes, fsq, cos, watch
  <2>2. TickD'
    BY <2>1 DEF Distinct
  <2>3. QED
    BY <1>b, <1>c, <2>1, <2>2
<1>5. CASE DispatchPush(t)
  <2>1. UNCHANGED <<next_tick_queue, fs_queue>>
    BY <1>5 DEF DispatchPush, tickq, nodes, fsq, cos, watch
  <2>2. QED
    BY <1>b, <1>c, <1>d, <2>1
<1>6. CASE PutTick(t)
  <2>1. PICK c0 \in Coros : c0 = th[t].arg /\ Pc(t) = "t_put"
    BY <1>0, <1>6 DEF PutTick, Shape, ShapeOf
  <2>2. /\ fs_queue' = fs_queue
        /\ \/ next_tick_queue' = next_tick_queue
           \/ next_tick_queue' = Append(next_tick_queue, c0)
    BY <1>6, <2>1 DEF PutTick, TickPut, tickq, nodes, fsq, cos, watch
  <2>3. ~InQueue(next_tick_queue, c0)
    <3>1. /\ At(ArgSpot(t), c0) /\ ArgSpot(t) \in Spots /\ QueueSpot \in Spots
          /\ ArgSpot(t) # QueueSpot
      BY <2>1, ThreadAt, SpotKinds, SpotsDiffer DEF Passing, Pc
    <3>2. ~At(QueueSpot, c0)
      BY <3>1 DEF Where, AtMostOne
    <3>3. QED
      BY <3>2, AtKinds
  <2>4. next_tick_queue' = Append(next_tick_queue, c0) => TickD'
    BY <1>0, <1>a, <2>3, PutQueue DEF Types
  <2>5. QED
    BY <1>b, <1>c, <1>d, <2>2, <2>4
<1>7. CASE PutRequest(t)
  <2>1. PICK r \in Requests : r = th[t].arg /\ Pc(t) = "r_put"
    <3>1. th[t].arg \in Requests \cup {Null} /\ th[t].arg # Null
      BY <1>0, <1>7, Fields DEF PutRequest, Shape, ShapeOf, WithArg, InRequest
    <3>2. QED
      BY <1>7, <3>1 DEF PutRequest
  <2>2. next_tick_queue' = next_tick_queue /\ fs_queue' = Append(fs_queue, r)
    BY <1>7, <2>1 DEF PutRequest, tickq, nodes, fsq, cos, watch
  <2>3. r \in Coros => ~InQueue(fs_queue, r)
    <3>1. /\ At(ArgSpot(t), r) /\ ArgSpot(t) \in Spots /\ FsSpot \in Spots
          /\ ArgSpot(t) # FsSpot
      BY <2>1, ThreadAt, SpotKinds, SpotsDiffer DEF Passing, Pc
    <3>2. r \in Coros => ~At(FsSpot, r)
      BY <3>1 DEF Where, AtMostOne
    <3>3. QED
      BY <3>2, AtKinds
  <2>4. FsD'
    <3>1. PICK q \in Seq(Requests) : q = fs_queue
      BY <1>0 DEF Types
    <3>2. \A i, j \in 1..Len(q) : q[i] = q[j] /\ q[i] \in Coros => i = j
      BY <1>a, <3>1
    <3>3. \A i, j \in 1..Len(Append(q, r)) :
            Append(q, r)[i] = Append(q, r)[j] /\ Append(q, r)[i] \in Coros => i = j
      BY <2>3, <3>1, <3>2, AppendDistinct
    <3>4. QED
      BY <2>2, <3>1, <3>3
  <2>5. QED
    BY <1>b, <1>d, <2>2, <2>4
<1>8. CASE SetItem(t)
  <2>1. UNCHANGED <<next_tick_queue, fs_queue>>
    BY <1>8 DEF SetItem, tickq, nodes, fsq, cos, watch
  <2>2. QED
    BY <1>b, <1>c, <1>d, <2>1
<1>9. CASE WakeFs(t)
  <2>1. UNCHANGED <<next_tick_queue, fs_queue>>
    BY <1>9 DEF WakeFs, tickq, nodes, fsq, cos, watch
  <2>2. QED
    BY <1>b, <1>c, <1>d, <2>1
<1>10. CASE Finish(t)
  <2>1. UNCHANGED <<next_tick_queue, fs_queue>>
    BY <1>10 DEF Finish, tickq, nodes, fsq, cos, watch
  <2>2. QED
    BY <1>b, <1>c, <1>d, <2>1
<1>11. CASE RequestEnd(t)
  <2>1. UNCHANGED <<next_tick_queue, fs_queue>>
    BY <1>11 DEF RequestEnd, BeginRequest, beginOneEvent, tickq, nodes, fsq, cos, watch
  <2>2. QED
    BY <1>b, <1>c, <1>d, <2>1
<1>12. CASE WriteFinal(t)
  <2>1. UNCHANGED <<next_tick_queue, fs_queue>>
    BY <1>12 DEF WriteFinal, tickq, nodes, fsq, cos, watch
  <2>2. QED
    BY <1>b, <1>c, <1>d, <2>1
<1>13. CASE WorkerGet(t)
  <2>1. /\ fs_queue' = fs_queue
        /\ \/ next_tick_queue # <<>> /\ next_tick_queue' = Tail(next_tick_queue)
           \/ next_tick_queue' = next_tick_queue
    BY <1>13 DEF WorkerGet, TickGet, tickq, nodes, fsq, cos, watch
  <2>2. QED
    BY <1>b, <1>c, <1>d, <1>e, <2>1
<1>14. ASSUME NEW n \in EventfdNodes, PollEventFd(t, n) PROVE QueuesDistinct'
  <2>1. UNCHANGED <<next_tick_queue, fs_queue>>
    BY <1>14 DEF PollEventFd, tickq, nodes, fsq, cos, watch
  <2>2. QED
    BY <1>b, <1>c, <1>d, <2>1
<1>15. CASE PollPush(t)
  <2>1. UNCHANGED <<next_tick_queue, fs_queue>>
    BY <1>15 DEF PollPush, tickq, nodes, fsq, cos, watch
  <2>2. QED
    BY <1>b, <1>c, <1>d, <2>1
<1>16. CASE PollStop(t)
  <2>1. UNCHANGED <<next_tick_queue, fs_queue>>
    BY <1>16 DEF PollStop, tickq, nodes, fsq, cos, watch
  <2>2. QED
    BY <1>b, <1>c, <1>d, <2>1
<1>17. ASSUME NEW c \in Coros, PollFd(t, c) PROVE QueuesDistinct'
  <2>1. UNCHANGED <<next_tick_queue, fs_queue>>
    BY <1>17 DEF PollFd, tickq, nodes, fsq, cos, watch
  <2>2. QED
    BY <1>b, <1>c, <1>d, <2>1
<1>18. CASE Resume(t)
  <2>1. UNCHANGED <<next_tick_queue, fs_queue>>
    BY <1>18 DEF Resume, tickq, nodes, fsq, cos, watch
  <2>2. QED
    BY <1>b, <1>c, <1>d, <2>1
<1>19. ASSUME NEW c \in Coros, Call(t, c) PROVE QueuesDistinct'
  <2>1. UNCHANGED <<next_tick_queue, fs_queue>>
    BY <1>19 DEF Call, BeginTick, beginOneEvent, tickq, nodes, fsq, cos, watch
  <2>2. QED
    BY <1>b, <1>c, <1>d, <2>1
<1>20. CASE t = Main /\ run
  <2>1. UNCHANGED <<next_tick_queue, fs_queue>>
    BY <1>20 DEF run, tickq, nodes, fsq, cos, watch
  <2>2. QED
    BY <1>b, <1>c, <1>d, <2>1
<1>21. CASE CoroReturns(t)
  <2>1. UNCHANGED <<next_tick_queue, fs_queue>>
    BY <1>21 DEF CoroReturns, tickq, nodes, fsq, cos, watch
  <2>2. QED
    BY <1>b, <1>c, <1>d, <2>1
<1>22. CASE Yield(t)
  <2>1. UNCHANGED <<next_tick_queue, fs_queue>>
    BY <1>22 DEF Yield, Suspended, beginOneEvent, tickq, nodes, fsq, cos, watch
  <2>2. QED
    BY <1>b, <1>c, <1>d, <2>1
<1>23. CASE FsRequest(t)
  <2>1. UNCHANGED <<next_tick_queue, fs_queue>>
    BY <1>23 DEF FsRequest, Suspended, beginOneEvent, tickq, nodes, fsq, cos, watch
  <2>2. QED
    BY <1>b, <1>c, <1>d, <2>1
<1>24. CASE FsClose(t)
  <2>1. UNCHANGED <<next_tick_queue, fs_queue>>
    BY <1>24 DEF FsClose, BeginRequest, beginOneEvent, tickq, nodes, fsq, cos, watch
  <2>2. QED
    BY <1>b, <1>c, <1>d, <2>1
<1>25. CASE Watch(t)
  <2>1. UNCHANGED <<next_tick_queue, fs_queue>>
    BY <1>25 DEF Watch, tickq, nodes, fsq, cos, watch
  <2>2. QED
    BY <1>b, <1>c, <1>d, <2>1
<1>26. CASE linuxAddFd(t)
  <2>1. UNCHANGED <<next_tick_queue, fs_queue>>
    BY <1>26 DEF linuxAddFd, Suspended, beginOneEvent, tickq, nodes, fsq, cos, watch
  <2>2. QED
    BY <1>b, <1>c, <1>d, <2>1
<1>27. CASE CtlAddFd(t)
  <2>1. UNCHANGED <<next_tick_queue, fs_queue>>
    BY <1>27 DEF CtlAddFd, tickq, nodes, fsq, cos, watch
  <2>2. QED
    BY <1>b, <1>c, <1>d, <2>1
<1>28. CASE linuxRemoveFd(t)
  <2>1. UNCHANGED <<next_tick_queue, fs_queue>>
    BY <1>28 DEF linuxRemoveFd, tickq, nodes, fsq, cos, watch
  <2>2. QED
    BY <1>b, <1>c, <1>d, <2>1
<1>29. CASE t = Fs /\ FsClearItem
  <2>1. UNCHANGED <<next_tick_queue, fs_queue>>
    BY <1>29 DEF FsClearItem, tickq, nodes, fsq, cos, watch
  <2>2. QED
    BY <1>b, <1>c, <1>d, <2>1
<1>30. CASE t = Fs /\ FsGet
  <2>1. /\ next_tick_queue' = next_tick_queue
        /\ (fs_queue # <<>> /\ fs_queue' = Tail(fs_queue)) \/ fs_queue' = fs_queue
    BY <1>30 DEF FsGet, tickq, nodes, fsq, cos, watch
  <2>2. fs_queue # <<>> /\ fs_queue' = Tail(fs_queue) => FsD'
    BY <1>0, <1>a, TailIn DEF Types
  <2>3. QED
    BY <1>b, <1>c, <1>d, <2>1, <2>2
<1>31. CASE t = Fs /\ FsTick
  <2>1. UNCHANGED <<next_tick_queue, fs_queue>>
    BY <1>31 DEF FsTick, Suspended, beginOneEvent, tickq, nodes, fsq, cos, watch
  <2>2. QED
    BY <1>b, <1>c, <1>d, <2>1
<1>32. CASE t = Fs /\ FsWait
  <2>1. UNCHANGED <<next_tick_queue, fs_queue>>
    BY <1>32 DEF FsWait, tickq, nodes, fsq, cos, watch
  <2>2. QED
    BY <1>b, <1>c, <1>d, <2>1
<1>33. CASE t = Fs /\ FsInterrupted
  <2>1. UNCHANGED <<next_tick_queue, fs_queue>>
    BY <1>33 DEF FsInterrupted, tickq, nodes, fsq, cos, watch
  <2>2. QED
    BY <1>b, <1>c, <1>d, <2>1
<1>34. QED
  BY <1>1, <1>2, <1>3, <1>4, <1>5, <1>6, <1>7, <1>8, <1>9, <1>10, <1>11, <1>12, <1>13, <1>14,
    <1>15, <1>16, <1>17, <1>18, <1>19, <1>20, <1>21, <1>22, <1>23, <1>24, <1>25, <1>26, <1>27,
    <1>28, <1>29, <1>30, <1>31, <1>32, <1>33 DEF StepOf, Shared, Dispatch, CoroStep

\* A tick is lost only after epoll_ctl has failed for want of a resource: its
\* operation always fits.
LEMMA LostStep ==
  ASSUME Base, NothingLost, NEW t \in Threads, StepOf(t)
  PROVE  NothingLost'
<1>0. Types /\ Shaped /\ Shape(t) /\ NodesOnce /\ Fits
  BY DEF Base, Shaped, Nodes
<1>a. ASSUME failures' = failures, failures = 0 => lost' = lost,
             shadowed' = shadowed \/ shadowed' = FALSE
      PROVE  NothingLost'
  BY <1>a DEF NothingLost

<1>1. CASE DispatchPop(t)
  <2>1. failures' = failures /\ lost' = lost /\ (shadowed' = shadowed \/ shadowed' = FALSE)
    BY <1>1 DEF DispatchPop, tickq, nodes, fsq, cos, watch
  <2>2. QED
    BY <1>a, <2>1
<1>2. CASE DispatchGet(t)
  <2>1. failures' = failures /\ lost' = lost /\ (shadowed' = shadowed \/ shadowed' = FALSE)
    BY <1>2 DEF DispatchGet, TickGet, tickq, nodes, fsq, cos, watch
  <2>2. QED
    BY <1>a, <2>1
<1>3. CASE DispatchArm(t)
  <2>1. failures' = failures /\ lost' = lost /\ (shadowed' = shadowed \/ shadowed' = FALSE)
    BY <1>3 DEF DispatchArm, tickq, nodes, fsq, cos, watch
  <2>2. QED
    BY <1>a, <2>1
<1>4. CASE DispatchArmFails(t)
  <2>1. PICK n \in EventfdNodes : n = th[t].node /\ Pc(t) = "d_arm"
    BY <1>0, <1>4 DEF DispatchArmFails, Shape, ShapeOf, WithNode
  <2>2. n \notin armed /\ \A u \in Threads : th[u].node = n => u = t
    BY <1>0, <2>1 DEF NodesOnce
  <2>3. (epoll_op[n] = "ADD") = (n \notin registered)
    BY <1>0, <2>1, <2>2 DEF Fits
  <2>4. failures' = failures + 1
    BY <1>4, <2>1, <2>3 DEF DispatchArmFails
  <2>5. failures \in Nat
    BY <1>0, LoopAssumption DEF Types
  <2>6. QED
    BY <2>4, <2>5 DEF NothingLost
<1>5. CASE DispatchPush(t)
  <2>1. failures' = failures /\ lost' = lost /\ (shadowed' = shadowed \/ shadowed' = FALSE)
    BY <1>5 DEF DispatchPush, tickq, nodes, fsq, cos, watch
  <2>2. QED
    BY <1>a, <2>1
<1>6. CASE PutTick(t)
  <2>1. failures' = failures /\ shadowed' = shadowed /\ (~shadowed => lost' = lost)
    BY <1>6 DEF PutTick, TickPut, tickq, nodes, fsq, cos, watch
  <2>2. QED
    BY <2>1 DEF NothingLost
<1>7. CASE PutRequest(t)
  <2>1. failures' = failures /\ lost' = lost /\ (shadowed' = shadowed \/ shadowed' = FALSE)
    BY <1>7 DEF PutRequest, tickq, nodes, fsq, cos, watch
  <2>2. QED
    BY <1>a, <2>1
<1>8. CASE SetItem(t)
  <2>1. failures' = failures /\ lost' = lost /\ (shadowed' = shadowed \/ shadowed' = FALSE)
    BY <1>8 DEF SetItem, tickq, nodes, fsq, cos, watch
  <2>2. QED
    BY <1>a, <2>1
<1>9. CASE WakeFs(t)
  <2>1. failures' = failures /\ lost' = lost /\ (shadowed' = shadowed \/ shadowed' = FALSE)
    BY <1>9 DEF WakeFs, tickq, nodes, fsq, cos, watch
  <2>2. QED
    BY <1>a, <2>1
<1>10. CASE Finish(t)
  <2>1. failures' = failures /\ lost' = lost /\ (shadowed' = shadowed \/ shadowed' = FALSE)
    BY <1>10 DEF Finish, tickq, nodes, fsq, cos, watch
  <2>2. QED
    BY <1>a, <2>1
<1>11. CASE RequestEnd(t)
  <2>1. failures' = failures /\ lost' = lost /\ (shadowed' = shadowed \/ shadowed' = FALSE)
    BY <1>11 DEF RequestEnd, BeginRequest, beginOneEvent, tickq, nodes, fsq, cos, watch
  <2>2. QED
    BY <1>a, <2>1
<1>12. CASE WriteFinal(t)
  <2>1. failures' = failures /\ lost' = lost /\ (shadowed' = shadowed \/ shadowed' = FALSE)
    BY <1>12 DEF WriteFinal, tickq, nodes, fsq, cos, watch
  <2>2. QED
    BY <1>a, <2>1
<1>13. CASE WorkerGet(t)
  <2>1. failures' = failures /\ lost' = lost /\ (shadowed' = shadowed \/ shadowed' = FALSE)
    BY <1>13 DEF WorkerGet, TickGet, tickq, nodes, fsq, cos, watch
  <2>2. QED
    BY <1>a, <2>1
<1>14. ASSUME NEW n \in EventfdNodes, PollEventFd(t, n) PROVE NothingLost'
  <2>1. failures' = failures /\ lost' = lost /\ (shadowed' = shadowed \/ shadowed' = FALSE)
    BY <1>14 DEF PollEventFd, tickq, nodes, fsq, cos, watch
  <2>2. QED
    BY <1>a, <2>1
<1>15. CASE PollPush(t)
  <2>1. failures' = failures /\ lost' = lost /\ (shadowed' = shadowed \/ shadowed' = FALSE)
    BY <1>15 DEF PollPush, tickq, nodes, fsq, cos, watch
  <2>2. QED
    BY <1>a, <2>1
<1>16. CASE PollStop(t)
  <2>1. failures' = failures /\ lost' = lost /\ (shadowed' = shadowed \/ shadowed' = FALSE)
    BY <1>16 DEF PollStop, tickq, nodes, fsq, cos, watch
  <2>2. QED
    BY <1>a, <2>1
<1>17. ASSUME NEW c \in Coros, PollFd(t, c) PROVE NothingLost'
  <2>1. failures' = failures /\ lost' = lost /\ (shadowed' = shadowed \/ shadowed' = FALSE)
    BY <1>17 DEF PollFd, tickq, nodes, fsq, cos, watch
  <2>2. QED
    BY <1>a, <2>1
<1>18. CASE Resume(t)
  <2>1. failures' = failures /\ lost' = lost /\ (shadowed' = shadowed \/ shadowed' = FALSE)
    BY <1>18 DEF Resume, tickq, nodes, fsq, cos, watch
  <2>2. QED
    BY <1>a, <2>1
<1>19. ASSUME NEW c \in Coros, Call(t, c) PROVE NothingLost'
  <2>1. failures' = failures /\ lost' = lost /\ (shadowed' = shadowed \/ shadowed' = FALSE)
    BY <1>19 DEF Call, BeginTick, beginOneEvent, tickq, nodes, fsq, cos, watch
  <2>2. QED
    BY <1>a, <2>1
<1>20. CASE t = Main /\ run
  <2>1. failures' = failures /\ lost' = lost /\ (shadowed' = shadowed \/ shadowed' = FALSE)
    BY <1>20 DEF run, tickq, nodes, fsq, cos, watch
  <2>2. QED
    BY <1>a, <2>1
<1>21. CASE CoroReturns(t)
  <2>1. failures' = failures /\ lost' = lost /\ (shadowed' = shadowed \/ shadowed' = FALSE)
    BY <1>21 DEF CoroReturns, tickq, nodes, fsq, cos, watch
  <2>2. QED
    BY <1>a, <2>1
<1>22. CASE Yield(t)
  <2>1. failures' = failures /\ lost' = lost /\ (shadowed' = shadowed \/ shadowed' = FALSE)
    BY <1>22 DEF Yield, Suspended, beginOneEvent, tickq, nodes, fsq, cos, watch
  <2>2. QED
    BY <1>a, <2>1
<1>23. CASE FsRequest(t)
  <2>1. failures' = failures /\ lost' = lost /\ (shadowed' = shadowed \/ shadowed' = FALSE)
    BY <1>23 DEF FsRequest, Suspended, beginOneEvent, tickq, nodes, fsq, cos, watch
  <2>2. QED
    BY <1>a, <2>1
<1>24. CASE FsClose(t)
  <2>1. failures' = failures /\ lost' = lost /\ (shadowed' = shadowed \/ shadowed' = FALSE)
    BY <1>24 DEF FsClose, BeginRequest, beginOneEvent, tickq, nodes, fsq, cos, watch
  <2>2. QED
    BY <1>a, <2>1
<1>25. CASE Watch(t)
  <2>1. failures' = failures /\ lost' = lost /\ (shadowed' = shadowed \/ shadowed' = FALSE)
    BY <1>25 DEF Watch, tickq, nodes, fsq, cos, watch
  <2>2. QED
    BY <1>a, <2>1
<1>26. CASE linuxAddFd(t)
  <2>1. failures' = failures /\ lost' = lost /\ (shadowed' = shadowed \/ shadowed' = FALSE)
    BY <1>26 DEF linuxAddFd, Suspended, beginOneEvent, tickq, nodes, fsq, cos, watch
  <2>2. QED
    BY <1>a, <2>1
<1>27. CASE CtlAddFd(t)
  <2>1. failures' = failures /\ lost' = lost /\ (shadowed' = shadowed \/ shadowed' = FALSE)
    BY <1>27 DEF CtlAddFd, tickq, nodes, fsq, cos, watch
  <2>2. QED
    BY <1>a, <2>1
<1>28. CASE linuxRemoveFd(t)
  <2>1. failures' = failures /\ lost' = lost /\ (shadowed' = shadowed \/ shadowed' = FALSE)
    BY <1>28 DEF linuxRemoveFd, tickq, nodes, fsq, cos, watch
  <2>2. QED
    BY <1>a, <2>1
<1>29. CASE t = Fs /\ FsClearItem
  <2>1. failures' = failures /\ lost' = lost /\ (shadowed' = shadowed \/ shadowed' = FALSE)
    BY <1>29 DEF FsClearItem, tickq, nodes, fsq, cos, watch
  <2>2. QED
    BY <1>a, <2>1
<1>30. CASE t = Fs /\ FsGet
  <2>1. failures' = failures /\ lost' = lost /\ (shadowed' = shadowed \/ shadowed' = FALSE)
    BY <1>30 DEF FsGet, tickq, nodes, fsq, cos, watch
  <2>2. QED
    BY <1>a, <2>1
<1>31. CASE t = Fs /\ FsTick
  <2>1. failures' = failures /\ lost' = lost /\ (shadowed' = shadowed \/ shadowed' = FALSE)
    BY <1>31 DEF FsTick, Suspended, beginOneEvent, tickq, nodes, fsq, cos, watch
  <2>2. QED
    BY <1>a, <2>1
<1>32. CASE t = Fs /\ FsWait
  <2>1. failures' = failures /\ lost' = lost /\ (shadowed' = shadowed \/ shadowed' = FALSE)
    BY <1>32 DEF FsWait, tickq, nodes, fsq, cos, watch
  <2>2. QED
    BY <1>a, <2>1
<1>33. CASE t = Fs /\ FsInterrupted
  <2>1. failures' = failures /\ lost' = lost /\ (shadowed' = shadowed \/ shadowed' = FALSE)
    BY <1>33 DEF FsInterrupted, tickq, nodes, fsq, cos, watch
  <2>2. QED
    BY <1>a, <2>1
<1>34. QED
  BY <1>1, <1>2, <1>3, <1>4, <1>5, <1>6, <1>7, <1>8, <1>9, <1>10, <1>11, <1>12, <1>13, <1>14,
    <1>15, <1>16, <1>17, <1>18, <1>19, <1>20, <1>21, <1>22, <1>23, <1>24, <1>25, <1>26, <1>27,
    <1>28, <1>29, <1>30, <1>31, <1>32, <1>33 DEF StepOf, Shared, Dispatch, CoroStep

\* No coroutine is anywhere at first.
LEMMA InitLocated == Init => Located
<1> SUFFICES ASSUME Init PROVE Located
  OBVIOUS
<1>1. ASSUME NEW c \in Coros, NEW s \in Spots PROVE ~At(s, c)
  <2>1. /\ next_tick_queue = <<>> /\ lost = {} /\ fs_queue = <<>> /\ armed = {} /\ edges[c] = 0
    BY DEF Init
  <2>2. \A u \in Threads : th[u].cur = Null /\ th[u].arg = Null /\ th[u].pc # "d_arm"
    BY InitThreads
  <2>3. \A n : ~Loaded(n)
    BY <2>1, <2>2 DEF Loaded, Pc
  <2>4. ~At(QueueSpot, c) /\ ~At(LostSpot, c) /\ ~At(FsSpot, c) /\ ~At(EdgeSpot, c)
        /\ \A n : ~At(NodeSpot(n), c)
    BY <2>1, <2>3, EmptyQueue, AtKinds
  <2>5. \A u \in Threads : ~At(CurSpot(u), c) /\ ~At(ArgSpot(u), c)
    BY <2>2, ThreadAt, Constants
  <2>6. QED
    BY <2>4, <2>5, SpotKinds
<1>2. \A c \in Coros : coro[c] = "unstarted"
  BY DEF Init
<1>3. AtMostOne /\ Somewhere /\ Status
  BY <1>1, <1>2 DEF AtMostOne, Somewhere, Status
<1>4. QueuesDistinct /\ NothingLost
  <2>1. next_tick_queue = <<>> /\ fs_queue = <<>> /\ lost = {} /\ shadowed = FALSE
    BY DEF Init
  <2>2. QED
    BY <2>1, EmptyQueue DEF QueuesDistinct, NothingLost
<1>5. QED
  BY <1>3, <1>4 DEF Located

\* A stuttering step moves nothing.
LEMMA LocatedStutter ==
  ASSUME Located, UNCHANGED vars
  PROVE  Located'
<1>1. UNCHANGED <<next_tick_queue, lost, shadowed, handle, armed, fs_queue, coro, watching,
                  edges, failures, th>>
  BY DEF vars, tickq, nodes, fsq, cos, watch
<1>2. QueuesDistinct' /\ NothingLost'
  BY <1>1 DEF Located, QueuesDistinct, NothingLost
<1>3. \A s, c : At(s, c)' <=> At(s, c)
  BY <1>1 DEF At, Loaded, Pc
<1>4. \A s, c : Ok(s, c)' <=> Ok(s, c)
  BY <1>1 DEF Ok, CurOk, ArgOk, CurStatus, Pc
<1>5. QED
  BY <1>1, <1>2, <1>3, <1>4 DEF Located, AtMostOne, Somewhere, Status

\* Each coroutine is in one place, and its state fits that place.
LEMMA LocatedHolds == Edges <= 1 /\ Spec => []Located
<1> SUFFICES ASSUME Edges <= 1 PROVE Spec => []Located
  OBVIOUS
<1>1. Init => Located
  BY InitLocated
<1>2. Base /\ Located /\ [Next]_vars => Located'
  <2> SUFFICES ASSUME Base, Located, [Next]_vars PROVE Located'
    OBVIOUS
  <2>1. ASSUME NEW t \in Threads, StepOf(t) PROVE Located'
    <3>1. Where /\ QueuesDistinct /\ NothingLost /\ Others(t)
      BY <2>1, BaseStep DEF Located, Where
    <3>2. Where' /\ QueuesDistinct' /\ NothingLost'
      BY <2>1, <3>1, WhereStep, QueuesStep, LostStep
    <3>3. QED
      BY <3>2 DEF Located, Where
  <2>2. QED
    BY <2>1, NextIsStep, LocatedStutter
<1>3. QED
  BY <1>1, <1>2, BaseHolds, PTL DEF Spec

-----------------------------------------------------------------------------
(* A tick is in one place. *)

\* A set without two different elements.
LEMMA AtMostOneElement ==
  ASSUME NEW S, \A x, y \in S : x = y
  PROVE  Cardinality(S) <= 1
<1>1. CASE S = {}
  BY <1>1, FS_EmptySet
<1>2. CASE S # {}
  <2>1. PICK x : S = {x}
    BY <1>2
  <2>2. QED
    BY <2>1, FS_Singleton
<1>3. QED
  BY <1>1, <1>2

\* The place of a tick and the place of its coroutine.
PlaceIs(x, s, c) ==
  \/ s = QueueSpot /\ \E i \in 1..Len(next_tick_queue) : next_tick_queue[i] = c /\ x = <<"queue", i>>
  \/ \E n \in armed : s = NodeSpot(n) /\ x = <<"armed", n>>
  \/ \E t \in Threads : Pc(t) = "d_arm" /\ s = NodeSpot(th[t].node) /\ x = <<"arm", t>>
  \/ \E t \in Threads : s = ArgSpot(t) /\ x = <<"put", t>>
  \/ \E t \in Threads : s = CurSpot(t) /\ x = <<"resume", t>>

\* A place of a tick is a place of its coroutine.
LEMMA PlaceOfTick ==
  ASSUME Base, Located, NEW c \in Coros, NEW x \in TickPlaces(c)
  PROVE  \E s \in Spots : At(s, c) /\ PlaceIs(x, s, c) /\ coro[c] = "ticked"
<1>0. Types /\ Shaped /\ NodesOnce /\ Where
  BY DEF Base, Nodes, Located, Where
<1>1. ASSUME NEW i \in 1..Len(next_tick_queue), next_tick_queue[i] = c, x = <<"queue", i>>
      PROVE  \E s \in Spots : At(s, c) /\ PlaceIs(x, s, c) /\ coro[c] = "ticked"
  <2>1. QueueSpot \in Spots /\ At(QueueSpot, c)
    BY <1>1, SpotKinds, AtKinds DEF InQueue
  <2>2. coro[c] = "ticked"
    BY <1>0, <2>1, OkAt, OkKinds
  <2>3. PlaceIs(x, QueueSpot, c)
    BY <1>1 DEF PlaceIs
  <2>4. QED
    BY <2>1, <2>2, <2>3
<1>2. ASSUME NEW n \in armed, handle[n] = c, x = <<"armed", n>>
      PROVE  \E s \in Spots : At(s, c) /\ PlaceIs(x, s, c) /\ coro[c] = "ticked"
  <2>1. n \in EventfdNodes /\ Loaded(n)
    BY <1>0 DEF Types, Loaded
  <2>2. NodeSpot(n) \in Spots /\ At(NodeSpot(n), c)
    BY <1>2, <2>1, SpotKinds, AtKinds
  <2>3. coro[c] = "ticked"
    BY <1>0, <2>2, OkAt, OkKinds
  <2>4. PlaceIs(x, NodeSpot(n), c)
    BY <1>2 DEF PlaceIs
  <2>5. QED
    BY <2>2, <2>3, <2>4
<1>3. ASSUME NEW t \in Threads, Pc(t) = "t_put", th[t].arg = c, x = <<"put", t>>
      PROVE  \E s \in Spots : At(s, c) /\ PlaceIs(x, s, c) /\ coro[c] = "ticked"
  <2>1. ArgSpot(t) \in Spots /\ At(ArgSpot(t), c)
    BY <1>3, SpotKinds, ThreadAt DEF Passing, Pc
  <2>2. ArgOk(t, c)
    BY <1>0, <2>1, OkAt, OkKinds
  <2>3. PlaceIs(x, ArgSpot(t), c)
    BY <1>3 DEF PlaceIs
  <2>4. QED
    BY <1>3, <2>1, <2>2, <2>3 DEF ArgOk
<1>4. ASSUME NEW t \in Threads, Pc(t) = "d_arm", handle[th[t].node] = c, x = <<"arm", t>>
      PROVE  \E s \in Spots : At(s, c) /\ PlaceIs(x, s, c) /\ coro[c] = "ticked"
  <2>1. PICK n \in EventfdNodes : n = th[t].node
    BY <1>0, <1>4 DEF Shaped, Shape, ShapeOf, WithNode
  <2>2. Loaded(n)
    BY <1>4, <2>1 DEF Loaded
  <2>3. NodeSpot(n) \in Spots /\ At(NodeSpot(n), c)
    BY <1>4, <2>1, <2>2, SpotKinds, AtKinds
  <2>4. coro[c] = "ticked"
    BY <1>0, <2>3, OkAt, OkKinds
  <2>5. PlaceIs(x, NodeSpot(n), c)
    BY <1>4, <2>1 DEF PlaceIs
  <2>6. QED
    BY <2>3, <2>4, <2>5
<1>5. ASSUME NEW t \in Threads, Resuming(t, c), x = <<"resume", t>>
      PROVE  \E s \in Spots : At(s, c) /\ PlaceIs(x, s, c) /\ coro[c] = "ticked"
  <2>1. CurSpot(t) \in Spots /\ At(CurSpot(t), c)
    BY <1>5, SpotKinds, ThreadAt DEF Resuming
  <2>2. CurOk(t, c)
    BY <1>0, <2>1, OkAt, OkKinds
  <2>3. CurStatus(t) = "ticked"
    BY <1>5 DEF Resuming, Dispatching, CurStatus, InDispatch
  <2>4. PlaceIs(x, CurSpot(t), c)
    BY <1>5 DEF PlaceIs
  <2>5. QED
    BY <2>1, <2>2, <2>3, <2>4 DEF CurOk
<1>6. QED
  BY <1>1, <1>2, <1>3, <1>4, <1>5 DEF TickPlaces

\* A tick is in one place at most.
LEMMA PlaceUnique ==
  ASSUME Base, Located, NEW c, NEW s, NEW x, NEW y, PlaceIs(x, s, c), PlaceIs(y, s, c)
  PROVE  x = y
<1>0. Types /\ Shaped /\ NodesOnce /\ Distinct(next_tick_queue)
  BY DEF Base, Nodes, Located, QueuesDistinct
<1>1. CASE s = QueueSpot
  <2>1. PICK i \in 1..Len(next_tick_queue) : next_tick_queue[i] = c /\ x = <<"queue", i>>
    BY <1>1, SpotsDiffer DEF PlaceIs
  <2>2. PICK j \in 1..Len(next_tick_queue) : next_tick_queue[j] = c /\ y = <<"queue", j>>
    BY <1>1, SpotsDiffer DEF PlaceIs
  <2>3. i = j
    BY <1>0, <2>1, <2>2 DEF Distinct
  <2>4. QED
    BY <2>1, <2>2, <2>3
<1>2. ASSUME NEW n \in armed, s = NodeSpot(n) PROVE x = y
  <2>1. n \in EventfdNodes /\ \A t \in Threads : th[t].node # n
    BY <1>0 DEF Types, NodesOnce
  <2>2. x = <<"armed", n>> /\ y = <<"armed", n>>
    BY <1>2, <2>1, SpotsDiffer DEF PlaceIs
  <2>3. QED
    BY <2>2
<1>3. ASSUME NEW t \in Threads, Pc(t) = "d_arm", s = NodeSpot(th[t].node) PROVE x = y
  <2>1. PICK n \in EventfdNodes : n = th[t].node
    BY <1>0, <1>3 DEF Shaped, Shape, ShapeOf, WithNode
  <2>2. n \notin armed /\ \A u \in Threads : th[u].node = n => u = t
    BY <1>0, <2>1 DEF NodesOnce
  <2>3. x = <<"arm", t>> /\ y = <<"arm", t>>
    BY <1>3, <2>1, <2>2, SpotsDiffer DEF PlaceIs
  <2>4. QED
    BY <2>3
<1>4. ASSUME NEW t \in Threads, s = ArgSpot(t) PROVE x = y
  <2>1. x = <<"put", t>> /\ y = <<"put", t>>
    BY <1>4, SpotsDiffer DEF PlaceIs
  <2>2. QED
    BY <2>1
<1>5. ASSUME NEW t \in Threads, s = CurSpot(t) PROVE x = y
  <2>1. x = <<"resume", t>> /\ y = <<"resume", t>>
    BY <1>5, SpotsDiffer DEF PlaceIs
  <2>2. QED
    BY <2>1
<1>6. QED
  BY <1>1, <1>2, <1>3, <1>4, <1>5 DEF PlaceIs

\* A coroutine that waits for its tick has one.
LEMMA TickSomewhere ==
  ASSUME Base, Located, failures = 0, NEW c \in Coros, coro[c] = "ticked"
  PROVE  TickPlaces(c) # {}
<1>0. Types /\ Shaped /\ Where /\ lost = {}
  BY DEF Base, Located, Where, NothingLost
<1>1. PICK s \in Spots : At(s, c)
  BY DEF Located, Somewhere
<1>2. Ok(s, c)
  BY <1>0, <1>1, OkAt
<1>3. CASE s = QueueSpot
  <2>1. InQueue(next_tick_queue, c)
    BY <1>1, <1>3, AtKinds
  <2>2. PICK i \in 1..Len(next_tick_queue) : next_tick_queue[i] = c
    BY <2>1 DEF InQueue
  <2>3. <<"queue", i>> \in TickPlaces(c)
    BY <2>2 DEF TickPlaces
  <2>4. QED
    BY <2>3
<1>4. s # LostSpot /\ s # FsSpot /\ s # EdgeSpot
  <2>1. ~At(LostSpot, c)
    BY <1>0, AtKinds
  <2>2. ~Ok(FsSpot, c) /\ ~Ok(EdgeSpot, c)
    BY OkKinds
  <2>3. QED
    BY <1>1, <1>2, <2>1, <2>2
<1>5. ASSUME NEW n \in EventfdNodes, s = NodeSpot(n) PROVE TickPlaces(c) # {}
  <2>1. Loaded(n) /\ handle[n] = c
    BY <1>1, <1>5, AtKinds
  <2>2. CASE n \in armed
    <3>1. <<"armed", n>> \in TickPlaces(c)
      BY <2>1, <2>2 DEF TickPlaces
    <3>2. QED
      BY <3>1
  <2>3. ASSUME NEW t \in Threads, Pc(t) = "d_arm", th[t].node = n PROVE TickPlaces(c) # {}
    <3>1. <<"arm", t>> \in TickPlaces(c)
      BY <2>1, <2>3 DEF TickPlaces
    <3>2. QED
      BY <3>1
  <2>4. QED
    BY <2>1, <2>2, <2>3 DEF Loaded
<1>6. ASSUME NEW t \in Threads, s = CurSpot(t) PROVE TickPlaces(c) # {}
  <2>1. th[t].cur = c /\ CurStatus(t) = "ticked" /\ Shape(t)
    BY <1>0, <1>1, <1>2, <1>6, ThreadAt, OkKinds DEF CurOk, Shaped
  <2>2. Pc(t) \in {"p_push", "resume"} \/ (Dispatching(t) /\ th[t].ret = "resume")
    BY <2>1 DEF CurStatus, Dispatching, InDispatch
  <2>3. t \in Workers
    <3>1. t # Fs
      <4>1. th[t].after \in {"finish", "get"}
        BY <1>0, Fields DEF Types
      <4>2. QED
        BY <2>1, <2>2, <4>1 DEF Shape, ShapeOf, Caller, Dispatching, InDispatch
    <3>2. QED
      BY <3>1 DEF Threads
  <2>4. Resuming(t, c)
    BY <2>1, <2>2, <2>3 DEF Resuming
  <2>5. <<"resume", t>> \in TickPlaces(c)
    BY <2>4 DEF TickPlaces
  <2>6. QED
    BY <2>5
<1>7. ASSUME NEW t \in Threads, s = ArgSpot(t) PROVE TickPlaces(c) # {}
  <2>1. th[t].arg = c /\ Pc(t) \in Passing /\ ArgOk(t, c)
    BY <1>1, <1>2, <1>7, ThreadAt, OkKinds DEF Pc
  <2>2. Pc(t) = "t_put"
    BY <2>1 DEF ArgOk, Passing
  <2>3. <<"put", t>> \in TickPlaces(c)
    BY <2>1, <2>2 DEF TickPlaces
  <2>4. QED
    BY <2>3
<1>8. QED
  BY <1>3, <1>4, <1>5, <1>6, <1>7, SpotKinds

\* TickOnce follows from the places of the coroutines.
LEMMA LocatedTicks ==
  ASSUME Base, Located
  PROVE  TickOnce
<1> SUFFICES ASSUME NEW c \in Coros
             PROVE  /\ Cardinality(TickPlaces(c)) <= 1
                    /\ TickPlaces(c) # {} => coro[c] = "ticked"
                    /\ failures = 0 /\ coro[c] = "ticked" => TickPlaces(c) # {}
                    /\ Cardinality({t \in Workers : /\ Pc(t) \in {"run", "w_add", "w_del"}
                                                    /\ th[t].cur = c}) <= 1
  BY DEF TickOnce
<1>1. Cardinality(TickPlaces(c)) <= 1
  <2>1. PICK S : S = TickPlaces(c)
    OBVIOUS
  <2>2. ASSUME NEW x \in S, NEW y \in S PROVE x = y
    <3>1. PICK r \in Spots : At(r, c) /\ PlaceIs(x, r, c)
      BY <2>1, PlaceOfTick
    <3>2. PICK s \in Spots : At(s, c) /\ PlaceIs(y, s, c)
      BY <2>1, PlaceOfTick
    <3>3. r = s
      BY <3>1, <3>2 DEF Located, AtMostOne
    <3>4. QED
      BY <3>1, <3>2, <3>3, PlaceUnique
  <2>3. QED
    BY <2>1, <2>2, AtMostOneElement
<1>2. TickPlaces(c) # {} => coro[c] = "ticked"
  BY PlaceOfTick
<1>3. failures = 0 /\ coro[c] = "ticked" => TickPlaces(c) # {}
  BY TickSomewhere
<1>4. Cardinality({t \in Workers : Pc(t) \in {"run", "w_add", "w_del"} /\ th[t].cur = c}) <= 1
  <2>1. PICK S : S = {t \in Workers : Pc(t) \in {"run", "w_add", "w_del"} /\ th[t].cur = c}
    OBVIOUS
  <2>2. ASSUME NEW t \in S, NEW u \in S PROVE t = u
    <3>1. t \in Threads /\ u \in Threads /\ th[t].cur = c /\ th[u].cur = c
      BY <2>1 DEF Threads
    <3>2. /\ At(CurSpot(t), c) /\ At(CurSpot(u), c)
          /\ CurSpot(t) \in Spots /\ CurSpot(u) \in Spots
      BY <3>1, ThreadAt, SpotKinds
    <3>3. CurSpot(t) = CurSpot(u)
      BY <3>2 DEF Located, AtMostOne
    <3>4. QED
      BY <3>3, SpotsDiffer
  <2>3. QED
    BY <2>1, <2>2, AtMostOneElement
<1>5. QED
  BY <1>1, <1>2, <1>3, <1>4

\* No coroutine is resumed twice for one tick or by two threads at once, and
\* none that was handed to onNextTick() is forgotten (TickOnce), as long as a
\* watched descriptor is reported once only.
THEOREM EachTickOnce == Edges <= 1 /\ Spec => []TickOnce
<1> SUFFICES ASSUME Edges <= 1 PROVE Spec => []TickOnce
  OBVIOUS
<1>1. Base /\ Located => TickOnce
  BY LocatedTicks
<1>2. Spec => []Located
  BY LocatedHolds
<1>3. QED
  BY <1>1, <1>2, BaseHolds, PTL

-----------------------------------------------------------------------------
(* The count of pending events. *)

Num(b) == IF b THEN 1 ELSE 0

\* Two sets that differ in one element at most.
LEMMA OneElement ==
  ASSUME NEW S, NEW T, NEW e, IsFiniteSet(S), \A x : x # e => (x \in S <=> x \in T)
  PROVE  /\ IsFiniteSet(T) /\ Cardinality(S) \in Nat /\ Cardinality(T) \in Nat
         /\ Cardinality(T) = Cardinality(S) + Num(e \in T) - Num(e \in S)
<1>1. Cardinality(S) \in Nat
  BY FS_CardinalityType
<1>2. CASE e \in S /\ e \in T
  <2>1. S = T
    BY <1>2
  <2>2. QED
    BY <1>1, <1>2, <2>1 DEF Num
<1>3. CASE e \notin S /\ e \notin T
  <2>1. S = T
    BY <1>3
  <2>2. QED
    BY <1>1, <1>3, <2>1 DEF Num
<1>4. CASE e \in S /\ e \notin T
  <2>1. T = S \ {e}
    BY <1>4
  <2>2. IsFiniteSet(T) /\ Cardinality(T) = Cardinality(S) - 1
    BY <1>4, <2>1, FS_RemoveElement
  <2>3. Cardinality(T) \in Nat
    BY <2>2, FS_CardinalityType
  <2>4. QED
    BY <1>1, <1>4, <2>2, <2>3 DEF Num
<1>5. CASE e \notin S /\ e \in T
  <2>1. T = S \cup {e}
    BY <1>5
  <2>2. IsFiniteSet(T) /\ Cardinality(T) = Cardinality(S) + 1
    BY <1>5, <2>1, FS_AddElement
  <2>3. QED
    BY <1>1, <1>5, <2>2 DEF Num
<1>6. QED
  BY <1>2, <1>3, <1>4, <1>5

\* The references a thread holds, by its program counter and locals.
Owes(t, pc, after, arg) ==
  IF t = Fs THEN pc \in {"f_tick", "t_put", "finish"} \cup InDispatch
  ELSE /\ after = "finish" /\ pc \notin {"get", "poll", "stopped", "e_begin", "final"}
       /\ ~(pc \in InRequest /\ arg = End)
Carries(pc) == pc \in {"t_put", "r_put", "d_arm"}
Settles(t, pc, ret, after) ==
  t # Fs /\ ((pc \in {"resume", "w_del"} /\ after = "get") \/ (pc = "finish" /\ ret # "none"))

WeightOf(t, pc, ret, after, arg) ==
  Num(Owes(t, pc, after, arg)) + Num(Carries(pc)) + Num(Settles(t, pc, ret, after))
    + Num(t = Fs /\ pc = "f_exit")

Weight(t) == WeightOf(t, Pc(t), th[t].ret, th[t].after, th[t].arg)

Held == Cardinality(Owing) + Cardinality(Carrying) + Cardinality(Settling)
          + Num(Pc(Fs) = "f_exit")

Rest == Len(next_tick_queue) + Cardinality(lost) + Cardinality(armed) + Len(fs_queue)
          + Cardinality(watching) + Cardinality(Polling)

\* The sets of Loop, by the program counter and the locals of a thread.
LEMMA HoldsRef ==
  ASSUME NEW t \in Threads
  PROVE  /\ t \in Owing <=> Owes(t, Pc(t), th[t].after, th[t].arg)
         /\ t \in Carrying <=> Carries(Pc(t))
         /\ t \in Settling <=> Settles(t, Pc(t), th[t].ret, th[t].after)
<1>1. t \in Workers <=> t # Fs
  BY Constants
<1>2. CASE t = Fs
  BY <1>1, <1>2 DEF Owing, Carrying, Settling, Owes, Carries, Settles, Dispatching, InDispatch
<1>3. CASE t # Fs
  BY <1>1, <1>3 DEF Owing, Carrying, Settling, Owes, Carries, Settles, InRequest
<1>4. QED
  BY <1>2, <1>3

\* The same, after a step.
LEMMA HoldsRefNext ==
  ASSUME NEW t \in Threads
  PROVE  /\ t \in Owing' <=> Owes(t, th'[t].pc, th'[t].after, th'[t].arg)
         /\ t \in Carrying' <=> Carries(th'[t].pc)
         /\ t \in Settling' <=> Settles(t, th'[t].pc, th'[t].ret, th'[t].after)
<1>1. t \in Workers <=> t # Fs
  BY Constants
<1>2. CASE t = Fs
  BY <1>1, <1>2 DEF Owing, Carrying, Settling, Owes, Carries, Settles, Dispatching, InDispatch, Pc
<1>3. CASE t # Fs
  BY <1>1, <1>3 DEF Owing, Carrying, Settling, Owes, Carries, Settles, InRequest, Pc
<1>4. QED
  BY <1>2, <1>3

\* The threads that hold references are finitely many.
LEMMA HoldersFinite ==
  /\ IsFiniteSet(Owing) /\ IsFiniteSet(Carrying) /\ IsFiniteSet(Settling)
  /\ Owing \subseteq Threads /\ Carrying \subseteq Threads /\ Settling \subseteq Threads
  /\ Owing' \subseteq Threads /\ Carrying' \subseteq Threads /\ Settling' \subseteq Threads
<1>1. IsFiniteSet(Threads)
  BY LoopAssumption, FS_AddElement DEF Threads
<1>2. Owing \subseteq Threads /\ Carrying \subseteq Threads /\ Settling \subseteq Threads
  BY Constants DEF Owing, Carrying, Settling
<1>3. Owing' \subseteq Threads /\ Carrying' \subseteq Threads /\ Settling' \subseteq Threads
  BY Constants DEF Owing, Carrying, Settling
<1>4. QED
  BY <1>1, <1>2, <1>3, FS_Subset

\* A step changes what its thread holds and nothing else of what threads hold.
LEMMA HeldChange ==
  ASSUME NEW t \in Threads, Others(t)
  PROVE  /\ Held \in Int /\ Held' \in Int /\ Weight(t) \in Int /\ Weight(t)' \in Int
         /\ Held' = Held + Weight(t)' - Weight(t)
<1>1. ASSUME NEW u, u # t
      PROVE  /\ u \in Owing <=> u \in Owing'
             /\ u \in Carrying <=> u \in Carrying'
             /\ u \in Settling <=> u \in Settling'
  <2>1. CASE u \notin Threads
    BY <2>1, HoldersFinite
  <2>2. CASE u \in Threads /\ th'[u].pc = th[u].pc
    <3>1. Still(u)
      BY <1>1, <2>2 DEF Others
    <3>2. QED
      BY <2>2, <3>1, HoldsRef, HoldsRefNext DEF Still, Pc
  <2>3. CASE u = Fs /\ th[u].pc = "f_sleep" /\ th'[u].pc = "f_clear"
    <3>1. u \in Threads
      BY <2>3, Constants
    <3>2. u \notin Owing /\ u \notin Carrying /\ u \notin Settling
      BY <2>3, <3>1, HoldsRef DEF Owes, Carries, Settles, Pc, InDispatch
    <3>3. u \notin Owing' /\ u \notin Carrying' /\ u \notin Settling'
      BY <2>3, <3>1, HoldsRefNext DEF Owes, Carries, Settles, InDispatch
    <3>4. QED
      BY <3>2, <3>3
  <2>4. QED
    BY <1>1, <2>1, <2>2, <2>3 DEF Others, Still
<1>2. PICK o, o2, c, c2, s, s2 :
        /\ o = Owing /\ o2 = Owing' /\ c = Carrying /\ c2 = Carrying'
        /\ s = Settling /\ s2 = Settling'
  OBVIOUS
<1>3. IsFiniteSet(o) /\ IsFiniteSet(c) /\ IsFiniteSet(s)
  BY <1>2, HoldersFinite
<1>4. /\ Cardinality(o) \in Nat /\ Cardinality(o2) \in Nat
      /\ Cardinality(o2) = Cardinality(o) + Num(t \in o2) - Num(t \in o)
  BY <1>1, <1>2, <1>3, OneElement
<1>5. /\ Cardinality(c) \in Nat /\ Cardinality(c2) \in Nat
      /\ Cardinality(c2) = Cardinality(c) + Num(t \in c2) - Num(t \in c)
  BY <1>1, <1>2, <1>3, OneElement
<1>6. /\ Cardinality(s) \in Nat /\ Cardinality(s2) \in Nat
      /\ Cardinality(s2) = Cardinality(s) + Num(t \in s2) - Num(t \in s)
  BY <1>1, <1>2, <1>3, OneElement
<1>7. Num(th'[Fs].pc = "f_exit")
        = Num(th[Fs].pc = "f_exit") + Num(t = Fs /\ th'[t].pc = "f_exit") - Num(t = Fs /\ th[t].pc = "f_exit")
  <2>1. CASE t = Fs
    BY <2>1 DEF Num
  <2>2. CASE t # Fs
    <3>1. th'[Fs].pc = "f_exit" <=> th[Fs].pc = "f_exit"
      BY <2>2, Constants DEF Others, Still
    <3>2. QED
      BY <2>2, <3>1 DEF Num
  <2>3. QED
    BY <2>1, <2>2
<1>8. Weight(t) = Num(t \in o) + Num(t \in c) + Num(t \in s) + Num(t = Fs /\ th[t].pc = "f_exit")
  <2>1. /\ Num(t \in o) = Num(Owes(t, Pc(t), th[t].after, th[t].arg))
        /\ Num(t \in c) = Num(Carries(Pc(t)))
        /\ Num(t \in s) = Num(Settles(t, Pc(t), th[t].ret, th[t].after))
    BY <1>2, HoldsRef DEF Num
  <2>2. QED
    BY <2>1 DEF Weight, WeightOf, Pc
<1>9. Weight(t)' = Num(t \in o2) + Num(t \in c2) + Num(t \in s2) + Num(t = Fs /\ th'[t].pc = "f_exit")
  <2>1. /\ Num(t \in o2) = Num(Owes(t, th'[t].pc, th'[t].after, th'[t].arg))
        /\ Num(t \in c2) = Num(Carries(th'[t].pc))
        /\ Num(t \in s2) = Num(Settles(t, th'[t].pc, th'[t].ret, th'[t].after))
    BY <1>2, HoldsRefNext DEF Num
  <2>2. QED
    BY <2>1 DEF Weight, WeightOf, Pc
<1>10. /\ Held = Cardinality(o) + Cardinality(c) + Cardinality(s) + Num(th[Fs].pc = "f_exit")
       /\ Held' = Cardinality(o2) + Cardinality(c2) + Cardinality(s2) + Num(th'[Fs].pc = "f_exit")
  BY <1>2 DEF Held, Pc
<1>11. PICK a1 \in Int, a2 \in Int, a3 \in Int, a4 \in Int, a5 \in Int, a6 \in Int :
         /\ a1 = Num(t \in o) /\ a2 = Num(t \in c) /\ a3 = Num(t \in s)
         /\ a4 = Num(t \in o2) /\ a5 = Num(t \in c2) /\ a6 = Num(t \in s2)
  BY DEF Num
<1>12. PICK f1 \in Int, f2 \in Int, e1 \in Int, e2 \in Int :
         /\ f1 = Num(t = Fs /\ th[t].pc = "f_exit") /\ f2 = Num(t = Fs /\ th'[t].pc = "f_exit")
         /\ e1 = Num(th[Fs].pc = "f_exit") /\ e2 = Num(th'[Fs].pc = "f_exit")
  BY DEF Num
<1>13. PICK o1 \in Int, c1 \in Int, s1 \in Int, o3 \in Int, c3 \in Int, s3 \in Int :
         /\ o1 = Cardinality(o) /\ c1 = Cardinality(c) /\ s1 = Cardinality(s)
         /\ o3 = Cardinality(o2) /\ c3 = Cardinality(c2) /\ s3 = Cardinality(s2)
  BY <1>4, <1>5, <1>6
<1>14. /\ o3 = o1 + a4 - a1 /\ c3 = c1 + a5 - a2 /\ s3 = s1 + a6 - a3
       /\ e2 = e1 + f2 - f1
  BY <1>4, <1>5, <1>6, <1>7, <1>11, <1>12, <1>13
<1>15. /\ Weight(t) = a1 + a2 + a3 + f1 /\ Weight(t)' = a4 + a5 + a6 + f2
       /\ Held = o1 + c1 + s1 + e1 /\ Held' = o3 + c3 + s3 + e2
  BY <1>8, <1>9, <1>10, <1>11, <1>12, <1>13
<1>16. QED
  BY <1>14, <1>15

\* So are the ticks lost, armed or waited for.
LEMMA SetsFinite ==
  ASSUME Types
  PROVE  /\ IsFiniteSet(lost) /\ IsFiniteSet(armed) /\ IsFiniteSet(watching)
         /\ IsFiniteSet(Polling)
         /\ Len(next_tick_queue) \in Nat /\ Len(fs_queue) \in Nat
         /\ Cardinality(lost) \in Nat /\ Cardinality(armed) \in Nat
         /\ Cardinality(watching) \in Nat /\ Cardinality(Polling) \in Nat
         /\ Rest \in Nat
<1>1. /\ lost \subseteq Coros /\ armed \subseteq EventfdNodes /\ watching \subseteq Coros
      /\ Polling \subseteq Coros
  BY LoopAssumption DEF Types, Polling
<1>2. IsFiniteSet(lost) /\ IsFiniteSet(armed) /\ IsFiniteSet(watching) /\ IsFiniteSet(Polling)
  BY <1>1, LoopAssumption, FS_Subset
<1>3. /\ Cardinality(lost) \in Nat /\ Cardinality(armed) \in Nat
      /\ Cardinality(watching) \in Nat /\ Cardinality(Polling) \in Nat
  BY <1>2, FS_CardinalityType
<1>4. Len(next_tick_queue) \in Nat /\ Len(fs_queue) \in Nat
  BY DEF Types
<1>5. QED
  BY <1>2, <1>3, <1>4 DEF Rest

\* The count is what rests in the queues and sets and what the threads hold.
LEMMA ExactIs == Types => (Exact <=> pending_event_count = Rest + Held)
<1> SUFFICES ASSUME Types PROVE Exact <=> pending_event_count = Rest + Held
  OBVIOUS
<1>1. /\ Cardinality(Owing) \in Nat /\ Cardinality(Carrying) \in Nat
      /\ Cardinality(Settling) \in Nat
  BY HoldersFinite, FS_CardinalityType
<1>a. PICK o \in Int, c \in Int, s \in Int :
        o = Cardinality(Owing) /\ c = Cardinality(Carrying) /\ s = Cardinality(Settling)
  BY <1>1
<1>b. /\ Cardinality(lost) \in Int /\ Cardinality(armed) \in Int
      /\ Cardinality(watching) \in Int /\ Cardinality(Polling) \in Int
  BY SetsFinite
<1>2. PICK l \in Int, a \in Int, w \in Int, p \in Int :
        /\ l = Cardinality(lost) /\ a = Cardinality(armed)
        /\ w = Cardinality(watching) /\ p = Cardinality(Polling)
  BY <1>b
<1>3. PICK q \in Int, f \in Int, e \in Int :
        /\ q = Len(next_tick_queue) /\ f = Len(fs_queue)
        /\ e = (IF Pc(Fs) = "f_exit" THEN 1 ELSE 0)
  BY SetsFinite
<1>4. Rest = q + l + a + f + w + p /\ Held = o + c + s + e
  BY <1>a, <1>2, <1>3 DEF Rest, Held, Num
<1>5. Exact <=> pending_event_count = q + l + a + f + o + c + w + p + s + e
  BY <1>a, <1>2, <1>3 DEF Exact
<1>6. QED
  BY <1>4, <1>5

\* A step keeps the count exact when what it adds to the count is what it adds
\* to the queues, to the sets and to what its thread holds.
LEMMA Balance ==
  ASSUME Types, Types', Exact, NEW t \in Threads, Others(t), NEW d \in Int, NEW e \in Int,
         pending_event_count' = pending_event_count + d,
         Rest' = Rest + e, Weight(t)' = Weight(t) + d - e
  PROVE  Exact'
<1>1. pending_event_count = Rest + Held
  BY ExactIs
<1>2. Rest \in Int
  BY SetsFinite
<1>3. pending_event_count' = Rest' + Held'
  BY <1>1, <1>2, HeldChange
<1>4. (Types => (Exact <=> pending_event_count = Rest + Held))'
  BY ExactIs, PTL
<1>5. QED
  BY <1>3, <1>4

\* A step that leaves the queues and sets alone.
LEMMA RestSame ==
  ASSUME Types, UNCHANGED <<next_tick_queue, lost, armed, fs_queue, watching, coro>>
  PROVE  Rest' = Rest + 0
<1>1. Rest' = Rest
  BY DEF Rest, Polling
<1>2. QED
  BY <1>1, SetsFinite

\* A coroutine that does not begin or end waiting for its descriptor.
LEMMA PollingSame ==
  ASSUME Types, NEW c \in Coros, NEW v, coro' = [coro EXCEPT ![c] = v], coro[c] # "polling",
         v # "polling"
  PROVE  Polling' = Polling
<1>1. \A x \in Coros : coro'[x] = "polling" <=> coro[x] = "polling"
  BY DEF Types
<1>2. QED
  BY <1>1 DEF Polling

\* The same, of a step that changes the state of a coroutine.
LEMMA RestCoro ==
  ASSUME Types, UNCHANGED <<next_tick_queue, lost, armed, fs_queue, watching>>, Polling' = Polling
  PROVE  Rest' = Rest + 0
<1>1. Rest' = Rest
  BY DEF Rest
<1>2. QED
  BY <1>1, SetsFinite

\* The references of a thread, by its program counter.
LEMMA WorkerWeight ==
  ASSUME NEW t, t # Fs, NEW pc, NEW ret, NEW after \in {"finish", "get"}, NEW arg
  PROVE  /\ pc \in {"get", "poll", "stopped", "e_begin", "final"} =>
              WeightOf(t, pc, ret, after, arg) = 0
         /\ pc \in {"setup", "run", "p_push", "w_add", "w_ctl", "d_pop", "d_get", "d_push"} =>
              WeightOf(t, pc, ret, after, arg) = Num(after = "finish")
         /\ pc \in {"d_arm", "t_put"} =>
              WeightOf(t, pc, ret, after, arg) = Num(after = "finish") + 1
         /\ pc = "r_put" => WeightOf(t, pc, ret, after, arg) = Num(after = "finish" /\ arg # End) + 1
         /\ pc \in {"r_item", "r_wake"} => WeightOf(t, pc, ret, after, arg) = Num(after = "finish" /\ arg # End)
         /\ pc \in {"resume", "w_del"} => WeightOf(t, pc, ret, after, arg) = 1
         /\ pc = "finish" => WeightOf(t, pc, ret, after, arg) = Num(after = "finish") + Num(ret # "none")
BY DEF WeightOf, Owes, Carries, Settles, Num, InDispatch, InRequest

\* The references of the file system thread, by its program counter.
LEMMA FsWeight ==
  ASSUME NEW t, t = Fs, NEW pc, NEW ret, NEW after, NEW arg
  PROVE  /\ pc \in {"f_clear", "f_get", "f_wait", "f_sleep", "e_begin", "r_item", "r_wake", "final"} =>
              WeightOf(t, pc, ret, after, arg) = 0
         /\ pc \in {"f_tick", "finish", "d_pop", "d_get", "d_push", "r_put", "f_exit"} =>
              WeightOf(t, pc, ret, after, arg) = 1
         /\ pc \in {"d_arm", "t_put"} => WeightOf(t, pc, ret, after, arg) = 2
BY DEF WeightOf, Owes, Carries, Settles, Num, InDispatch

\* The references of a thread after its step.
LEMMA WeightNext ==
  ASSUME NEW t, NEW pc, NEW ret, NEW after, NEW cur, NEW arg, NEW node,
         Becomes(t, pc, ret, after, cur, arg, node)
  PROVE  Weight(t)' = WeightOf(t, pc, ret, after, arg)
BY DEF Weight, Becomes, Pc

\* A call returns: the thread holds what it held before the call.
LEMMA ReturnWeight ==
  ASSUME Types, NEW t \in Threads, Returns(t)
  PROVE  /\ th[t].ret = "none" => Weight(t)' = 0
         /\ th[t].ret = "finish" => Weight(t)' = 1
         /\ th[t].ret = "get" /\ t # Fs => Weight(t)' = 0
         /\ th[t].ret \in {"setup", "run"} /\ t # Fs => Weight(t)' = Num(th[t].after = "finish")
         /\ th[t].ret = "resume" /\ t # Fs => Weight(t)' = 1
<1>0. th[t].after \in {"finish", "get"}
      /\ th[t].ret \in {"none", "setup", "run", "resume", "finish", "get"}
  BY Fields DEF Types
<1>1. CASE th[t].ret = "none"
  <2>1. PICK pc : pc = Home(t)
    OBVIOUS
  <2>2. Becomes(t, pc, "none", "finish", Null, Null, Null)
    BY <1>1, <2>1 DEF Returns
  <2>3. Weight(t)' = WeightOf(t, pc, "none", "finish", Null)
    BY <2>2, WeightNext
  <2>4. t = Fs => Weight(t)' = 0
    BY <2>1, <2>3, FsWeight DEF Home
  <2>5. t # Fs => Weight(t)' = 0
    BY <2>1, <2>3, WorkerWeight DEF Home
  <2>6. QED
    BY <1>1, <2>4, <2>5
<1>2. CASE th[t].ret = "finish"
  <2>1. Weight(t)' = WeightOf(t, "finish", "none", "finish", Null)
    BY <1>2, WeightNext DEF Returns
  <2>2. QED
    BY <1>2, <2>1, WorkerWeight, FsWeight DEF Num
<1>3. CASE th[t].ret = "get"
  <2>1. Weight(t)' = WeightOf(t, "get", "none", "finish", Null)
    BY <1>3, WeightNext DEF Returns
  <2>2. QED
    BY <1>3, <2>1, WorkerWeight
<1>4. CASE th[t].ret \in {"setup", "run", "resume"}
  <2>1. PICK pc, after, cur : pc = th[t].ret /\ after = th[t].after /\ cur = th[t].cur
    OBVIOUS
  <2>2. Becomes(t, pc, "none", after, cur, Null, Null)
    BY <1>4, <2>1 DEF Returns
  <2>3. Weight(t)' = WeightOf(t, pc, "none", after, Null)
    BY <2>2, WeightNext
  <2>4. t # Fs /\ pc \in {"setup", "run"} => Weight(t)' = Num(after = "finish")
    BY <1>0, <2>1, <2>3, WorkerWeight
  <2>5. t # Fs /\ pc = "resume" => Weight(t)' = 1
    BY <1>0, <2>1, <2>3, WorkerWeight
  <2>6. QED
    BY <1>4, <2>1, <2>4, <2>5
<1>5. QED
  BY <1>0, <1>1, <1>2, <1>3, <1>4

\* The references of a thread before its step.
LEMMA WeightNow ==
  ASSUME Types, Shaped, NEW t \in Threads, NEW pc, Pc(t) = pc
  PROVE  /\ Weight(t) = WeightOf(t, pc, th[t].ret, th[t].after, th[t].arg)
         /\ th[t].after \in {"finish", "get"}
         /\ t = Fs => th[t].after = "finish"
<1>1. Shape(t) /\ th[t].after \in {"finish", "get"}
  BY Fields DEF Shaped, Types
<1>2. QED
  BY <1>1 DEF Weight, Shape, ShapeOf

\* dispatch() returns.
LEMMA DispatchReturnWeight ==
  ASSUME Types, Shaped, NEW t \in Threads, Pc(t) \in {"d_pop", "d_push"}, Returns(t)
  PROVE  Weight(t)' = Weight(t)
<1>1. Shape(t) /\ th[t].after \in {"finish", "get"}
  BY Fields DEF Shaped, Types
<1>2. CASE t = Fs
  <2>1. th[t].ret = "finish" \/ th[t].ret = "none"
    BY <1>1, <1>2, Constants DEF Shape, ShapeOf, Caller, InDispatch
  <2>2. th[t].ret # "none"
    BY <1>1, Constants DEF Shape, ShapeOf, Caller, InDispatch
  <2>3. Weight(t)' = 1
    BY <2>1, <2>2, ReturnWeight
  <2>4. Weight(t) = 1
    BY <1>2, WeightNow, FsWeight
  <2>5. QED
    BY <2>3, <2>4
<1>3. CASE t # Fs
  <2>1. Weight(t) = Num(th[t].after = "finish")
    BY <1>1, <1>3, WeightNow, WorkerWeight
  <2>2. \/ th[t].ret = "setup" \/ th[t].ret = "run" \/ th[t].ret = th[t].after
        \/ th[t].ret = "resume" /\ th[t].after = "finish"
    BY <1>1 DEF Shape, ShapeOf, Caller, InDispatch
  <2>3. QED
    BY <1>1, <1>3, <2>1, <2>2, ReturnWeight DEF Num
<1>4. QED
  BY <1>2, <1>3

\* One of the places holds more, or less.
LEMMA RestQueues ==
  ASSUME Types, NEW q \in Int, NEW l \in Int, UNCHANGED <<armed, fs_queue, watching>>,
         Polling' = Polling,
         Len(next_tick_queue') = Len(next_tick_queue) + q,
         Cardinality(lost') = Cardinality(lost) + l
  PROVE  Rest' = Rest + (q + l)
<1>1. /\ Cardinality(lost) \in Int /\ Cardinality(armed) \in Int
      /\ Cardinality(watching) \in Int /\ Cardinality(Polling) \in Int
      /\ Len(next_tick_queue) \in Int /\ Len(fs_queue) \in Int
  BY SetsFinite
<1>2. PICK l1 \in Int, a1 \in Int, w1 \in Int, p1 \in Int :
        /\ l1 = Cardinality(lost) /\ a1 = Cardinality(armed)
        /\ w1 = Cardinality(watching) /\ p1 = Cardinality(Polling)
  BY <1>1
<1>3. PICK q1 \in Int, f1 \in Int : q1 = Len(next_tick_queue) /\ f1 = Len(fs_queue)
  BY <1>1
<1>4. Rest = q1 + l1 + a1 + f1 + w1 + p1
  BY <1>2, <1>3 DEF Rest
<1>5. Rest' = (q1 + q) + (l1 + l) + a1 + f1 + w1 + p1
  BY <1>2, <1>3 DEF Rest
<1>6. QED
  BY <1>4, <1>5

\* The other places hold more, or less.
LEMMA RestOther ==
  ASSUME Types, NEW a \in Int, NEW f \in Int, NEW w \in Int, NEW p \in Int,
         UNCHANGED <<next_tick_queue, lost>>,
         Cardinality(armed') = Cardinality(armed) + a,
         Len(fs_queue') = Len(fs_queue) + f,
         Cardinality(watching') = Cardinality(watching) + w,
         Cardinality(Polling') = Cardinality(Polling) + p
  PROVE  Rest' = Rest + (a + f + w + p)
<1>1. /\ Cardinality(lost) \in Int /\ Cardinality(armed) \in Int
      /\ Cardinality(watching) \in Int /\ Cardinality(Polling) \in Int
      /\ Len(next_tick_queue) \in Int /\ Len(fs_queue) \in Int
  BY SetsFinite
<1>2. PICK r \in Int : r = Len(next_tick_queue) + Cardinality(lost)
  BY <1>1
<1>3. PICK a1 \in Int, f1 \in Int, w1 \in Int, p1 \in Int :
        /\ a1 = Cardinality(armed) /\ f1 = Len(fs_queue)
        /\ w1 = Cardinality(watching) /\ p1 = Cardinality(Polling)
  BY <1>1
<1>4. Rest = r + a1 + f1 + w1 + p1
  BY <1>1, <1>2, <1>3 DEF Rest
<1>5. Rest' = r + (a1 + a) + (f1 + f) + (w1 + w) + (p1 + p)
  BY <1>1, <1>2, <1>3 DEF Rest
<1>6. QED
  BY <1>4, <1>5

\* A thread that owes or settles is counted.
LEMMA HeldAtLeast ==
  ASSUME NEW t \in Threads
  PROVE  Held >= Weight(t) /\ Held >= 0 /\ Held \in Int /\ Weight(t) \in Int
<1>1. /\ Cardinality(Owing) \in Nat /\ Cardinality(Carrying) \in Nat
      /\ Cardinality(Settling) \in Nat
  BY HoldersFinite, FS_CardinalityType
<1>2. /\ t \in Owing => Cardinality(Owing) # 0
      /\ t \in Carrying => Cardinality(Carrying) # 0
      /\ t \in Settling => Cardinality(Settling) # 0
  BY HoldersFinite, FS_EmptySet
<1>3. PICK o \in Nat, c \in Nat, s \in Nat :
        o = Cardinality(Owing) /\ c = Cardinality(Carrying) /\ s = Cardinality(Settling)
  BY <1>1
<1>4. /\ o >= Num(Owes(t, Pc(t), th[t].after, th[t].arg))
      /\ c >= Num(Carries(Pc(t)))
      /\ s >= Num(Settles(t, Pc(t), th[t].ret, th[t].after))
      /\ Num(Pc(Fs) = "f_exit") >= Num(t = Fs /\ Pc(t) = "f_exit")
  BY <1>2, <1>3, HoldsRef DEF Num
<1>5. PICK a1 \in Int, a2 \in Int, a3 \in Int, e1 \in Int, e2 \in Int :
        /\ a1 = Num(Owes(t, Pc(t), th[t].after, th[t].arg)) /\ a2 = Num(Carries(Pc(t)))
        /\ a3 = Num(Settles(t, Pc(t), th[t].ret, th[t].after))
        /\ e1 = Num(Pc(Fs) = "f_exit") /\ e2 = Num(t = Fs /\ Pc(t) = "f_exit")
  BY DEF Num
<1>6. e1 >= 0
  BY <1>5 DEF Num
<1>7. Held = o + c + s + e1 /\ Weight(t) = a1 + a2 + a3 + e2
  BY <1>3, <1>5 DEF Held, Weight, WeightOf
<1>8. QED
  BY <1>4, <1>5, <1>6, <1>7

(* What a step adds to the references of its thread. *)

\* What DispatchArm adds to the references of its thread.
LEMMA DispatchArmWeighs ==
  ASSUME Types, Shaped, NEW t \in Threads, DispatchArm(t)
  PROVE  Weight(t)' = Weight(t) - 1
<1>1. PICK ret, after, cur, arg, node :
        /\ ret = th[t].ret /\ after = th[t].after /\ cur = th[t].cur
        /\ arg = th[t].arg /\ node = th[t].node
  OBVIOUS
<1>2. Pc(t) = "d_arm" /\ Becomes(t, "d_pop", ret, after, cur, arg, Null)
  BY <1>1, DispatchArmDoes
<1>3. Shape(t) /\ after \in {"finish", "get"}
  BY <1>1, Fields DEF Shaped, Types
<1>4. t = Fs => after = "finish"
  BY <1>1, <1>2, <1>3, Constants DEF Shape, ShapeOf
<1>5. Weight(t) = WeightOf(t, "d_arm", ret, after, arg)
  BY <1>1, <1>2 DEF Weight
<1>6. Weight(t)' = WeightOf(t, "d_pop", ret, after, arg)
  BY <1>2, WeightNext
<1>7. WeightOf(t, "d_pop", ret, after, arg) = WeightOf(t, "d_arm", ret, after, arg) - 1
  BY <1>3, <1>4 DEF WeightOf, Owes, Carries, Settles, Num, InDispatch, InRequest
<1>8. QED
  BY <1>5, <1>6, <1>7

\* What DispatchArmFails adds to the references of its thread.
LEMMA DispatchArmFailsWeighs ==
  ASSUME Types, Shaped, NEW t \in Threads, DispatchArmFails(t)
  PROVE  Weight(t)' = Weight(t) - 1
<1>1. PICK ret, after, cur, arg, node :
        /\ ret = th[t].ret /\ after = th[t].after /\ cur = th[t].cur
        /\ arg = th[t].arg /\ node = th[t].node
  OBVIOUS
<1>2. Pc(t) = "d_arm" /\ Becomes(t, "d_push", ret, after, cur, arg, node)
  BY <1>1, DispatchArmFailsDoes
<1>3. Shape(t) /\ after \in {"finish", "get"}
  BY <1>1, Fields DEF Shaped, Types
<1>4. t = Fs => after = "finish"
  BY <1>1, <1>2, <1>3, Constants DEF Shape, ShapeOf
<1>5. Weight(t) = WeightOf(t, "d_arm", ret, after, arg)
  BY <1>1, <1>2 DEF Weight
<1>6. Weight(t)' = WeightOf(t, "d_push", ret, after, arg)
  BY <1>2, WeightNext
<1>7. WeightOf(t, "d_push", ret, after, arg) = WeightOf(t, "d_arm", ret, after, arg) - 1
  BY <1>3, <1>4 DEF WeightOf, Owes, Carries, Settles, Num, InDispatch, InRequest
<1>8. QED
  BY <1>5, <1>6, <1>7

\* What PutTick adds to the references of its thread.
LEMMA PutTickWeighs ==
  ASSUME Types, Shaped, NEW t \in Threads, PutTick(t)
  PROVE  Weight(t)' = Weight(t) - 1
<1>1. PICK ret, after, cur, arg, node :
        /\ ret = th[t].ret /\ after = th[t].after /\ cur = th[t].cur
        /\ arg = th[t].arg /\ node = th[t].node
  OBVIOUS
<1>2. Pc(t) = "t_put" /\ Becomes(t, "d_pop", ret, after, cur, Null, node)
  BY <1>1, PutTickDoes
<1>3. Shape(t) /\ after \in {"finish", "get"}
  BY <1>1, Fields DEF Shaped, Types
<1>4. t = Fs => after = "finish"
  BY <1>1, <1>2, <1>3, Constants DEF Shape, ShapeOf
<1>5. Weight(t) = WeightOf(t, "t_put", ret, after, arg)
  BY <1>1, <1>2 DEF Weight
<1>6. Weight(t)' = WeightOf(t, "d_pop", ret, after, Null)
  BY <1>2, WeightNext
<1>7. WeightOf(t, "d_pop", ret, after, Null) = WeightOf(t, "t_put", ret, after, arg) - 1
  BY <1>3, <1>4 DEF WeightOf, Owes, Carries, Settles, Num, InDispatch, InRequest
<1>8. QED
  BY <1>5, <1>6, <1>7

\* What PutRequest adds to the references of its thread.
LEMMA PutRequestWeighs ==
  ASSUME Types, Shaped, NEW t \in Threads, PutRequest(t)
  PROVE  Weight(t)' = Weight(t) - 1
<1>1. PICK ret, after, cur, arg, node :
        /\ ret = th[t].ret /\ after = th[t].after /\ cur = th[t].cur
        /\ arg = th[t].arg /\ node = th[t].node
  OBVIOUS
<1>2. Pc(t) = "r_put" /\ Becomes(t, "r_item", ret, after, cur, arg, node)
  BY <1>1, PutRequestDoes
<1>3. Shape(t) /\ after \in {"finish", "get"}
  BY <1>1, Fields DEF Shaped, Types
<1>4. t = Fs => after = "finish"
  BY <1>1, <1>2, <1>3, Constants DEF Shape, ShapeOf
<1>5. Weight(t) = WeightOf(t, "r_put", ret, after, arg)
  BY <1>1, <1>2 DEF Weight
<1>6. Weight(t)' = WeightOf(t, "r_item", ret, after, arg)
  BY <1>2, WeightNext
<1>7. WeightOf(t, "r_item", ret, after, arg) = WeightOf(t, "r_put", ret, after, arg) - 1
  BY <1>3, <1>4 DEF WeightOf, Owes, Carries, Settles, Num, InDispatch, InRequest
<1>8. QED
  BY <1>5, <1>6, <1>7

\* What SetItem adds to the references of its thread.
LEMMA SetItemWeighs ==
  ASSUME Types, Shaped, NEW t \in Threads, SetItem(t)
  PROVE  Weight(t)' = Weight(t) + 0
<1>1. PICK ret, after, cur, arg, node :
        /\ ret = th[t].ret /\ after = th[t].after /\ cur = th[t].cur
        /\ arg = th[t].arg /\ node = th[t].node
  OBVIOUS
<1>2. Pc(t) = "r_item" /\ Becomes(t, "r_wake", ret, after, cur, arg, node)
  BY <1>1, SetItemDoes
<1>3. Shape(t) /\ after \in {"finish", "get"}
  BY <1>1, Fields DEF Shaped, Types
<1>4. t = Fs => after = "finish"
  BY <1>1, <1>2, <1>3, Constants DEF Shape, ShapeOf
<1>5. Weight(t) = WeightOf(t, "r_item", ret, after, arg)
  BY <1>1, <1>2 DEF Weight
<1>6. Weight(t)' = WeightOf(t, "r_wake", ret, after, arg)
  BY <1>2, WeightNext
<1>7. WeightOf(t, "r_wake", ret, after, arg) = WeightOf(t, "r_item", ret, after, arg) + 0
  BY <1>3, <1>4 DEF WeightOf, Owes, Carries, Settles, Num, InDispatch, InRequest
<1>8. QED
  BY <1>5, <1>6, <1>7

\* What RequestEnd adds to the references of its thread.
LEMMA RequestEndWeighs ==
  ASSUME Types, Shaped, NEW t \in Threads, RequestEnd(t)
  PROVE  Weight(t)' = Weight(t) + 1
<1>1. PICK ret, after, cur, arg, node :
        /\ ret = th[t].ret /\ after = th[t].after /\ cur = th[t].cur
        /\ arg = th[t].arg /\ node = th[t].node
  OBVIOUS
<1>2. Pc(t) = "e_begin" /\ Becomes(t, "r_put", ret, after, cur, End, node)
  BY <1>1, RequestEndDoes
<1>3. Shape(t) /\ after \in {"finish", "get"}
  BY <1>1, Fields DEF Shaped, Types
<1>4. t = Fs => after = "finish"
  BY <1>1, <1>2, <1>3, Constants DEF Shape, ShapeOf
<1>5. Weight(t) = WeightOf(t, "e_begin", ret, after, arg)
  BY <1>1, <1>2 DEF Weight
<1>6. Weight(t)' = WeightOf(t, "r_put", ret, after, End)
  BY <1>2, WeightNext
<1>7. WeightOf(t, "r_put", ret, after, End) = WeightOf(t, "e_begin", ret, after, arg) + 1
  BY <1>3, <1>4 DEF WeightOf, Owes, Carries, Settles, Num, InDispatch, InRequest
<1>8. QED
  BY <1>5, <1>6, <1>7

\* What PollEventFd adds to the references of its thread.
LEMMA PollEventFdWeighs ==
  ASSUME Types, Shaped, NEW t \in Threads, NEW n \in EventfdNodes, PollEventFd(t, n),
         handle[n] \in Coros
  PROVE  Weight(t)' = Weight(t) + 1
<1>1. PICK ret, after, cur, arg, node :
        /\ ret = th[t].ret /\ after = th[t].after /\ cur = th[t].cur
        /\ arg = th[t].arg /\ node = th[t].node
  OBVIOUS
<1>2. Pc(t) = "poll" /\ Becomes(t, "p_push", ret, after, handle[n], arg, n)
  BY <1>1, PollEventFdDoes
<1>3. Shape(t) /\ after \in {"finish", "get"}
  BY <1>1, Fields DEF Shaped, Types
<1>4. after = "finish" /\ t # Fs
  BY <1>1, <1>2, <1>3, Constants DEF Shape, ShapeOf
<1>5. Weight(t) = WeightOf(t, "poll", ret, after, arg)
  BY <1>1, <1>2 DEF Weight
<1>6. Weight(t)' = WeightOf(t, "p_push", ret, after, arg)
  BY <1>2, WeightNext
<1>7. WeightOf(t, "p_push", ret, after, arg) = WeightOf(t, "poll", ret, after, arg) + 1
  BY <1>3, <1>4 DEF WeightOf, Owes, Carries, Settles, Num, InDispatch, InRequest
<1>8. QED
  BY <1>5, <1>6, <1>7

\* What PollPush adds to the references of its thread.
LEMMA PollPushWeighs ==
  ASSUME Types, Shaped, NEW t \in Threads, PollPush(t)
  PROVE  Weight(t)' = Weight(t) + 0
<1>1. PICK ret, after, cur, arg, node :
        /\ ret = th[t].ret /\ after = th[t].after /\ cur = th[t].cur
        /\ arg = th[t].arg /\ node = th[t].node
  OBVIOUS
<1>2. Pc(t) = "p_push" /\ Becomes(t, "resume", ret, after, cur, arg, Null)
  BY <1>1, PollPushDoes
<1>3. Shape(t) /\ after \in {"finish", "get"}
  BY <1>1, Fields DEF Shaped, Types
<1>4. after = "finish" /\ t # Fs
  BY <1>1, <1>2, <1>3, Constants DEF Shape, ShapeOf
<1>5. Weight(t) = WeightOf(t, "p_push", ret, after, arg)
  BY <1>1, <1>2 DEF Weight
<1>6. Weight(t)' = WeightOf(t, "resume", ret, after, arg)
  BY <1>2, WeightNext
<1>7. WeightOf(t, "resume", ret, after, arg) = WeightOf(t, "p_push", ret, after, arg) + 0
  BY <1>3, <1>4 DEF WeightOf, Owes, Carries, Settles, Num, InDispatch, InRequest
<1>8. QED
  BY <1>5, <1>6, <1>7

\* What PollStop adds to the references of its thread.
LEMMA PollStopWeighs ==
  ASSUME Types, Shaped, NEW t \in Threads, PollStop(t)
  PROVE  Weight(t)' = Weight(t) + 0
<1>1. PICK ret, after, cur, arg, node :
        /\ ret = th[t].ret /\ after = th[t].after /\ cur = th[t].cur
        /\ arg = th[t].arg /\ node = th[t].node
  OBVIOUS
<1>2. Pc(t) = "poll" /\ Becomes(t, "stopped", ret, after, cur, arg, node)
  BY <1>1, PollStopDoes
<1>3. Shape(t) /\ after \in {"finish", "get"}
  BY <1>1, Fields DEF Shaped, Types
<1>4. after = "finish" /\ t # Fs
  BY <1>1, <1>2, <1>3, Constants DEF Shape, ShapeOf
<1>5. Weight(t) = WeightOf(t, "poll", ret, after, arg)
  BY <1>1, <1>2 DEF Weight
<1>6. Weight(t)' = WeightOf(t, "stopped", ret, after, arg)
  BY <1>2, WeightNext
<1>7. WeightOf(t, "stopped", ret, after, arg) = WeightOf(t, "poll", ret, after, arg) + 0
  BY <1>3, <1>4 DEF WeightOf, Owes, Carries, Settles, Num, InDispatch, InRequest
<1>8. QED
  BY <1>5, <1>6, <1>7

\* What PollFd adds to the references of its thread.
LEMMA PollFdWeighs ==
  ASSUME Types, Shaped, NEW t \in Threads, NEW c \in Coros, PollFd(t, c)
  PROVE  Weight(t)' = Weight(t) + 1
<1>1. PICK ret, after, cur, arg, node :
        /\ ret = th[t].ret /\ after = th[t].after /\ cur = th[t].cur
        /\ arg = th[t].arg /\ node = th[t].node
  OBVIOUS
<1>2. Pc(t) = "poll" /\ Becomes(t, "resume", ret, "get", c, arg, node)
  BY <1>1, PollFdDoes
<1>3. Shape(t) /\ after \in {"finish", "get"}
  BY <1>1, Fields DEF Shaped, Types
<1>4. after = "finish" /\ t # Fs
  BY <1>1, <1>2, <1>3, Constants DEF Shape, ShapeOf
<1>5. Weight(t) = WeightOf(t, "poll", ret, after, arg)
  BY <1>1, <1>2 DEF Weight
<1>6. Weight(t)' = WeightOf(t, "resume", ret, "get", arg)
  BY <1>2, WeightNext
<1>7. WeightOf(t, "resume", ret, "get", arg) = WeightOf(t, "poll", ret, after, arg) + 1
  BY <1>3, <1>4 DEF WeightOf, Owes, Carries, Settles, Num, InDispatch, InRequest
<1>8. QED
  BY <1>5, <1>6, <1>7

\* What run adds to the references of its thread.
LEMMA runWeighs ==
  ASSUME Types, Shaped, NEW t \in Threads, t = Main, run
  PROVE  Weight(t)' = Weight(t) + 0
<1>1. PICK ret, after, cur, arg, node :
        /\ ret = th[t].ret /\ after = th[t].after /\ cur = th[t].cur
        /\ arg = th[t].arg /\ node = th[t].node
  OBVIOUS
<1>2. Pc(t) = "setup" /\ Becomes(t, "finish", ret, after, cur, arg, node)
  BY <1>1, runDoes
<1>3. Shape(t) /\ after \in {"finish", "get"}
  BY <1>1, Fields DEF Shaped, Types
<1>4. after = "finish" /\ t # Fs /\ ret = "none"
  BY <1>1, <1>2, <1>3, Constants DEF Shape, ShapeOf
<1>5. Weight(t) = WeightOf(t, "setup", ret, after, arg)
  BY <1>1, <1>2 DEF Weight
<1>6. Weight(t)' = WeightOf(t, "finish", ret, after, arg)
  BY <1>2, WeightNext
<1>7. WeightOf(t, "finish", ret, after, arg) = WeightOf(t, "setup", ret, after, arg) + 0
  BY <1>3, <1>4 DEF WeightOf, Owes, Carries, Settles, Num, InDispatch, InRequest
<1>8. QED
  BY <1>5, <1>6, <1>7

\* What Yield adds to the references of its thread.
LEMMA YieldWeighs ==
  ASSUME Types, Shaped, NEW t \in Threads, Yield(t)
  PROVE  Weight(t)' = Weight(t) + 1
<1>1. PICK ret, after, cur, arg, node :
        /\ ret = th[t].ret /\ after = th[t].after /\ cur = th[t].cur
        /\ arg = th[t].arg /\ node = th[t].node
  OBVIOUS
<1>2. Pc(t) = "run" /\ Becomes(t, "t_put", after, after, Null, cur, Null)
  BY <1>1, YieldDoes
<1>3. Shape(t) /\ after \in {"finish", "get"}
  BY <1>1, Fields DEF Shaped, Types
<1>4. t # Fs
  BY <1>1, <1>2, <1>3, Constants DEF Shape, ShapeOf
<1>5. Weight(t) = WeightOf(t, "run", ret, after, arg)
  BY <1>1, <1>2 DEF Weight
<1>6. Weight(t)' = WeightOf(t, "t_put", after, after, cur)
  BY <1>2, WeightNext
<1>7. WeightOf(t, "t_put", after, after, cur) = WeightOf(t, "run", ret, after, arg) + 1
  BY <1>3, <1>4 DEF WeightOf, Owes, Carries, Settles, Num, InDispatch, InRequest
<1>8. QED
  BY <1>5, <1>6, <1>7

\* What FsRequest adds to the references of its thread.
LEMMA FsRequestWeighs ==
  ASSUME Types, Shaped, NEW t \in Threads, FsRequest(t)
  PROVE  Weight(t)' = Weight(t) + 1
<1>1. PICK ret, after, cur, arg, node :
        /\ ret = th[t].ret /\ after = th[t].after /\ cur = th[t].cur
        /\ arg = th[t].arg /\ node = th[t].node
  OBVIOUS
<1>2. Pc(t) = "run" /\ Becomes(t, "r_put", after, after, Null, cur, Null)
  BY <1>1, FsRequestDoes
<1>3. Shape(t) /\ after \in {"finish", "get"}
  BY <1>1, Fields DEF Shaped, Types
<1>4. t # Fs /\ cur # End
  BY <1>1, <1>2, <1>3, Constants DEF Shape, ShapeOf
<1>5. Weight(t) = WeightOf(t, "run", ret, after, arg)
  BY <1>1, <1>2 DEF Weight
<1>6. Weight(t)' = WeightOf(t, "r_put", after, after, cur)
  BY <1>2, WeightNext
<1>7. WeightOf(t, "r_put", after, after, cur) = WeightOf(t, "run", ret, after, arg) + 1
  BY <1>3, <1>4 DEF WeightOf, Owes, Carries, Settles, Num, InDispatch, InRequest
<1>8. QED
  BY <1>5, <1>6, <1>7

\* What FsClose adds to the references of its thread.
LEMMA FsCloseWeighs ==
  ASSUME Types, Shaped, NEW t \in Threads, FsClose(t)
  PROVE  Weight(t)' = Weight(t) + 1
<1>1. PICK ret, after, cur, arg, node :
        /\ ret = th[t].ret /\ after = th[t].after /\ cur = th[t].cur
        /\ arg = th[t].arg /\ node = th[t].node
  OBVIOUS
<1>2. Pc(t) = "run" /\ Becomes(t, "r_put", "run", after, cur, CloseOp, node)
  BY <1>1, FsCloseDoes
<1>3. Shape(t) /\ after \in {"finish", "get"}
  BY <1>1, Fields DEF Shaped, Types
<1>4. t # Fs /\ CloseOp # End
  BY <1>1, <1>2, <1>3, Constants DEF Shape, ShapeOf
<1>5. Weight(t) = WeightOf(t, "run", ret, after, arg)
  BY <1>1, <1>2 DEF Weight
<1>6. Weight(t)' = WeightOf(t, "r_put", "run", after, CloseOp)
  BY <1>2, WeightNext
<1>7. WeightOf(t, "r_put", "run", after, CloseOp) = WeightOf(t, "run", ret, after, arg) + 1
  BY <1>3, <1>4 DEF WeightOf, Owes, Carries, Settles, Num, InDispatch, InRequest
<1>8. QED
  BY <1>5, <1>6, <1>7

\* What Watch adds to the references of its thread.
LEMMA WatchWeighs ==
  ASSUME Types, Shaped, NEW t \in Threads, Watch(t)
  PROVE  Weight(t)' = Weight(t) + 0
<1>1. PICK ret, after, cur, arg, node :
        /\ ret = th[t].ret /\ after = th[t].after /\ cur = th[t].cur
        /\ arg = th[t].arg /\ node = th[t].node
  OBVIOUS
<1>2. Pc(t) = "run" /\ Becomes(t, "w_add", ret, after, cur, arg, node)
  BY <1>1, WatchDoes
<1>3. Shape(t) /\ after \in {"finish", "get"}
  BY <1>1, Fields DEF Shaped, Types
<1>4. t # Fs
  BY <1>1, <1>2, <1>3, Constants DEF Shape, ShapeOf
<1>5. Weight(t) = WeightOf(t, "run", ret, after, arg)
  BY <1>1, <1>2 DEF Weight
<1>6. Weight(t)' = WeightOf(t, "w_add", ret, after, arg)
  BY <1>2, WeightNext
<1>7. WeightOf(t, "w_add", ret, after, arg) = WeightOf(t, "run", ret, after, arg) + 0
  BY <1>3, <1>4 DEF WeightOf, Owes, Carries, Settles, Num, InDispatch, InRequest
<1>8. QED
  BY <1>5, <1>6, <1>7

\* What linuxAddFd adds to the references of its thread.
LEMMA linuxAddFdWeighs ==
  ASSUME Types, Shaped, NEW t \in Threads, linuxAddFd(t)
  PROVE  Weight(t)' = Weight(t) + 0
<1>1. PICK ret, after, cur, arg, node :
        /\ ret = th[t].ret /\ after = th[t].after /\ cur = th[t].cur
        /\ arg = th[t].arg /\ node = th[t].node
  OBVIOUS
<1>2. Pc(t) = "w_add" /\ Becomes(t, "w_ctl", after, after, Null, cur, Null)
  BY <1>1, linuxAddFdDoes
<1>3. Shape(t) /\ after \in {"finish", "get"}
  BY <1>1, Fields DEF Shaped, Types
<1>4. t # Fs
  BY <1>1, <1>2, <1>3, Constants DEF Shape, ShapeOf
<1>5. Weight(t) = WeightOf(t, "w_add", ret, after, arg)
  BY <1>1, <1>2 DEF Weight
<1>6. Weight(t)' = WeightOf(t, "w_ctl", after, after, cur)
  BY <1>2, WeightNext
<1>7. WeightOf(t, "w_ctl", after, after, cur) = WeightOf(t, "w_add", ret, after, arg) + 0
  BY <1>3, <1>4 DEF WeightOf, Owes, Carries, Settles, Num, InDispatch, InRequest
<1>8. QED
  BY <1>5, <1>6, <1>7

\* What linuxRemoveFd adds to the references of its thread.
LEMMA linuxRemoveFdWeighs ==
  ASSUME Types, Shaped, NEW t \in Threads, linuxRemoveFd(t)
  PROVE  Weight(t)' = Weight(t) + 0
<1>1. PICK ret, after, cur, arg, node :
        /\ ret = th[t].ret /\ after = th[t].after /\ cur = th[t].cur
        /\ arg = th[t].arg /\ node = th[t].node
  OBVIOUS
<1>2. Pc(t) = "w_del" /\ Becomes(t, "finish", "run", after, cur, arg, node)
  BY <1>1, linuxRemoveFdDoes
<1>3. Shape(t) /\ after \in {"finish", "get"}
  BY <1>1, Fields DEF Shaped, Types
<1>4. t # Fs /\ after = "get"
  BY <1>1, <1>2, <1>3, Constants DEF Shape, ShapeOf
<1>5. Weight(t) = WeightOf(t, "w_del", ret, after, arg)
  BY <1>1, <1>2 DEF Weight
<1>6. Weight(t)' = WeightOf(t, "finish", "run", after, arg)
  BY <1>2, WeightNext
<1>7. WeightOf(t, "finish", "run", after, arg) = WeightOf(t, "w_del", ret, after, arg) + 0
  BY <1>3, <1>4 DEF WeightOf, Owes, Carries, Settles, Num, InDispatch, InRequest
<1>8. QED
  BY <1>5, <1>6, <1>7

\* What FsClearItem adds to the references of its thread.
LEMMA FsClearItemWeighs ==
  ASSUME Types, Shaped, NEW t \in Threads, t = Fs, FsClearItem
  PROVE  Weight(t)' = Weight(t) + 0
<1>1. PICK ret, after, cur, arg, node :
        /\ ret = th[t].ret /\ after = th[t].after /\ cur = th[t].cur
        /\ arg = th[t].arg /\ node = th[t].node
  OBVIOUS
<1>2. Pc(t) = "f_clear" /\ Becomes(t, "f_get", ret, after, cur, arg, node)
  BY <1>1, FsClearItemDoes
<1>3. Shape(t) /\ after \in {"finish", "get"}
  BY <1>1, Fields DEF Shaped, Types
<1>4. t = Fs
  BY <1>1, <1>2, <1>3, Constants DEF Shape, ShapeOf
<1>5. Weight(t) = WeightOf(t, "f_clear", ret, after, arg)
  BY <1>1, <1>2 DEF Weight
<1>6. Weight(t)' = WeightOf(t, "f_get", ret, after, arg)
  BY <1>2, WeightNext
<1>7. WeightOf(t, "f_get", ret, after, arg) = WeightOf(t, "f_clear", ret, after, arg) + 0
  BY <1>3, <1>4 DEF WeightOf, Owes, Carries, Settles, Num, InDispatch, InRequest
<1>8. QED
  BY <1>5, <1>6, <1>7

\* What FsTick adds to the references of its thread.
LEMMA FsTickWeighs ==
  ASSUME Types, Shaped, NEW t \in Threads, t = Fs, FsTick
  PROVE  Weight(t)' = Weight(t) + 1
<1>1. PICK ret, after, cur, arg, node :
        /\ ret = th[t].ret /\ after = th[t].after /\ cur = th[t].cur
        /\ arg = th[t].arg /\ node = th[t].node
  OBVIOUS
<1>2. Pc(t) = "f_tick" /\ Becomes(t, "t_put", after, after, Null, cur, Null)
  BY <1>1, FsTickDoes
<1>3. Shape(t) /\ after \in {"finish", "get"}
  BY <1>1, Fields DEF Shaped, Types
<1>4. t = Fs
  BY <1>1, <1>2, <1>3, Constants DEF Shape, ShapeOf
<1>5. Weight(t) = WeightOf(t, "f_tick", ret, after, arg)
  BY <1>1, <1>2 DEF Weight
<1>6. Weight(t)' = WeightOf(t, "t_put", after, after, cur)
  BY <1>2, WeightNext
<1>7. WeightOf(t, "t_put", after, after, cur) = WeightOf(t, "f_tick", ret, after, arg) + 1
  BY <1>3, <1>4 DEF WeightOf, Owes, Carries, Settles, Num, InDispatch, InRequest
<1>8. QED
  BY <1>5, <1>6, <1>7

\* What FsInterrupted adds to the references of its thread.
LEMMA FsInterruptedWeighs ==
  ASSUME Types, Shaped, NEW t \in Threads, t = Fs, FsInterrupted
  PROVE  Weight(t)' = Weight(t) + 0
<1>1. PICK ret, after, cur, arg, node :
        /\ ret = th[t].ret /\ after = th[t].after /\ cur = th[t].cur
        /\ arg = th[t].arg /\ node = th[t].node
  OBVIOUS
<1>2. Pc(t) = "f_sleep" /\ Becomes(t, "f_clear", ret, after, cur, arg, node)
  BY <1>1, FsInterruptedDoes
<1>3. Shape(t) /\ after \in {"finish", "get"}
  BY <1>1, Fields DEF Shaped, Types
<1>4. t = Fs
  BY <1>1, <1>2, <1>3, Constants DEF Shape, ShapeOf
<1>5. Weight(t) = WeightOf(t, "f_sleep", ret, after, arg)
  BY <1>1, <1>2 DEF Weight
<1>6. Weight(t)' = WeightOf(t, "f_clear", ret, after, arg)
  BY <1>2, WeightNext
<1>7. WeightOf(t, "f_clear", ret, after, arg) = WeightOf(t, "f_sleep", ret, after, arg) + 0
  BY <1>3, <1>4 DEF WeightOf, Owes, Carries, Settles, Num, InDispatch, InRequest
<1>8. QED
  BY <1>5, <1>6, <1>7

\* What DispatchGet adds to the references of its thread.
LEMMA DispatchGetWeighs ==
  ASSUME Types, Shaped, NEW t \in Threads, DispatchGet(t)
  PROVE  Weight(t)' = Weight(t) + Num(next_tick_queue # <<>>)
<1>1. PICK ret, after, cur, arg, node :
        /\ ret = th[t].ret /\ after = th[t].after /\ cur = th[t].cur
        /\ arg = th[t].arg /\ node = th[t].node
  OBVIOUS
<1>2. /\ Pc(t) = "d_get"
      /\ \/ (next_tick_queue # <<>>) /\ Becomes(t, "d_arm", ret, after, cur, arg, node)
         \/ (next_tick_queue = <<>>) /\ Becomes(t, "d_push", ret, after, cur, arg, node)
  BY <1>1, DispatchGetDoes
<1>3. Shape(t) /\ after \in {"finish", "get"}
  BY <1>1, Fields DEF Shaped, Types
<1>4. t = Fs => after = "finish"
  BY <1>1, <1>2, <1>3, Constants DEF Shape, ShapeOf
<1>5. Weight(t) = WeightOf(t, "d_get", ret, after, arg)
  BY <1>1, <1>2 DEF Weight
<1>6. CASE (next_tick_queue # <<>>) /\ Becomes(t, "d_arm", ret, after, cur, arg, node)
  <2>1. Weight(t)' = WeightOf(t, "d_arm", ret, after, arg)
    BY <1>6, WeightNext
  <2>2. WeightOf(t, "d_arm", ret, after, arg) = WeightOf(t, "d_get", ret, after, arg) + 1
    BY <1>3, <1>4, <1>6 DEF WeightOf, Owes, Carries, Settles, Num, InDispatch, InRequest
  <2>3. QED
    BY <1>1, <1>5, <1>6, <2>1, <2>2 DEF Num
<1>7. CASE (next_tick_queue = <<>>) /\ Becomes(t, "d_push", ret, after, cur, arg, node)
  <2>1. Weight(t)' = WeightOf(t, "d_push", ret, after, arg)
    BY <1>7, WeightNext
  <2>2. WeightOf(t, "d_push", ret, after, arg) = WeightOf(t, "d_get", ret, after, arg) + 0
    BY <1>3, <1>4, <1>7 DEF WeightOf, Owes, Carries, Settles, Num, InDispatch, InRequest
  <2>3. QED
    BY <1>1, <1>5, <1>7, <2>1, <2>2 DEF Num
<1>8. QED
  BY <1>2, <1>6, <1>7

\* What WorkerGet adds to the references of its thread.
LEMMA WorkerGetWeighs ==
  ASSUME Types, Shaped, NEW t \in Threads, WorkerGet(t)
  PROVE  Weight(t)' = Weight(t) + Num(next_tick_queue # <<>>)
<1>1. PICK ret, after, cur, arg, node :
        /\ ret = th[t].ret /\ after = th[t].after /\ cur = th[t].cur
        /\ arg = th[t].arg /\ node = th[t].node
  OBVIOUS
<1>2. /\ Pc(t) = "get"
      /\ \/ (next_tick_queue # <<>>)
            /\ Becomes(t, "d_pop", "resume", after, Head(next_tick_queue), arg, node)
         \/ (next_tick_queue = <<>>) /\ Becomes(t, "poll", ret, after, cur, arg, node)
  BY <1>1, WorkerGetDoes
<1>3. Shape(t) /\ after \in {"finish", "get"}
  BY <1>1, Fields DEF Shaped, Types
<1>4. after = "finish" /\ t # Fs
  BY <1>1, <1>2, <1>3, Constants DEF Shape, ShapeOf
<1>5. Weight(t) = WeightOf(t, "get", ret, after, arg)
  BY <1>1, <1>2 DEF Weight
<1>6. CASE (next_tick_queue # <<>>) /\ Becomes(t, "d_pop", "resume", after, Head(next_tick_queue), arg, node)
  <2>1. Weight(t)' = WeightOf(t, "d_pop", "resume", after, arg)
    BY <1>6, WeightNext
  <2>2. WeightOf(t, "d_pop", "resume", after, arg) = WeightOf(t, "get", ret, after, arg) + 1
    BY <1>3, <1>4, <1>6 DEF WeightOf, Owes, Carries, Settles, Num, InDispatch, InRequest
  <2>3. QED
    BY <1>1, <1>5, <1>6, <2>1, <2>2 DEF Num
<1>7. CASE (next_tick_queue = <<>>) /\ Becomes(t, "poll", ret, after, cur, arg, node)
  <2>1. Weight(t)' = WeightOf(t, "poll", ret, after, arg)
    BY <1>7, WeightNext
  <2>2. WeightOf(t, "poll", ret, after, arg) = WeightOf(t, "get", ret, after, arg) + 0
    BY <1>3, <1>4, <1>7 DEF WeightOf, Owes, Carries, Settles, Num, InDispatch, InRequest
  <2>3. QED
    BY <1>1, <1>5, <1>7, <2>1, <2>2 DEF Num
<1>8. QED
  BY <1>2, <1>6, <1>7

\* What Resume adds to the references of its thread.
LEMMA ResumeWeighs ==
  ASSUME Types, Shaped, NEW t \in Threads, Resume(t)
  PROVE  Weight(t)' = Weight(t) + 0
<1>1. PICK ret, after, cur, arg, node :
        /\ ret = th[t].ret /\ after = th[t].after /\ cur = th[t].cur
        /\ arg = th[t].arg /\ node = th[t].node
  OBVIOUS
<1>2. /\ Pc(t) = "resume"
      /\ \/ (after = "get") /\ Becomes(t, "w_del", ret, after, cur, arg, node)
         \/ (after # "get") /\ Becomes(t, "run", ret, after, cur, arg, node)
  BY <1>1, ResumeDoes
<1>3. Shape(t) /\ after \in {"finish", "get"}
  BY <1>1, Fields DEF Shaped, Types
<1>4. t # Fs
  BY <1>1, <1>2, <1>3, Constants DEF Shape, ShapeOf
<1>5. Weight(t) = WeightOf(t, "resume", ret, after, arg)
  BY <1>1, <1>2 DEF Weight
<1>6. CASE (after = "get") /\ Becomes(t, "w_del", ret, after, cur, arg, node)
  <2>1. Weight(t)' = WeightOf(t, "w_del", ret, after, arg)
    BY <1>6, WeightNext
  <2>2. WeightOf(t, "w_del", ret, after, arg) = WeightOf(t, "resume", ret, after, arg) + 0
    BY <1>3, <1>4, <1>6 DEF WeightOf, Owes, Carries, Settles, Num, InDispatch, InRequest
  <2>3. QED
    BY <1>1, <1>5, <1>6, <2>1, <2>2 DEF Num
<1>7. CASE (after # "get") /\ Becomes(t, "run", ret, after, cur, arg, node)
  <2>1. Weight(t)' = WeightOf(t, "run", ret, after, arg)
    BY <1>7, WeightNext
  <2>2. WeightOf(t, "run", ret, after, arg) = WeightOf(t, "resume", ret, after, arg) + 0
    BY <1>3, <1>4, <1>7 DEF WeightOf, Owes, Carries, Settles, Num, InDispatch, InRequest
  <2>3. QED
    BY <1>1, <1>5, <1>7, <2>1, <2>2 DEF Num
<1>8. QED
  BY <1>2, <1>6, <1>7

\* What CoroReturns adds to the references of its thread.
LEMMA CoroReturnsWeighs ==
  ASSUME Types, Shaped, NEW t \in Threads, CoroReturns(t)
  PROVE  Weight(t)' = Weight(t) + Num(th[t].cur \in watching)
<1>1. PICK ret, after, cur, arg, node :
        /\ ret = th[t].ret /\ after = th[t].after /\ cur = th[t].cur
        /\ arg = th[t].arg /\ node = th[t].node
  OBVIOUS
<1>2. /\ Pc(t) = "run"
      /\ \/ (cur \in watching) /\ Becomes(t, "finish", after, after, Null, Null, Null)
         \/ (cur \notin watching) /\ Becomes(t, after, "none", "finish", Null, Null, Null)
  BY <1>1, CoroReturnsStep
<1>3. Shape(t) /\ after \in {"finish", "get"}
  BY <1>1, Fields DEF Shaped, Types
<1>4. t # Fs
  BY <1>1, <1>2, <1>3, Constants DEF Shape, ShapeOf
<1>5. Weight(t) = WeightOf(t, "run", ret, after, arg)
  BY <1>1, <1>2 DEF Weight
<1>6. CASE (cur \in watching) /\ Becomes(t, "finish", after, after, Null, Null, Null)
  <2>1. Weight(t)' = WeightOf(t, "finish", after, after, Null)
    BY <1>6, WeightNext
  <2>2. WeightOf(t, "finish", after, after, Null) = WeightOf(t, "run", ret, after, arg) + 1
    BY <1>3, <1>4, <1>6 DEF WeightOf, Owes, Carries, Settles, Num, InDispatch, InRequest
  <2>3. QED
    BY <1>1, <1>5, <1>6, <2>1, <2>2 DEF Num
<1>7. CASE (cur \notin watching) /\ Becomes(t, after, "none", "finish", Null, Null, Null)
  <2>1. Weight(t)' = WeightOf(t, after, "none", "finish", Null)
    BY <1>7, WeightNext
  <2>2. WeightOf(t, after, "none", "finish", Null) = WeightOf(t, "run", ret, after, arg) + 0
    BY <1>3, <1>4, <1>7 DEF WeightOf, Owes, Carries, Settles, Num, InDispatch, InRequest
  <2>3. QED
    BY <1>1, <1>5, <1>7, <2>1, <2>2 DEF Num
<1>8. QED
  BY <1>2, <1>6, <1>7

\* What FsWait adds to the references of its thread.
LEMMA FsWaitWeighs ==
  ASSUME Types, Shaped, NEW t \in Threads, t = Fs, FsWait
  PROVE  Weight(t)' = Weight(t) + 0
<1>1. PICK ret, after, cur, arg, node :
        /\ ret = th[t].ret /\ after = th[t].after /\ cur = th[t].cur
        /\ arg = th[t].arg /\ node = th[t].node
  OBVIOUS
<1>2. /\ Pc(t) = "f_wait"
      /\ \/ (fs_queue_item = 0) /\ Becomes(t, "f_sleep", ret, after, cur, arg, node)
         \/ (fs_queue_item # 0) /\ Becomes(t, "f_clear", ret, after, cur, arg, node)
  BY <1>1, FsWaitDoes
<1>3. Shape(t) /\ after \in {"finish", "get"}
  BY <1>1, Fields DEF Shaped, Types
<1>4. t = Fs
  BY <1>1, <1>2, <1>3, Constants DEF Shape, ShapeOf
<1>5. Weight(t) = WeightOf(t, "f_wait", ret, after, arg)
  BY <1>1, <1>2 DEF Weight
<1>6. CASE (fs_queue_item = 0) /\ Becomes(t, "f_sleep", ret, after, cur, arg, node)
  <2>1. Weight(t)' = WeightOf(t, "f_sleep", ret, after, arg)
    BY <1>6, WeightNext
  <2>2. WeightOf(t, "f_sleep", ret, after, arg) = WeightOf(t, "f_wait", ret, after, arg) + 0
    BY <1>3, <1>4, <1>6 DEF WeightOf, Owes, Carries, Settles, Num, InDispatch, InRequest
  <2>3. QED
    BY <1>1, <1>5, <1>6, <2>1, <2>2 DEF Num
<1>7. CASE (fs_queue_item # 0) /\ Becomes(t, "f_clear", ret, after, cur, arg, node)
  <2>1. Weight(t)' = WeightOf(t, "f_clear", ret, after, arg)
    BY <1>7, WeightNext
  <2>2. WeightOf(t, "f_clear", ret, after, arg) = WeightOf(t, "f_wait", ret, after, arg) + 0
    BY <1>3, <1>4, <1>7 DEF WeightOf, Owes, Carries, Settles, Num, InDispatch, InRequest
  <2>3. QED
    BY <1>1, <1>5, <1>7, <2>1, <2>2 DEF Num
<1>8. QED
  BY <1>2, <1>6, <1>7

\* What FsGet adds to the references of its thread.
LEMMA FsGetWeighs ==
  ASSUME Types, Shaped, NEW t \in Threads, t = Fs, FsGet
  PROVE  Weight(t)' = Weight(t) + Num(fs_queue # <<>>)
<1>1. PICK ret, after, cur, arg, node :
        /\ ret = th[t].ret /\ after = th[t].after /\ cur = th[t].cur
        /\ arg = th[t].arg /\ node = th[t].node
  OBVIOUS
<1>2. /\ Pc(t) = "f_get"
      /\ \/ (fs_queue # <<>> /\ Head(fs_queue) = End)
            /\ Becomes(t, "f_exit", ret, after, Head(fs_queue), arg, node)
         \/ (fs_queue # <<>> /\ Head(fs_queue) = CloseOp)
            /\ Becomes(t, "finish", ret, after, Head(fs_queue), arg, node)
         \/ (fs_queue # <<>> /\ Head(fs_queue) \in Coros)
            /\ Becomes(t, "f_tick", ret, after, Head(fs_queue), arg, node)
         \/ (fs_queue = <<>>) /\ Becomes(t, "f_wait", ret, after, cur, arg, node)
  BY <1>1, FsGetDoes
<1>3. Shape(t) /\ after \in {"finish", "get"}
  BY <1>1, Fields DEF Shaped, Types
<1>4. t = Fs
  BY <1>1, <1>2, <1>3, Constants DEF Shape, ShapeOf
<1>5. Weight(t) = WeightOf(t, "f_get", ret, after, arg)
  BY <1>1, <1>2 DEF Weight
<1>6. CASE (fs_queue # <<>> /\ Head(fs_queue) = End) /\ Becomes(t, "f_exit", ret, after, Head(fs_queue), arg, node)
  <2>1. Weight(t)' = WeightOf(t, "f_exit", ret, after, arg)
    BY <1>6, WeightNext
  <2>2. WeightOf(t, "f_exit", ret, after, arg) = WeightOf(t, "f_get", ret, after, arg) + 1
    BY <1>3, <1>4, <1>6 DEF WeightOf, Owes, Carries, Settles, Num, InDispatch, InRequest
  <2>3. QED
    BY <1>1, <1>5, <1>6, <2>1, <2>2 DEF Num
<1>7. CASE (fs_queue # <<>> /\ Head(fs_queue) = CloseOp) /\ Becomes(t, "finish", ret, after, Head(fs_queue), arg, node)
  <2>1. Weight(t)' = WeightOf(t, "finish", ret, after, arg)
    BY <1>7, WeightNext
  <2>2. WeightOf(t, "finish", ret, after, arg) = WeightOf(t, "f_get", ret, after, arg) + 1
    BY <1>3, <1>4, <1>7 DEF WeightOf, Owes, Carries, Settles, Num, InDispatch, InRequest
  <2>3. QED
    BY <1>1, <1>5, <1>7, <2>1, <2>2 DEF Num
<1>8. CASE (fs_queue # <<>> /\ Head(fs_queue) \in Coros) /\ Becomes(t, "f_tick", ret, after, Head(fs_queue), arg, node)
  <2>1. Weight(t)' = WeightOf(t, "f_tick", ret, after, arg)
    BY <1>8, WeightNext
  <2>2. WeightOf(t, "f_tick", ret, after, arg) = WeightOf(t, "f_get", ret, after, arg) + 1
    BY <1>3, <1>4, <1>8 DEF WeightOf, Owes, Carries, Settles, Num, InDispatch, InRequest
  <2>3. QED
    BY <1>1, <1>5, <1>8, <2>1, <2>2 DEF Num
<1>9. CASE (fs_queue = <<>>) /\ Becomes(t, "f_wait", ret, after, cur, arg, node)
  <2>1. Weight(t)' = WeightOf(t, "f_wait", ret, after, arg)
    BY <1>9, WeightNext
  <2>2. WeightOf(t, "f_wait", ret, after, arg) = WeightOf(t, "f_get", ret, after, arg) + 0
    BY <1>3, <1>4, <1>9 DEF WeightOf, Owes, Carries, Settles, Num, InDispatch, InRequest
  <2>3. QED
    BY <1>1, <1>5, <1>9, <2>1, <2>2 DEF Num
<1>10. QED
  BY <1>2, <1>6, <1>7, <1>8, <1>9

\* What Call adds to the references of its thread.
LEMMA CallWeighs ==
  ASSUME Types, Shaped, NEW t \in Threads, NEW c \in Coros, Call(t, c)
  PROVE  Weight(t)' = Weight(t) + 1
<1>1. PICK pc, ret, after, cur, arg, node :
        /\ pc = Pc(t) /\ ret = th[t].ret /\ after = th[t].after /\ cur = th[t].cur
        /\ arg = th[t].arg /\ node = th[t].node
  OBVIOUS
<1>2. pc \in {"setup", "run"} /\ Becomes(t, "t_put", pc, after, cur, c, node)
  BY <1>1, CallDoes
<1>3. Shape(t) /\ after \in {"finish", "get"}
  BY <1>1, Fields DEF Shaped, Types
<1>4. t # Fs
  BY <1>1, <1>2, <1>3, Constants DEF Shape, ShapeOf
<1>5. Weight(t) = WeightOf(t, pc, ret, after, arg)
  BY <1>1, <1>2 DEF Weight
<1>6. Weight(t)' = WeightOf(t, "t_put", pc, after, c)
  BY <1>2, WeightNext
<1>7. WeightOf(t, "t_put", pc, after, c) = WeightOf(t, pc, ret, after, arg) + 1
  BY <1>2, <1>3, <1>4 DEF WeightOf, Owes, Carries, Settles, Num, InDispatch, InRequest
<1>8. QED
  BY <1>5, <1>6, <1>7

\* What DispatchPop adds to the references of its thread.
LEMMA DispatchPopWeighs ==
  ASSUME Types, Shaped, NEW t \in Threads, DispatchPop(t)
  PROVE  Weight(t)' = Weight(t) + 0
<1>0. Weight(t) \in Int
  BY HeldAtLeast
<1>1. PICK ret, after, cur, arg :
        /\ ret = th[t].ret /\ after = th[t].after /\ cur = th[t].cur /\ arg = th[t].arg
  OBVIOUS
<1>2. /\ Pc(t) = "d_pop"
      /\ Becomes(t, "d_get", ret, after, cur, arg, Head(available)) \/ Returns(t)
  BY <1>1, DispatchPopDoes
<1>3. CASE Returns(t)
  BY <1>0, <1>2, <1>3, DispatchReturnWeight
<1>4. CASE Becomes(t, "d_get", ret, after, cur, arg, Head(available))
  <2>1. Weight(t)' = WeightOf(t, "d_get", ret, after, arg)
    BY <1>4, WeightNext
  <2>2. Weight(t) = WeightOf(t, "d_pop", ret, after, arg)
    BY <1>1, <1>2 DEF Weight
  <2>3. WeightOf(t, "d_get", ret, after, arg) = WeightOf(t, "d_pop", ret, after, arg)
    BY DEF WeightOf, Owes, Carries, Settles, Num, InDispatch, InRequest
  <2>4. QED
    BY <1>0, <2>1, <2>2, <2>3
<1>5. QED
  BY <1>2, <1>3, <1>4

\* What DispatchPush adds to the references of its thread.
LEMMA DispatchPushWeighs ==
  ASSUME Types, Shaped, NEW t \in Threads, DispatchPush(t)
  PROVE  Weight(t)' = Weight(t) + 0
<1>1. Weight(t) \in Int
  BY HeldAtLeast
<1>2. Weight(t)' = Weight(t)
  BY DispatchPushDoes, DispatchReturnWeight
<1>3. QED
  BY <1>1, <1>2

\* What CtlAddFd adds to the references of its thread.
LEMMA CtlAddFdWeighs ==
  ASSUME Types, Shaped, NEW t \in Threads, CtlAddFd(t)
  PROVE  Weight(t)' = Weight(t) + 0
<1>1. PICK ret, after, arg : ret = th[t].ret /\ after = th[t].after /\ arg = th[t].arg
  OBVIOUS
<1>2. Pc(t) = "w_ctl" /\ Returns(t)
  BY CtlAddFdDoes
<1>3. Shape(t) /\ after \in {"finish", "get"}
  BY <1>1, Fields DEF Shaped, Types
<1>4. t # Fs /\ ret = after
  BY <1>1, <1>2, <1>3, Constants DEF Shape, ShapeOf
<1>5. Weight(t) = WeightOf(t, "w_ctl", ret, after, arg)
  BY <1>1, <1>2 DEF Weight
<1>6. WeightOf(t, "w_ctl", ret, after, arg) = Num(after = "finish")
  BY <1>3, <1>4, WorkerWeight
<1>7. Weight(t)' = Num(after = "finish")
  BY <1>1, <1>2, <1>3, <1>4, ReturnWeight DEF Num
<1>8. QED
  BY <1>5, <1>6, <1>7 DEF Num

\* What WakeFs adds to the references of its thread.
LEMMA WakeFsWeighs ==
  ASSUME Types, Shaped, NEW t \in Threads, WakeFs(t)
  PROVE  Weight(t)' = Weight(t) + 0
<1>1. PICK ret, after, cur, arg, node :
        /\ ret = th[t].ret /\ after = th[t].after /\ cur = th[t].cur
        /\ arg = th[t].arg /\ node = th[t].node
  OBVIOUS
<1>2. /\ Pc(t) = "r_wake"
      /\ \/ arg = End /\ Becomes(t, "final", ret, after, cur, Null, node)
         \/ arg # End /\ Returns(t)
  BY <1>1, WakeFsStep
<1>3. Shape(t) /\ after \in {"finish", "get"} /\ arg \in Requests \cup {Null}
  BY <1>1, Fields DEF Shaped, Types
<1>4. Weight(t) = WeightOf(t, "r_wake", ret, after, arg)
  BY <1>1, <1>2 DEF Weight
<1>5. CASE arg = End /\ Becomes(t, "final", ret, after, cur, Null, node)
  <2>1. Weight(t)' = WeightOf(t, "final", ret, after, Null)
    BY <1>5, WeightNext
  <2>2. WeightOf(t, "final", ret, after, Null) = WeightOf(t, "r_wake", ret, after, arg) + 0
    BY <1>3, <1>5 DEF WeightOf, Owes, Carries, Settles, Num, InDispatch, InRequest
  <2>3. QED
    BY <1>4, <2>1, <2>2
<1>6. CASE arg # End /\ Returns(t)
  <2>1. arg \in Coros \/ arg = CloseOp
    BY <1>1, <1>2, <1>3, <1>6 DEF Shape, ShapeOf, WithArg, InRequest, Requests
  <2>2. t # Fs /\ (ret = after \/ ret = "run")
    BY <1>1, <1>2, <1>3, <2>1 DEF Shape, ShapeOf, InRequest
  <2>3. WeightOf(t, "r_wake", ret, after, arg) = Num(after = "finish")
    BY <1>3, <1>6, <2>2, WorkerWeight DEF Num
  <2>4. Weight(t)' = Num(after = "finish")
    BY <1>1, <1>3, <1>6, <2>2, ReturnWeight DEF Num
  <2>5. QED
    BY <1>4, <2>3, <2>4 DEF Num
<1>7. QED
  BY <1>2, <1>5, <1>6

\* What WriteFinal adds to the references of its thread.
LEMMA WriteFinalWeighs ==
  ASSUME Types, Shaped, NEW t \in Threads, WriteFinal(t), th[t].ret \in {"none", "get"}
  PROVE  Weight(t)' = Weight(t) + 0
<1>1. PICK ret, after, arg : ret = th[t].ret /\ after = th[t].after /\ arg = th[t].arg
  OBVIOUS
<1>2. Pc(t) = "final" /\ Returns(t)
  BY WriteFinalDoes
<1>3. Shape(t) /\ after \in {"finish", "get"}
  BY <1>1, Fields DEF Shaped, Types
<1>4. Weight(t) = 0
  <2>1. Weight(t) = WeightOf(t, "final", ret, after, arg)
    BY <1>1, <1>2 DEF Weight
  <2>2. QED
    BY <1>3, <2>1, WorkerWeight, FsWeight
<1>5. th[t].ret = "get" => t # Fs
  BY <1>2, <1>3, Constants DEF Shape, ShapeOf
<1>6. Weight(t)' = 0
  BY <1>2, <1>5, ReturnWeight
<1>7. QED
  BY <1>4, <1>6

\* What Finish adds to the references of its thread.
LEMMA FinishWeighs ==
  ASSUME Types, Shaped, NEW t \in Threads, Finish(t), pending_event_count >= Weight(t)
  PROVE  Weight(t)' = Weight(t) - 1
<1>1. PICK ret, after, cur, arg, node :
        /\ ret = th[t].ret /\ after = th[t].after /\ cur = th[t].cur
        /\ arg = th[t].arg /\ node = th[t].node
  OBVIOUS
<1>2. Pc(t) = "finish" /\ Shape(t) /\ after \in {"finish", "get"}
  BY <1>1, Fields, FinishStep DEF Shaped, Types
<1>3. Weight(t) = WeightOf(t, "finish", ret, after, arg)
  BY <1>1, <1>2 DEF Weight
<1>4. \/ ret = "none" /\ after = "finish"
      \/ ret = after /\ t # Fs
      \/ ret = "run" /\ after = "get" /\ t # Fs
  BY <1>1, <1>2 DEF Shape, ShapeOf
<1>5. \/ ret = "none" /\ WeightOf(t, "finish", ret, after, arg) = 1
      \/ ret = "finish" /\ t # Fs /\ WeightOf(t, "finish", ret, after, arg) = 2
      \/ ret \in {"get", "run"} /\ after = "get" /\ t # Fs /\ WeightOf(t, "finish", ret, after, arg) = 1
  BY <1>2, <1>4 DEF WeightOf, Owes, Carries, Settles, Num, InDispatch, InRequest
<1>6. CASE Returns(t)
  <2>0. /\ th[t].ret = "none" => Weight(t)' = 0
        /\ th[t].ret = "finish" => Weight(t)' = 1
        /\ th[t].ret = "get" /\ t # Fs => Weight(t)' = 0
        /\ th[t].ret = "run" /\ t # Fs => Weight(t)' = Num(th[t].after = "finish")
    BY <1>6, ReturnWeight
  <2>1. CASE ret = "none"
    BY <1>1, <1>3, <1>5, <2>0, <2>1
  <2>2. CASE ret = "finish" /\ t # Fs
    BY <1>1, <1>3, <1>5, <2>0, <2>2
  <2>3. CASE ret \in {"get", "run"} /\ after = "get" /\ t # Fs
    <3>1. Weight(t)' = 0
      BY <1>1, <2>0, <2>3 DEF Num
    <3>2. QED
      BY <1>3, <1>5, <2>3, <3>1
  <2>4. QED
    BY <1>5, <2>1, <2>2, <2>3
<1>7. CASE /\ ~(pending_event_count > 1) /\ ret = "none"
           /\ Becomes(t, "e_begin", "none", "finish", Null, Null, Null)
  <2>1. Weight(t)' = WeightOf(t, "e_begin", "none", "finish", Null)
    BY <1>7, WeightNext
  <2>2. WeightOf(t, "e_begin", "none", "finish", Null) = 0
    BY WorkerWeight, FsWeight
  <2>3. QED
    BY <1>3, <1>5, <1>7, <2>1, <2>2
<1>8. CASE /\ ~(pending_event_count > 1) /\ ret # "none"
           /\ Becomes(t, "e_begin", ret, after, cur, arg, node)
  <2>1. Weight(t)' = WeightOf(t, "e_begin", ret, after, arg)
    BY <1>8, WeightNext
  <2>2. WeightOf(t, "e_begin", ret, after, arg) = 0
    BY <1>2, WorkerWeight, FsWeight
  <2>3. pending_event_count \in Int
    BY DEF Types
  <2>4. Weight(t) = 1
    BY <1>3, <1>5, <1>8, <2>3
  <2>5. QED
    BY <2>1, <2>2, <2>4
<1>9. QED
  BY <1>1, <1>6, <1>7, <1>8, FinishStep

\* The ways in which a step keeps the count exact.
LEMMA Balanced ==
  ASSUME Types, Types', Exact, NEW t \in Threads, Others(t)
  PROVE  /\ pending_event_count' = pending_event_count /\ Rest' = Rest + 0 /\ Weight(t)' = Weight(t) + 0 => Exact'
         /\ pending_event_count' = pending_event_count + 1 /\ Rest' = Rest + 0 /\ Weight(t)' = Weight(t) + 1 => Exact'
         /\ pending_event_count' = pending_event_count - 1 /\ Rest' = Rest + 0 /\ Weight(t)' = Weight(t) - 1 => Exact'
         /\ pending_event_count' = pending_event_count /\ Rest' = Rest + 1 /\ Weight(t)' = Weight(t) - 1 => Exact'
         /\ pending_event_count' = pending_event_count /\ Rest' = Rest - 1 /\ Weight(t)' = Weight(t) + 1 => Exact'
         /\ pending_event_count' = pending_event_count + 1 /\ Rest' = Rest + 1 /\ Weight(t)' = Weight(t) + 0 => Exact'
<1>1. PICK zero \in Int, one \in Int, less \in Int : zero = 0 /\ one = 1 /\ less = 0 - 1
  OBVIOUS
<1>2. pending_event_count \in Int /\ Rest \in Int /\ Weight(t) \in Int
  BY SetsFinite, HeldAtLeast DEF Types
<1>3. ASSUME pending_event_count' = pending_event_count, Rest' = Rest + 0,
             Weight(t)' = Weight(t) + 0
      PROVE  Exact'
  <2>1. /\ pending_event_count' = pending_event_count + zero /\ Rest' = Rest + zero
        /\ Weight(t)' = Weight(t) + zero - zero
    BY <1>1, <1>2, <1>3
  <2>2. QED
    BY <2>1, Balance
<1>4. ASSUME pending_event_count' = pending_event_count + 1, Rest' = Rest + 0,
             Weight(t)' = Weight(t) + 1
      PROVE  Exact'
  <2>1. /\ pending_event_count' = pending_event_count + one /\ Rest' = Rest + zero
        /\ Weight(t)' = Weight(t) + one - zero
    BY <1>1, <1>2, <1>4
  <2>2. QED
    BY <2>1, Balance
<1>5. ASSUME pending_event_count' = pending_event_count - 1, Rest' = Rest + 0,
             Weight(t)' = Weight(t) - 1
      PROVE  Exact'
  <2>1. /\ pending_event_count' = pending_event_count + less /\ Rest' = Rest + zero
        /\ Weight(t)' = Weight(t) + less - zero
    BY <1>1, <1>2, <1>5
  <2>2. QED
    BY <2>1, Balance
<1>6. ASSUME pending_event_count' = pending_event_count, Rest' = Rest + 1,
             Weight(t)' = Weight(t) - 1
      PROVE  Exact'
  <2>1. /\ pending_event_count' = pending_event_count + zero /\ Rest' = Rest + one
        /\ Weight(t)' = Weight(t) + zero - one
    BY <1>1, <1>2, <1>6
  <2>2. QED
    BY <2>1, Balance
<1>7. ASSUME pending_event_count' = pending_event_count, Rest' = Rest - 1,
             Weight(t)' = Weight(t) + 1
      PROVE  Exact'
  <2>1. /\ pending_event_count' = pending_event_count + zero /\ Rest' = Rest + less
        /\ Weight(t)' = Weight(t) + zero - less
    BY <1>1, <1>2, <1>7
  <2>2. QED
    BY <2>1, Balance
<1>8. ASSUME pending_event_count' = pending_event_count + 1, Rest' = Rest + 1,
             Weight(t)' = Weight(t) + 0
      PROVE  Exact'
  <2>1. /\ pending_event_count' = pending_event_count + one /\ Rest' = Rest + one
        /\ Weight(t)' = Weight(t) + one - one
    BY <1>1, <1>2, <1>8
  <2>2. QED
    BY <2>1, Balance
<1>9. QED
  BY <1>3, <1>4, <1>5, <1>6, <1>7, <1>8

\* What a thread has in hand does not wait for a descriptor.
LEMMA CurNotPolling ==
  ASSUME Types, Where, NEW t \in Threads, NEW c \in Coros, th[t].cur = c
  PROVE  coro[c] # "polling" /\ CurOk(t, c)
<1>1. CurSpot(t) \in Spots /\ At(CurSpot(t), c)
  BY SpotKinds, ThreadAt
<1>2. Ok(CurSpot(t), c)
  BY <1>1 DEF Where, Status
<1>3. CurOk(t, c)
  BY <1>2, OkKinds
<1>4. QED
  BY <1>3 DEF CurOk, CurStatus

\* A queue without repetitions has as many elements as positions.
LEMMA DistinctRange ==
  ASSUME NEW S, NEW q \in Seq(S), Distinct(q), NEW m \in Nat, m = Len(q)
  PROVE  Cardinality({q[i] : i \in 1..m}) = m /\ IsFiniteSet({q[i] : i \in 1..m})
<1> DEFINE R == {q[i] : i \in 1..m}
           f == [i \in 1..m |-> q[i]]
<1>1. IsFiniteSet(1..m) /\ Cardinality(1..m) = m
  <2>1. PICK a \in Int, b \in Int : a = 1 /\ b = m
    OBVIOUS
  <2>2. IsFiniteSet(a..b) /\ Cardinality(a..b) = IF a > b THEN 0 ELSE b - a + 1
    BY FS_Interval
  <2>3. QED
    BY <2>1, <2>2
<1>2. f \in Bijection(1..m, R)
  <2>1. f \in Injection(1..m, R)
    <3>1. f \in [1..m -> R]
      OBVIOUS
    <3>2. \A i, j \in 1..m : f[i] = f[j] => i = j
      BY DEF Distinct
    <3>3. QED
      BY <3>1, <3>2 DEF Injection, IsInjective
  <2>2. f \in Surjection(1..m, R)
    <3>1. f \in [1..m -> R] /\ \A x \in R : \E i \in 1..m : f[i] = x
      OBVIOUS
    <3>2. QED
      BY <3>1 DEF Surjection
  <2>3. QED
    BY <2>1, <2>2 DEF Bijection
<1>3. PICK T, g, I : T = R /\ g = f /\ I = 1..m
  OBVIOUS
<1>4. g \in Bijection(I, T)
  BY <1>2, <1>3
<1>5. ExistsBijection(I, T)
  BY <1>4 DEF ExistsBijection
<1> HIDE DEF R, f
<1>6. IsFiniteSet(T) /\ Cardinality(T) = Cardinality(I)
  BY <1>1, <1>3, <1>5, FS_Bijection
<1>7. QED
  BY <1>1, <1>3, <1>6 DEF R

\* A step changes what it adds to the count by as much as it adds to what is counted.
LEMMA ExactStep ==
  ASSUME Base, Types', Located, Exact, Ends, NEW t \in Threads, Others(t), StepOf(t)
  PROVE  Exact'
<1>0. Types /\ Shaped /\ Shape(t) /\ NodesOnce /\ Where /\ th \in [Threads -> ThRec]
  BY DEF Base, Shaped, Types, Nodes, Located, Where
<1>a. UNCHANGED <<next_tick_queue, lost, armed, fs_queue, watching, coro>> => Rest' = Rest + 0
  BY <1>0, RestSame
<1>b. UNCHANGED <<next_tick_queue, lost, armed, fs_queue, watching>> /\ Polling' = Polling => Rest' = Rest + 0
  BY <1>0, RestCoro
<1>c. UNCHANGED coro => Polling' = Polling
  BY DEF Polling
<1>d. next_tick_queue # <<>> => Len(Tail(next_tick_queue)) = Len(next_tick_queue) - 1
  BY <1>0, TailType DEF Types
<1>e. /\ Len(next_tick_queue) \in Int /\ Len(fs_queue) \in Int /\ Cardinality(lost) \in Int
      /\ Cardinality(armed) \in Int /\ Cardinality(watching) \in Int
      /\ Cardinality(Polling) \in Int
  BY <1>0, SetsFinite
<1>f. Rest \in Int /\ Weight(t) \in Int
  BY <1>0, SetsFinite, HeldAtLeast
<1>g. /\ IsFiniteSet(lost) /\ IsFiniteSet(armed) /\ IsFiniteSet(watching) /\ IsFiniteSet(Polling)
  BY <1>0, SetsFinite
<1>h. PICK zero \in Int, one \in Int, less \in Int : zero = 0 /\ one = 1 /\ less = 0 - 1
  OBVIOUS
<1>1. CASE DispatchPop(t)
  <2>1. Weight(t)' = Weight(t) + 0
    BY <1>0, <1>1, DispatchPopWeighs
  <2>2. pending_event_count' = pending_event_count
    BY <1>1 DEF DispatchPop, tickq, nodes, fsq, cos, watch
  <2>3. Rest' = Rest + 0
    <3>1. UNCHANGED <<next_tick_queue, lost, armed, fs_queue, watching, coro>>
      BY <1>1 DEF DispatchPop, tickq, nodes, fsq, cos, watch
    <3>2. QED
      BY <1>a, <3>1
  <2>4. QED
    BY <1>0, <2>1, <2>2, <2>3, Balanced
<1>2. CASE DispatchGet(t)
  <2>1. Weight(t)' = Weight(t) + Num(next_tick_queue # <<>>)
    BY <1>0, <1>2, DispatchGetWeighs
  <2>2. pending_event_count' = pending_event_count
    BY <1>2 DEF DispatchGet, TickGet, tickq, nodes, fsq, cos, watch
  <2>3. UNCHANGED <<lost, armed, fs_queue, watching, coro>>
    BY <1>2 DEF DispatchGet, TickGet, tickq, nodes, fsq, cos, watch
  <2>4. CASE next_tick_queue = <<>>
    <3>1. next_tick_queue' = next_tick_queue
      BY <1>2, <2>4 DEF DispatchGet, TickGet, tickq, nodes, fsq, cos, watch
    <3>2. Rest' = Rest + 0 /\ Weight(t)' = Weight(t) + 0
      BY <1>a, <2>1, <2>3, <2>4, <3>1 DEF Num
    <3>3. QED
      BY <1>0, <2>2, <3>2, Balanced
  <2>5. CASE next_tick_queue # <<>>
    <3>1. next_tick_queue' = Tail(next_tick_queue)
      BY <1>2, <2>5 DEF DispatchGet, TickGet, tickq, nodes, fsq, cos, watch
    <3>2. Len(next_tick_queue') = Len(next_tick_queue) + less
          /\ Cardinality(lost') = Cardinality(lost) + zero
      BY <1>d, <1>e, <1>h, <2>3, <2>5, <3>1
    <3>3. Rest' = Rest + (less + zero)
      BY <1>0, <1>c, <2>3, <3>2, RestQueues
    <3>4. Rest' = Rest - 1 /\ Weight(t)' = Weight(t) + 1
      BY <1>f, <1>h, <2>1, <2>5, <3>3 DEF Num
    <3>5. QED
      BY <1>0, <2>2, <3>4, Balanced
  <2>6. QED
    BY <2>4, <2>5
<1>3. CASE DispatchArm(t)
  <2>1. Weight(t)' = Weight(t) - 1
    BY <1>0, <1>3, DispatchArmWeighs
  <2>2. pending_event_count' = pending_event_count
    BY <1>3 DEF DispatchArm, tickq, nodes, fsq, cos, watch
  <2>3. Rest' = Rest + 1
    <3>1. PICK n \in EventfdNodes : n = th[t].node /\ Pc(t) = "d_arm"
      BY <1>0, <1>3 DEF DispatchArm, Shape, ShapeOf, WithNode
    <3>2. n \notin armed
      BY <1>0, <3>1 DEF NodesOnce
    <3>3. armed' = armed \cup {n} /\ UNCHANGED <<next_tick_queue, lost, fs_queue, watching, coro>>
      BY <1>3, <3>1 DEF DispatchArm, tickq, nodes, fsq, cos, watch
    <3>4. Cardinality(armed') = Cardinality(armed) + 1
      BY <1>g, <3>2, <3>3, FS_AddElement
    <3>5. /\ Cardinality(armed') = Cardinality(armed) + one
          /\ Len(fs_queue') = Len(fs_queue) + zero
          /\ Cardinality(watching') = Cardinality(watching) + zero
          /\ Cardinality(Polling') = Cardinality(Polling) + zero
      BY <1>c, <1>e, <1>h, <3>3, <3>4
    <3>6. Rest' = Rest + (one + zero + zero + zero)
      BY <1>0, <3>3, <3>5, RestOther
    <3>7. QED
      BY <1>f, <1>h, <3>6
  <2>4. QED
    BY <1>0, <2>1, <2>2, <2>3, Balanced
<1>4. CASE DispatchArmFails(t)
  <2>1. Weight(t)' = Weight(t) - 1
    BY <1>0, <1>4, DispatchArmFailsWeighs
  <2>2. pending_event_count' = pending_event_count
    BY <1>4 DEF DispatchArmFails, TickUnget, tickq, nodes, fsq, cos, watch
  <2>3. Rest' = Rest + 1
    <3>1. UNCHANGED <<armed, fs_queue, watching, coro>>
      BY <1>4 DEF DispatchArmFails, TickUnget, tickq, nodes, fsq, cos, watch
    <3>2. PICK m \in Nat : m = Len(next_tick_queue)
      BY <1>0 DEF Types
    <3>3. lost' = lost \cup {next_tick_queue[i] : i \in 1..m}
          /\ next_tick_queue' = <<handle[th[t].node]>>
      BY <1>4, <3>2 DEF DispatchArmFails, TickUnget
    <3>4. Cardinality({next_tick_queue[i] : i \in 1..m}) = m
          /\ IsFiniteSet({next_tick_queue[i] : i \in 1..m})
      <4>1. PICK q \in Seq(Coros) : q = next_tick_queue
        BY <1>0 DEF Types
      <4>2. Distinct(q) /\ m = Len(q)
        BY <3>2, <4>1 DEF Located, QueuesDistinct
      <4>3. QED
        BY <4>1, <4>2, DistinctRange
    <3>5. lost \cap {next_tick_queue[i] : i \in 1..m} = {}
      <4>1. SUFFICES ASSUME NEW i \in 1..m, next_tick_queue[i] \in lost PROVE FALSE
        OBVIOUS
      <4>2. PICK c0 \in Coros : c0 = next_tick_queue[i]
        <5>1. next_tick_queue \in Seq(Coros) /\ i \in 1..Len(next_tick_queue)
          BY <1>0, <3>2 DEF Types
        <5>2. QED
          BY <5>1
      <4>3. /\ At(LostSpot, c0) /\ At(QueueSpot, c0) /\ QueueSpot \in Spots /\ LostSpot \in Spots
            /\ QueueSpot # LostSpot
        <5>1. InQueue(next_tick_queue, c0)
          BY <3>2, <4>2 DEF InQueue
        <5>2. QED
          BY <4>1, <4>2, <5>1, AtKinds, SpotKinds, SpotsDiffer
      <4>4. QED
        BY <1>0, <4>3 DEF Where, AtMostOne
    <3>6. Cardinality(lost') = Cardinality(lost) + m
      <4>1. PICK r : r = {next_tick_queue[i] : i \in 1..m}
        OBVIOUS
      <4>2. IsFiniteSet(r) /\ Cardinality(r) = m /\ lost \cap r = {} /\ lost' = lost \cup r
        BY <3>3, <3>4, <3>5, <4>1
      <4>3. Cardinality(lost \cup r) = Cardinality(lost) + Cardinality(r) - Cardinality(lost \cap r)
        BY <1>g, <4>2, FS_Union
      <4>4. Cardinality(lost \cap r) = 0
        BY <4>2, FS_EmptySet
      <4>5. QED
        BY <1>e, <4>2, <4>3, <4>4
    <3>7. Len(next_tick_queue') = 1
      BY <3>3
    <3>8. PICK d \in Int : d = 1 - m
      OBVIOUS
    <3>9. Len(next_tick_queue') = Len(next_tick_queue) + d
      BY <3>2, <3>7, <3>8
    <3>10. Rest' = Rest + (d + m)
      BY <1>0, <1>c, <3>1, <3>6, <3>9, RestQueues
    <3>11. QED
      BY <1>f, <3>8, <3>10
  <2>4. QED
    BY <1>0, <2>1, <2>2, <2>3, Balanced
<1>5. CASE DispatchPush(t)
  <2>1. Weight(t)' = Weight(t) + 0
    BY <1>0, <1>5, DispatchPushWeighs
  <2>2. pending_event_count' = pending_event_count
    BY <1>5 DEF DispatchPush, tickq, nodes, fsq, cos, watch
  <2>3. Rest' = Rest + 0
    <3>1. UNCHANGED <<next_tick_queue, lost, armed, fs_queue, watching, coro>>
      BY <1>5 DEF DispatchPush, tickq, nodes, fsq, cos, watch
    <3>2. QED
      BY <1>a, <3>1
  <2>4. QED
    BY <1>0, <2>1, <2>2, <2>3, Balanced
<1>6. CASE PutTick(t)
  <2>1. Weight(t)' = Weight(t) - 1
    BY <1>0, <1>6, PutTickWeighs
  <2>2. pending_event_count' = pending_event_count
    BY <1>6 DEF PutTick, TickPut, tickq, nodes, fsq, cos, watch
  <2>3. Rest' = Rest + 1
    <3>1. PICK c0 \in Coros : c0 = th[t].arg /\ Pc(t) = "t_put"
      BY <1>0, <1>6 DEF PutTick, Shape, ShapeOf
    <3>2. UNCHANGED <<armed, fs_queue, watching, coro>>
      BY <1>6 DEF PutTick, TickPut, tickq, nodes, fsq, cos, watch
    <3>3. CASE shadowed
      <4>1. next_tick_queue' = next_tick_queue /\ lost' = lost \cup {c0}
        BY <1>6, <3>1, <3>3 DEF PutTick, TickPut
      <4>2. c0 \notin lost
        <5>1. /\ At(ArgSpot(t), c0) /\ ArgSpot(t) \in Spots /\ LostSpot \in Spots
              /\ ArgSpot(t) # LostSpot
          BY <3>1, ThreadAt, SpotKinds, SpotsDiffer DEF Passing, Pc
        <5>2. ~At(LostSpot, c0)
          BY <1>0, <5>1 DEF Where, AtMostOne
        <5>3. QED
          BY <5>2, AtKinds
      <4>3. Cardinality(lost') = Cardinality(lost) + 1
        BY <1>g, <4>1, <4>2, FS_AddElement
      <4>4. Len(next_tick_queue') = Len(next_tick_queue) + zero
            /\ Cardinality(lost') = Cardinality(lost) + one
        BY <1>e, <1>h, <4>1, <4>3
      <4>5. Rest' = Rest + (zero + one)
        BY <1>0, <1>c, <3>2, <4>4, RestQueues
      <4>6. QED
        BY <1>f, <1>h, <4>5
    <3>4. CASE ~shadowed
      <4>1. next_tick_queue' = Append(next_tick_queue, c0) /\ lost' = lost
        BY <1>6, <3>1, <3>4 DEF PutTick, TickPut
      <4>2. Len(next_tick_queue') = Len(next_tick_queue) + 1
        BY <1>0, <4>1 DEF Types
      <4>3. Len(next_tick_queue') = Len(next_tick_queue) + one
            /\ Cardinality(lost') = Cardinality(lost) + zero
        BY <1>e, <1>h, <4>1, <4>2
      <4>4. Rest' = Rest + (one + zero)
        BY <1>0, <1>c, <3>2, <4>3, RestQueues
      <4>5. QED
        BY <1>f, <1>h, <4>4
    <3>5. QED
      BY <3>3, <3>4
  <2>4. QED
    BY <1>0, <2>1, <2>2, <2>3, Balanced
<1>7. CASE PutRequest(t)
  <2>1. Weight(t)' = Weight(t) - 1
    BY <1>0, <1>7, PutRequestWeighs
  <2>2. pending_event_count' = pending_event_count
    BY <1>7 DEF PutRequest, tickq, nodes, fsq, cos, watch
  <2>3. Rest' = Rest + 1
    <3>3. fs_queue' = Append(fs_queue, th[t].arg)
          /\ UNCHANGED <<next_tick_queue, lost, armed, watching, coro>>
      BY <1>7 DEF PutRequest, tickq, nodes, fsq, cos, watch
    <3>4. Len(fs_queue') = Len(fs_queue) + 1
      BY <1>0, <3>3 DEF Types
    <3>5. /\ Cardinality(armed') = Cardinality(armed) + zero
          /\ Len(fs_queue') = Len(fs_queue) + one
          /\ Cardinality(watching') = Cardinality(watching) + zero
          /\ Cardinality(Polling') = Cardinality(Polling) + zero
      BY <1>c, <1>e, <1>h, <3>3, <3>4
    <3>6. Rest' = Rest + (zero + one + zero + zero)
      BY <1>0, <3>3, <3>5, RestOther
    <3>7. QED
      BY <1>f, <1>h, <3>6
  <2>4. QED
    BY <1>0, <2>1, <2>2, <2>3, Balanced
<1>8. CASE SetItem(t)
  <2>1. Weight(t)' = Weight(t) + 0
    BY <1>0, <1>8, SetItemWeighs
  <2>2. pending_event_count' = pending_event_count
    BY <1>8 DEF SetItem, tickq, nodes, fsq, cos, watch
  <2>3. Rest' = Rest + 0
    <3>1. UNCHANGED <<next_tick_queue, lost, armed, fs_queue, watching, coro>>
      BY <1>8 DEF SetItem, tickq, nodes, fsq, cos, watch
    <3>2. QED
      BY <1>a, <3>1
  <2>4. QED
    BY <1>0, <2>1, <2>2, <2>3, Balanced
<1>9. CASE WakeFs(t)
  <2>1. Weight(t)' = Weight(t) + 0
    BY <1>0, <1>9, WakeFsWeighs
  <2>2. pending_event_count' = pending_event_count
    BY <1>9 DEF WakeFs, tickq, nodes, fsq, cos, watch
  <2>3. Rest' = Rest + 0
    <3>1. UNCHANGED <<next_tick_queue, lost, armed, fs_queue, watching, coro>>
      BY <1>9 DEF WakeFs, tickq, nodes, fsq, cos, watch
    <3>2. QED
      BY <1>a, <3>1
  <2>4. QED
    BY <1>0, <2>1, <2>2, <2>3, Balanced
<1>10. CASE Finish(t)
  <2>1. Weight(t)' = Weight(t) - 1
    <3>1. pending_event_count = Rest + Held
      BY <1>0, ExactIs
    <3>2. Rest \in Nat /\ Held >= Weight(t) /\ Held \in Int /\ Weight(t) \in Int
      BY <1>0, SetsFinite, HeldAtLeast
    <3>3. pending_event_count >= Weight(t)
      BY <3>1, <3>2
    <3>4. QED
      BY <1>0, <1>10, <3>3, FinishWeighs
  <2>2. pending_event_count' = pending_event_count - 1
    BY <1>10 DEF Finish, tickq, nodes, fsq, cos, watch
  <2>3. Rest' = Rest + 0
    <3>1. UNCHANGED <<next_tick_queue, lost, armed, fs_queue, watching, coro>>
      BY <1>10 DEF Finish, tickq, nodes, fsq, cos, watch
    <3>2. QED
      BY <1>a, <3>1
  <2>4. QED
    BY <1>0, <2>1, <2>2, <2>3, Balanced
<1>11. CASE RequestEnd(t)
  <2>1. Weight(t)' = Weight(t) + 1
    BY <1>0, <1>11, RequestEndWeighs
  <2>2. pending_event_count' = pending_event_count + 1
    BY <1>11 DEF RequestEnd, BeginRequest, beginOneEvent, tickq, nodes, fsq, cos, watch
  <2>3. Rest' = Rest + 0
    <3>1. UNCHANGED <<next_tick_queue, lost, armed, fs_queue, watching, coro>>
      BY <1>11 DEF RequestEnd, BeginRequest, beginOneEvent, tickq, nodes, fsq, cos, watch
    <3>2. QED
      BY <1>a, <3>1
  <2>4. QED
    BY <1>0, <2>1, <2>2, <2>3, Balanced
<1>12. CASE WriteFinal(t)
  <2>1. Weight(t)' = Weight(t) + 0
    <3>1. th[t].ret \in {"none", "get"}
      BY <1>12 DEF WriteFinal, Ends, Ending
    <3>2. QED
      BY <1>0, <1>12, <3>1, WriteFinalWeighs
  <2>2. pending_event_count' = pending_event_count
    BY <1>12 DEF WriteFinal, tickq, nodes, fsq, cos, watch
  <2>3. Rest' = Rest + 0
    <3>1. UNCHANGED <<next_tick_queue, lost, armed, fs_queue, watching, coro>>
      BY <1>12 DEF WriteFinal, tickq, nodes, fsq, cos, watch
    <3>2. QED
      BY <1>a, <3>1
  <2>4. QED
    BY <1>0, <2>1, <2>2, <2>3, Balanced
<1>13. CASE WorkerGet(t)
  <2>1. Weight(t)' = Weight(t) + Num(next_tick_queue # <<>>)
    BY <1>0, <1>13, WorkerGetWeighs
  <2>2. pending_event_count' = pending_event_count
    BY <1>13 DEF WorkerGet, TickGet, tickq, nodes, fsq, cos, watch
  <2>3. UNCHANGED <<lost, armed, fs_queue, watching, coro>>
    BY <1>13 DEF WorkerGet, TickGet, tickq, nodes, fsq, cos, watch
  <2>4. CASE next_tick_queue = <<>>
    <3>1. next_tick_queue' = next_tick_queue
      BY <1>13, <2>4 DEF WorkerGet, TickGet, tickq, nodes, fsq, cos, watch
    <3>2. Rest' = Rest + 0 /\ Weight(t)' = Weight(t) + 0
      BY <1>a, <2>1, <2>3, <2>4, <3>1 DEF Num
    <3>3. QED
      BY <1>0, <2>2, <3>2, Balanced
  <2>5. CASE next_tick_queue # <<>>
    <3>1. next_tick_queue' = Tail(next_tick_queue)
      BY <1>13, <2>5 DEF WorkerGet, TickGet, tickq, nodes, fsq, cos, watch
    <3>2. Len(next_tick_queue') = Len(next_tick_queue) + less
          /\ Cardinality(lost') = Cardinality(lost) + zero
      BY <1>d, <1>e, <1>h, <2>3, <2>5, <3>1
    <3>3. Rest' = Rest + (less + zero)
      BY <1>0, <1>c, <2>3, <3>2, RestQueues
    <3>4. Rest' = Rest - 1 /\ Weight(t)' = Weight(t) + 1
      BY <1>f, <1>h, <2>1, <2>5, <3>3 DEF Num
    <3>5. QED
      BY <1>0, <2>2, <3>4, Balanced
  <2>6. QED
    BY <2>4, <2>5
<1>14. ASSUME NEW n \in EventfdNodes, PollEventFd(t, n) PROVE Exact'
  <2>1. Weight(t)' = Weight(t) + 1
    <3>1. n \in armed /\ handle[n] \in Coros
      BY <1>0, <1>14 DEF PollEventFd, NodesOnce
    <3>2. QED
      BY <1>0, <1>14, <3>1, PollEventFdWeighs
  <2>2. pending_event_count' = pending_event_count
    BY <1>14 DEF PollEventFd, tickq, nodes, fsq, cos, watch
  <2>3. Rest' = Rest - 1
    <3>3. n \in armed /\ armed' = armed \ {n}
          /\ UNCHANGED <<next_tick_queue, lost, fs_queue, watching, coro>>
      BY <1>14 DEF PollEventFd, tickq, nodes, fsq, cos, watch
    <3>4. Cardinality(armed') = Cardinality(armed) - 1
      BY <1>g, <3>3, FS_RemoveElement
    <3>5. /\ Cardinality(armed') = Cardinality(armed) + less
          /\ Len(fs_queue') = Len(fs_queue) + zero
          /\ Cardinality(watching') = Cardinality(watching) + zero
          /\ Cardinality(Polling') = Cardinality(Polling) + zero
      BY <1>c, <1>e, <1>h, <3>3, <3>4
    <3>6. Rest' = Rest + (less + zero + zero + zero)
      BY <1>0, <3>3, <3>5, RestOther
    <3>7. QED
      BY <1>f, <1>h, <3>6
  <2>4. QED
    BY <1>0, <2>1, <2>2, <2>3, Balanced
<1>15. CASE PollPush(t)
  <2>1. Weight(t)' = Weight(t) + 0
    BY <1>0, <1>15, PollPushWeighs
  <2>2. pending_event_count' = pending_event_count
    BY <1>15 DEF PollPush, tickq, nodes, fsq, cos, watch
  <2>3. Rest' = Rest + 0
    <3>1. UNCHANGED <<next_tick_queue, lost, armed, fs_queue, watching, coro>>
      BY <1>15 DEF PollPush, tickq, nodes, fsq, cos, watch
    <3>2. QED
      BY <1>a, <3>1
  <2>4. QED
    BY <1>0, <2>1, <2>2, <2>3, Balanced
<1>16. CASE PollStop(t)
  <2>1. Weight(t)' = Weight(t) + 0
    BY <1>0, <1>16, PollStopWeighs
  <2>2. pending_event_count' = pending_event_count
    BY <1>16 DEF PollStop, tickq, nodes, fsq, cos, watch
  <2>3. Rest' = Rest + 0
    <3>1. UNCHANGED <<next_tick_queue, lost, armed, fs_queue, watching, coro>>
      BY <1>16 DEF PollStop, tickq, nodes, fsq, cos, watch
    <3>2. QED
      BY <1>a, <3>1
  <2>4. QED
    BY <1>0, <2>1, <2>2, <2>3, Balanced
<1>17. ASSUME NEW c \in Coros, PollFd(t, c) PROVE Exact'
  <2>1. Weight(t)' = Weight(t) + 1
    BY <1>0, <1>17, PollFdWeighs
  <2>2. pending_event_count' = pending_event_count
    BY <1>17 DEF PollFd, tickq, nodes, fsq, cos, watch
  <2>3. Rest' = Rest - 1
    <3>1. PICK c0 \in Coros : c0 = c /\ coro[c0] = "polling"
      <4>1. EdgeSpot \in Spots /\ At(EdgeSpot, c)
        BY <1>17, SpotKinds, AtKinds DEF PollFd
      <4>2. Ok(EdgeSpot, c)
        BY <1>0, <1>17, <4>1 DEF Where, Status
      <4>3. QED
        BY <1>17, <4>2, OkKinds
    <3>2. coro' = [coro EXCEPT ![c0] = "ticked"]
      BY <1>17, <3>1 DEF PollFd
    <3>3. UNCHANGED <<next_tick_queue, lost, armed, fs_queue, watching>>
      BY <1>17 DEF PollFd, tickq, nodes, fsq, cos, watch
    <3>4. \A x \in Coros : coro'[x] = IF x = c0 THEN "ticked" ELSE coro[x]
      BY <1>0, <3>2 DEF Types
    <3>5. Polling' = Polling \ {c0} /\ c0 \in Polling
      BY <3>1, <3>4 DEF Polling
    <3>6. Cardinality(Polling') = Cardinality(Polling) - 1
      BY <1>g, <3>5, FS_RemoveElement
    <3>7. /\ Cardinality(armed') = Cardinality(armed) + zero
          /\ Len(fs_queue') = Len(fs_queue) + zero
          /\ Cardinality(watching') = Cardinality(watching) + zero
          /\ Cardinality(Polling') = Cardinality(Polling) + less
      BY <1>e, <1>h, <3>3, <3>6
    <3>8. Rest' = Rest + (zero + zero + zero + less)
      BY <1>0, <3>3, <3>7, RestOther
    <3>9. QED
      BY <1>f, <1>h, <3>8
  <2>4. QED
    BY <1>0, <2>1, <2>2, <2>3, Balanced
<1>18. CASE Resume(t)
  <2>1. Weight(t)' = Weight(t) + 0
    BY <1>0, <1>18, ResumeWeighs
  <2>2. pending_event_count' = pending_event_count
    BY <1>18 DEF Resume, tickq, nodes, fsq, cos, watch
  <2>3. Rest' = Rest + 0
    <3>0. Pc(t) = "resume"
      BY <1>18 DEF Resume
    <3>1. PICK c0 \in Coros : c0 = th[t].cur /\ coro[c0] # "polling"
      BY <1>0, <3>0, CurNotPolling DEF Shape, ShapeOf
    <3>2. PICK v : v = "running" /\ v # "polling"
      OBVIOUS
    <3>3. coro' = [coro EXCEPT ![c0] = v]
      BY <1>18, <3>1, <3>2 DEF Resume
    <3>4. Polling' = Polling
      BY <1>0, <3>1, <3>2, <3>3, PollingSame
    <3>5. UNCHANGED <<next_tick_queue, lost, armed, fs_queue, watching>>
      BY <1>18 DEF Resume, tickq, nodes, fsq, cos, watch
    <3>6. QED
      BY <1>b, <3>4, <3>5
  <2>4. QED
    BY <1>0, <2>1, <2>2, <2>3, Balanced
<1>19. ASSUME NEW c \in Coros, Call(t, c) PROVE Exact'
  <2>1. Weight(t)' = Weight(t) + 1
    BY <1>0, <1>19, CallWeighs
  <2>2. pending_event_count' = pending_event_count + 1
    BY <1>19 DEF Call, BeginTick, beginOneEvent, tickq, nodes, fsq, cos, watch
  <2>3. Rest' = Rest + 0
    <3>1. PICK c0 \in Coros : c0 = c /\ coro[c0] # "polling"
      BY <1>19 DEF Call
    <3>2. PICK v : v = "ticked" /\ v # "polling"
      OBVIOUS
    <3>3. coro' = [coro EXCEPT ![c0] = v]
      BY <1>19, <3>1, <3>2 DEF Call, BeginTick, beginOneEvent
    <3>4. Polling' = Polling
      BY <1>0, <3>1, <3>2, <3>3, PollingSame
    <3>5. UNCHANGED <<next_tick_queue, lost, armed, fs_queue, watching>>
      BY <1>19 DEF Call, BeginTick, beginOneEvent, tickq, nodes, fsq, cos, watch
    <3>6. QED
      BY <1>b, <3>4, <3>5
  <2>4. QED
    BY <1>0, <2>1, <2>2, <2>3, Balanced
<1>20. CASE t = Main /\ run
  <2>1. Weight(t)' = Weight(t) + 0
    BY <1>0, <1>20, runWeighs
  <2>2. pending_event_count' = pending_event_count
    BY <1>20 DEF run, tickq, nodes, fsq, cos, watch
  <2>3. Rest' = Rest + 0
    <3>1. UNCHANGED <<next_tick_queue, lost, armed, fs_queue, watching, coro>>
      BY <1>20 DEF run, tickq, nodes, fsq, cos, watch
    <3>2. QED
      BY <1>a, <3>1
  <2>4. QED
    BY <1>0, <2>1, <2>2, <2>3, Balanced
<1>21. CASE CoroReturns(t)
  <2>1. Weight(t)' = Weight(t) + Num(th[t].cur \in watching)
    BY <1>0, <1>21, CoroReturnsWeighs
  <2>2. Pc(t) = "run"
    BY <1>21 DEF CoroReturns
  <2>3. PICK c0 \in Coros : c0 = th[t].cur /\ coro[c0] # "polling"
    BY <1>0, <2>2, CurNotPolling DEF Shape, ShapeOf
  <2>4. watching' = watching \ {c0} /\ Polling' = Polling
    <3>1. coro' = [coro EXCEPT ![c0] = "done"] /\ watching' = watching \ {c0}
      BY <1>21, <2>3 DEF CoroReturns
    <3>2. PICK v : v = "done" /\ v # "polling"
      OBVIOUS
    <3>3. coro' = [coro EXCEPT ![c0] = v]
      BY <3>1, <3>2
    <3>4. Polling' = Polling
      BY <1>0, <2>3, <3>2, <3>3, PollingSame
    <3>5. QED
      BY <3>1, <3>4
  <2>5. UNCHANGED <<next_tick_queue, lost, armed, fs_queue>>
    BY <1>21 DEF CoroReturns, tickq, nodes, fsq, cos, watch
  <2>6. CASE c0 \in watching
    <3>1. Cardinality(watching') = Cardinality(watching) - 1
      BY <1>g, <2>4, <2>6, FS_RemoveElement
    <3>2. pending_event_count' = pending_event_count
      BY <1>21 DEF CoroReturns
    <3>3. /\ Cardinality(armed') = Cardinality(armed) + zero
          /\ Len(fs_queue') = Len(fs_queue) + zero
          /\ Cardinality(watching') = Cardinality(watching) + less
          /\ Cardinality(Polling') = Cardinality(Polling) + zero
      BY <1>e, <1>h, <2>4, <2>5, <3>1
    <3>4. Rest' = Rest + (zero + zero + less + zero)
      BY <1>0, <2>5, <3>3, RestOther
    <3>5. Rest' = Rest - 1 /\ Weight(t)' = Weight(t) + 1
      BY <1>f, <1>h, <2>1, <2>3, <2>6, <3>4 DEF Num
    <3>6. QED
      BY <1>0, <3>2, <3>5, Balanced
  <2>7. CASE c0 \notin watching
    <3>1. watching' = watching
      BY <2>4, <2>7
    <3>2. pending_event_count' = pending_event_count
      BY <1>21 DEF CoroReturns
    <3>3. Rest' = Rest + 0 /\ Weight(t)' = Weight(t) + 0
      BY <1>b, <2>1, <2>3, <2>4, <2>5, <2>7, <3>1 DEF Num
    <3>4. QED
      BY <1>0, <3>2, <3>3, Balanced
  <2>8. QED
    BY <2>6, <2>7
<1>22. CASE Yield(t)
  <2>1. Weight(t)' = Weight(t) + 1
    BY <1>0, <1>22, YieldWeighs
  <2>2. pending_event_count' = pending_event_count + 1
    BY <1>22 DEF Yield, Suspended, beginOneEvent, tickq, nodes, fsq, cos, watch
  <2>3. Rest' = Rest + 0
    <3>0. Pc(t) = "run"
      BY <1>22 DEF Yield
    <3>1. PICK c0 \in Coros : c0 = th[t].cur /\ coro[c0] # "polling"
      BY <1>0, <3>0, CurNotPolling DEF Shape, ShapeOf
    <3>2. PICK v : v = "ticked" /\ v # "polling"
      OBVIOUS
    <3>3. coro' = [coro EXCEPT ![c0] = v]
      BY <1>22, <3>1, <3>2 DEF Yield, Suspended, beginOneEvent
    <3>4. Polling' = Polling
      BY <1>0, <3>1, <3>2, <3>3, PollingSame
    <3>5. UNCHANGED <<next_tick_queue, lost, armed, fs_queue, watching>>
      BY <1>22 DEF Yield, Suspended, beginOneEvent, tickq, nodes, fsq, cos, watch
    <3>6. QED
      BY <1>b, <3>4, <3>5
  <2>4. QED
    BY <1>0, <2>1, <2>2, <2>3, Balanced
<1>23. CASE FsRequest(t)
  <2>1. Weight(t)' = Weight(t) + 1
    BY <1>0, <1>23, FsRequestWeighs
  <2>2. pending_event_count' = pending_event_count + 1
    BY <1>23 DEF FsRequest, Suspended, beginOneEvent, tickq, nodes, fsq, cos, watch
  <2>3. Rest' = Rest + 0
    <3>0. Pc(t) = "run"
      BY <1>23 DEF FsRequest
    <3>1. PICK c0 \in Coros : c0 = th[t].cur /\ coro[c0] # "polling"
      BY <1>0, <3>0, CurNotPolling DEF Shape, ShapeOf
    <3>2. PICK v : v = "waiting" /\ v # "polling"
      OBVIOUS
    <3>3. coro' = [coro EXCEPT ![c0] = v]
      BY <1>23, <3>1, <3>2 DEF FsRequest, Suspended, beginOneEvent
    <3>4. Polling' = Polling
      BY <1>0, <3>1, <3>2, <3>3, PollingSame
    <3>5. UNCHANGED <<next_tick_queue, lost, armed, fs_queue, watching>>
      BY <1>23 DEF FsRequest, Suspended, beginOneEvent, tickq, nodes, fsq, cos, watch
    <3>6. QED
      BY <1>b, <3>4, <3>5
  <2>4. QED
    BY <1>0, <2>1, <2>2, <2>3, Balanced
<1>24. CASE FsClose(t)
  <2>1. Weight(t)' = Weight(t) + 1
    BY <1>0, <1>24, FsCloseWeighs
  <2>2. pending_event_count' = pending_event_count + 1
    BY <1>24 DEF FsClose, BeginRequest, beginOneEvent, tickq, nodes, fsq, cos, watch
  <2>3. Rest' = Rest + 0
    <3>1. UNCHANGED <<next_tick_queue, lost, armed, fs_queue, watching, coro>>
      BY <1>24 DEF FsClose, BeginRequest, beginOneEvent, tickq, nodes, fsq, cos, watch
    <3>2. QED
      BY <1>a, <3>1
  <2>4. QED
    BY <1>0, <2>1, <2>2, <2>3, Balanced
<1>25. CASE Watch(t)
  <2>1. Weight(t)' = Weight(t) + 0
    BY <1>0, <1>25, WatchWeighs
  <2>2. Pc(t) = "run"
    BY <1>25 DEF Watch
  <2>3. PICK c0 \in Coros : c0 = th[t].cur /\ coro[c0] # "polling"
    BY <1>0, <2>2, CurNotPolling DEF Shape, ShapeOf
  <2>4. watching' = watching \cup {c0} /\ Polling' = Polling
    <3>1. UNCHANGED coro /\ watching' = watching \cup {c0}
      BY <1>25, <2>3 DEF Watch, tickq, nodes, fsq, cos, watch
    <3>2. QED
      BY <1>c, <3>1
  <2>5. UNCHANGED <<next_tick_queue, lost, armed, fs_queue>>
    BY <1>25 DEF Watch, tickq, nodes, fsq, cos, watch
  <2>6. CASE c0 \in watching
    <3>1. watching' = watching
      BY <2>4, <2>6
    <3>2. pending_event_count' = pending_event_count
      BY <1>25, <2>3, <2>6 DEF Watch
    <3>3. Rest' = Rest + 0 /\ Weight(t)' = Weight(t) + 0
      BY <1>b, <2>1, <2>4, <2>5, <3>1
    <3>4. QED
      BY <1>0, <3>2, <3>3, Balanced
  <2>7. CASE c0 \notin watching
    <3>1. Cardinality(watching') = Cardinality(watching) + 1
      BY <1>g, <2>4, <2>7, FS_AddElement
    <3>2. pending_event_count' = pending_event_count + 1
      BY <1>25, <2>3, <2>7 DEF Watch
    <3>3. /\ Cardinality(armed') = Cardinality(armed) + zero
          /\ Len(fs_queue') = Len(fs_queue) + zero
          /\ Cardinality(watching') = Cardinality(watching) + one
          /\ Cardinality(Polling') = Cardinality(Polling) + zero
      BY <1>e, <1>h, <2>4, <2>5, <3>1
    <3>4. Rest' = Rest + (zero + zero + one + zero)
      BY <1>0, <2>5, <3>3, RestOther
    <3>5. Rest' = Rest + 1 /\ Weight(t)' = Weight(t) + 0
      BY <1>f, <1>h, <2>1, <3>4
    <3>6. QED
      BY <1>0, <3>2, <3>5, Balanced
  <2>8. QED
    BY <2>6, <2>7
<1>26. CASE linuxAddFd(t)
  <2>1. Weight(t)' = Weight(t) + 0
    BY <1>0, <1>26, linuxAddFdWeighs
  <2>2. pending_event_count' = pending_event_count + 1
    BY <1>26 DEF linuxAddFd, Suspended, beginOneEvent, tickq, nodes, fsq, cos, watch
  <2>3. Rest' = Rest + 1
    <3>0. Pc(t) = "w_add"
      BY <1>26 DEF linuxAddFd
    <3>1. PICK c0 \in Coros : c0 = th[t].cur /\ coro[c0] # "polling"
      BY <1>0, <3>0, CurNotPolling DEF Shape, ShapeOf
    <3>2. coro' = [coro EXCEPT ![c0] = "polling"]
      BY <1>26, <3>1 DEF linuxAddFd, Suspended, beginOneEvent
    <3>3. UNCHANGED <<next_tick_queue, lost, armed, fs_queue, watching>>
      BY <1>26 DEF linuxAddFd, Suspended, beginOneEvent, tickq, nodes, fsq, cos, watch
    <3>4. \A x \in Coros : coro'[x] = IF x = c0 THEN "polling" ELSE coro[x]
      BY <1>0, <3>2 DEF Types
    <3>5. Polling' = Polling \cup {c0} /\ c0 \notin Polling
      BY <3>1, <3>4 DEF Polling
    <3>6. Cardinality(Polling') = Cardinality(Polling) + 1
      BY <1>g, <3>5, FS_AddElement
    <3>7. /\ Cardinality(armed') = Cardinality(armed) + zero
          /\ Len(fs_queue') = Len(fs_queue) + zero
          /\ Cardinality(watching') = Cardinality(watching) + zero
          /\ Cardinality(Polling') = Cardinality(Polling) + one
      BY <1>e, <1>h, <3>3, <3>6
    <3>8. Rest' = Rest + (zero + zero + zero + one)
      BY <1>0, <3>3, <3>7, RestOther
    <3>9. QED
      BY <1>f, <1>h, <3>8
  <2>4. QED
    BY <1>0, <2>1, <2>2, <2>3, Balanced
<1>27. CASE CtlAddFd(t)
  <2>1. Weight(t)' = Weight(t) + 0
    BY <1>0, <1>27, CtlAddFdWeighs
  <2>2. pending_event_count' = pending_event_count
    BY <1>27 DEF CtlAddFd, tickq, nodes, fsq, cos, watch
  <2>3. Rest' = Rest + 0
    <3>1. UNCHANGED <<next_tick_queue, lost, armed, fs_queue, watching, coro>>
      BY <1>27 DEF CtlAddFd, tickq, nodes, fsq, cos, watch
    <3>2. QED
      BY <1>a, <3>1
  <2>4. QED
    BY <1>0, <2>1, <2>2, <2>3, Balanced
<1>28. CASE linuxRemoveFd(t)
  <2>1. Weight(t)' = Weight(t) + 0
    BY <1>0, <1>28, linuxRemoveFdWeighs
  <2>2. pending_event_count' = pending_event_count
    BY <1>28 DEF linuxRemoveFd, tickq, nodes, fsq, cos, watch
  <2>3. Rest' = Rest + 0
    <3>1. UNCHANGED <<next_tick_queue, lost, armed, fs_queue, watching, coro>>
      BY <1>28 DEF linuxRemoveFd, tickq, nodes, fsq, cos, watch
    <3>2. QED
      BY <1>a, <3>1
  <2>4. QED
    BY <1>0, <2>1, <2>2, <2>3, Balanced
<1>29. CASE t = Fs /\ FsClearItem
  <2>1. Weight(t)' = Weight(t) + 0
    BY <1>0, <1>29, FsClearItemWeighs
  <2>2. pending_event_count' = pending_event_count
    BY <1>29 DEF FsClearItem, tickq, nodes, fsq, cos, watch
  <2>3. Rest' = Rest + 0
    <3>1. UNCHANGED <<next_tick_queue, lost, armed, fs_queue, watching, coro>>
      BY <1>29 DEF FsClearItem, tickq, nodes, fsq, cos, watch
    <3>2. QED
      BY <1>a, <3>1
  <2>4. QED
    BY <1>0, <2>1, <2>2, <2>3, Balanced
<1>30. CASE t = Fs /\ FsGet
  <2>1. Weight(t)' = Weight(t) + Num(fs_queue # <<>>)
    BY <1>0, <1>30, FsGetWeighs
  <2>2. pending_event_count' = pending_event_count
    BY <1>30 DEF FsGet, tickq, nodes, fsq, cos, watch
  <2>3. UNCHANGED <<next_tick_queue, lost, armed, watching, coro>>
    BY <1>30 DEF FsGet, tickq, nodes, fsq, cos, watch
  <2>4. CASE fs_queue = <<>>
    <3>1. fs_queue' = fs_queue
      BY <1>30, <2>4 DEF FsGet, tickq, nodes, fsq, cos, watch
    <3>2. Rest' = Rest + 0 /\ Weight(t)' = Weight(t) + 0
      BY <1>a, <2>1, <2>3, <2>4, <3>1 DEF Num
    <3>3. QED
      BY <1>0, <2>2, <3>2, Balanced
  <2>5. CASE fs_queue # <<>>
    <3>1. fs_queue' = Tail(fs_queue)
      BY <1>30, <2>5 DEF FsGet, tickq, nodes, fsq, cos, watch
    <3>2. Len(fs_queue') = Len(fs_queue) - 1
      BY <1>0, <2>5, <3>1, TailType DEF Types
    <3>3. /\ Cardinality(armed') = Cardinality(armed) + zero
          /\ Len(fs_queue') = Len(fs_queue) + less
          /\ Cardinality(watching') = Cardinality(watching) + zero
          /\ Cardinality(Polling') = Cardinality(Polling) + zero
      BY <1>c, <1>e, <1>h, <2>3, <3>2
    <3>4. Rest' = Rest + (zero + less + zero + zero)
      BY <1>0, <2>3, <3>3, RestOther
    <3>5. Rest' = Rest - 1 /\ Weight(t)' = Weight(t) + 1
      BY <1>f, <1>h, <2>1, <2>5, <3>4 DEF Num
    <3>6. QED
      BY <1>0, <2>2, <3>5, Balanced
  <2>6. QED
    BY <2>4, <2>5
<1>31. CASE t = Fs /\ FsTick
  <2>1. Weight(t)' = Weight(t) + 1
    BY <1>0, <1>31, FsTickWeighs
  <2>2. pending_event_count' = pending_event_count + 1
    BY <1>31 DEF FsTick, Suspended, beginOneEvent, tickq, nodes, fsq, cos, watch
  <2>3. Rest' = Rest + 0
    <3>0. Pc(t) = "f_tick"
      BY <1>31 DEF FsTick
    <3>1. PICK c0 \in Coros : c0 = th[t].cur /\ coro[c0] # "polling"
      BY <1>0, <3>0, CurNotPolling DEF Shape, ShapeOf
    <3>2. PICK v : v = "ticked" /\ v # "polling"
      OBVIOUS
    <3>3. coro' = [coro EXCEPT ![c0] = v]
      BY <1>31, <3>1, <3>2 DEF FsTick, Suspended, beginOneEvent
    <3>4. Polling' = Polling
      BY <1>0, <3>1, <3>2, <3>3, PollingSame
    <3>5. UNCHANGED <<next_tick_queue, lost, armed, fs_queue, watching>>
      BY <1>31 DEF FsTick, Suspended, beginOneEvent, tickq, nodes, fsq, cos, watch
    <3>6. QED
      BY <1>b, <3>4, <3>5
  <2>4. QED
    BY <1>0, <2>1, <2>2, <2>3, Balanced
<1>32. CASE t = Fs /\ FsWait
  <2>1. Weight(t)' = Weight(t) + 0
    BY <1>0, <1>32, FsWaitWeighs
  <2>2. pending_event_count' = pending_event_count
    BY <1>32 DEF FsWait, tickq, nodes, fsq, cos, watch
  <2>3. Rest' = Rest + 0
    <3>1. UNCHANGED <<next_tick_queue, lost, armed, fs_queue, watching, coro>>
      BY <1>32 DEF FsWait, tickq, nodes, fsq, cos, watch
    <3>2. QED
      BY <1>a, <3>1
  <2>4. QED
    BY <1>0, <2>1, <2>2, <2>3, Balanced
<1>33. CASE t = Fs /\ FsInterrupted
  <2>1. Weight(t)' = Weight(t) + 0
    BY <1>0, <1>33, FsInterruptedWeighs
  <2>2. pending_event_count' = pending_event_count
    BY <1>33 DEF FsInterrupted, tickq, nodes, fsq, cos, watch
  <2>3. Rest' = Rest + 0
    <3>1. UNCHANGED <<next_tick_queue, lost, armed, fs_queue, watching, coro>>
      BY <1>33 DEF FsInterrupted, tickq, nodes, fsq, cos, watch
    <3>2. QED
      BY <1>a, <3>1
  <2>4. QED
    BY <1>0, <2>1, <2>2, <2>3, Balanced
<1>34. QED
  BY <1>1, <1>2, <1>3, <1>4, <1>5, <1>6, <1>7, <1>8, <1>9, <1>10, <1>11, <1>12, <1>13, <1>14,
    <1>15, <1>16, <1>17, <1>18, <1>19, <1>20, <1>21, <1>22, <1>23, <1>24, <1>25, <1>26, <1>27,
    <1>28, <1>29, <1>30, <1>31, <1>32, <1>33 DEF StepOf, Shared, Dispatch, CoroStep

-----------------------------------------------------------------------------
(* The end of the loop. *)

\* There is nothing to do: only the End request is counted.
Idle ==
  /\ next_tick_queue = <<>> /\ lost = {} /\ armed = {} /\ watching = {} /\ Polling = {}
  /\ fs_queue \in {<<>>, <<End>>}
  /\ Owing = {} /\ Settling = {}
  /\ \A u \in Carrying : Ending(u) /\ fs_queue = <<>>

\* The last event has been finished.
Finale == final_eventfd \/ \E t \in Threads : Ending(t)

\* A sum of 0, or of 1 with a summand that is not 0.
LEMMA NoneHeld ==
  ASSUME Held \in {0, 1}
  PROVE  /\ Held = 0 => Owing = {} /\ Carrying = {} /\ Settling = {} /\ Pc(Fs) # "f_exit"
         /\ Pc(Fs) = "f_exit" => Owing = {} /\ Carrying = {} /\ Settling = {}
         /\ \A t \in Carrying : Owing = {} /\ Settling = {} /\ Carrying = {t}
<1>1. PICK O, C, S : O = Owing /\ C = Carrying /\ S = Settling
  OBVIOUS
<1>2. IsFiniteSet(O) /\ IsFiniteSet(C) /\ IsFiniteSet(S)
  BY <1>1, HoldersFinite
<1>3. /\ Cardinality(O) \in Nat /\ Cardinality(C) \in Nat /\ Cardinality(S) \in Nat
  BY <1>2, FS_CardinalityType
<1>4. /\ Cardinality(O) = 0 => O = {}
      /\ Cardinality(C) = 0 => C = {}
      /\ Cardinality(S) = 0 => S = {}
  BY <1>2, FS_EmptySet
<1>5. PICK o \in Nat, c \in Nat, s \in Nat, e \in Nat :
        /\ o = Cardinality(O) /\ c = Cardinality(C) /\ s = Cardinality(S)
        /\ e = Num(Pc(Fs) = "f_exit")
  BY <1>3 DEF Num
<1>6. Held = o + c + s + e
  BY <1>1, <1>5 DEF Held
<1>a. /\ Held = 0 => o = 0 /\ c = 0 /\ s = 0 /\ e = 0
      /\ e = 1 => o = 0 /\ c = 0 /\ s = 0
      /\ c # 0 => c = 1 /\ o = 0 /\ s = 0
  <2>1. PICK h \in {0, 1} : h = Held
    OBVIOUS
  <2>2. h = o + c + s + e
    BY <1>6, <2>1
  <2>3. /\ h = 0 => o = 0 /\ c = 0 /\ s = 0 /\ e = 0
        /\ e = 1 => o = 0 /\ c = 0 /\ s = 0
        /\ c # 0 => c = 1 /\ o = 0 /\ s = 0
    BY <2>2
  <2>4. QED
    BY <2>1, <2>3
<1>7. (Pc(Fs) = "f_exit" => e = 1) /\ (Pc(Fs) # "f_exit" => e = 0)
  BY <1>5 DEF Num
<1>8. Held = 0 => Owing = {} /\ Carrying = {} /\ Settling = {} /\ Pc(Fs) # "f_exit"
  BY <1>1, <1>4, <1>5, <1>7, <1>a
<1>9. Pc(Fs) = "f_exit" => Owing = {} /\ Carrying = {} /\ Settling = {}
  BY <1>1, <1>4, <1>5, <1>7, <1>a
<1>10. ASSUME NEW t \in Carrying PROVE Owing = {} /\ Settling = {} /\ Carrying = {t}
  <2>1. t \in C /\ c # 0
    <3>1. t \in C /\ C # {}
      BY <1>1, <1>10
    <3>2. Cardinality(C) # 0
      BY <1>4, <3>1
    <3>3. QED
      BY <1>5, <3>1, <3>2
  <2>2. c = 1 /\ o = 0 /\ s = 0
    BY <1>a, <2>1
  <2>3. \E x : C = {x}
    BY <1>2, <1>5, <2>2, FS_Singleton
  <2>4. QED
    BY <1>1, <1>4, <1>5, <2>1, <2>2, <2>3
<1>11. QED
  BY <1>8, <1>9, <1>10

\* A sum of 0, or of 1 when the End request is queued.
LEMMA NothingRests ==
  ASSUME Types
  PROVE  /\ Rest = 0 => /\ next_tick_queue = <<>> /\ lost = {} /\ armed = {} /\ watching = {}
                        /\ Polling = {} /\ fs_queue = <<>>
         /\ (Rest = 1 /\ fs_queue = <<End>>) =>
              /\ next_tick_queue = <<>> /\ lost = {} /\ armed = {} /\ watching = {}
              /\ Polling = {}
<1>1. /\ IsFiniteSet(lost) /\ IsFiniteSet(armed) /\ IsFiniteSet(watching) /\ IsFiniteSet(Polling)
      /\ Len(next_tick_queue) \in Nat /\ Len(fs_queue) \in Nat
      /\ Cardinality(lost) \in Nat /\ Cardinality(armed) \in Nat
      /\ Cardinality(watching) \in Nat /\ Cardinality(Polling) \in Nat
  BY SetsFinite
<1>2. PICK l \in Nat, a \in Nat, w \in Nat, p \in Nat :
        /\ l = Cardinality(lost) /\ a = Cardinality(armed)
        /\ w = Cardinality(watching) /\ p = Cardinality(Polling)
  BY <1>1
<1>3. PICK q \in Nat, f \in Nat : q = Len(next_tick_queue) /\ f = Len(fs_queue)
  BY <1>1
<1>4. Rest = q + l + a + f + w + p
  BY <1>2, <1>3 DEF Rest
<1>5. (l = 0 => lost = {}) /\ (a = 0 => armed = {}) /\ (w = 0 => watching = {}) /\ (p = 0 => Polling = {})
  BY <1>1, <1>2, FS_EmptySet
<1>6. (q = 0 => next_tick_queue = <<>>) /\ (f = 0 => fs_queue = <<>>)
  BY <1>3 DEF Types
<1>7. fs_queue = <<End>> => f = 1
  BY <1>3
<1>8. Rest = 0 => q = 0 /\ l = 0 /\ a = 0 /\ f = 0 /\ w = 0 /\ p = 0
  BY <1>4
<1>9. Rest = 1 /\ f = 1 => q = 0 /\ l = 0 /\ a = 0 /\ w = 0 /\ p = 0
  BY <1>4
<1>10. QED
  BY <1>5, <1>6, <1>7, <1>8, <1>9

\* When the last event has been finished nothing but the End request is counted.
LEMMA FinaleIdle ==
  ASSUME Types, Exact, Ends, Finale
  PROVE  Idle
<1>1. pending_event_count = Rest + Held /\ Rest \in Nat /\ Held \in Int /\ Held >= 0
  BY ExactIs, SetsFinite, HeldAtLeast, Constants
<1>2. CASE EndTaken /\ pending_event_count = 1
  <2>1. CASE fs_queue = <<End>>
    <3>1. Rest # 0
      BY <2>1, NothingRests
    <3>2. Rest = 1 /\ Held = 0
      BY <1>1, <1>2, <3>1
    <3>3. /\ next_tick_queue = <<>> /\ lost = {} /\ armed = {} /\ watching = {} /\ Polling = {}
      BY <2>1, <3>2, NothingRests
    <3>4. Owing = {} /\ Carrying = {} /\ Settling = {}
      BY <3>2, NoneHeld
    <3>5. QED
      BY <2>1, <3>3, <3>4 DEF Idle
  <2>2. CASE Pc(Fs) = "f_exit"
    <3>1. Held # 0
      BY <2>2, NoneHeld
    <3>2. Rest = 0 /\ Held = 1
      BY <1>1, <1>2, <3>1
    <3>3. /\ next_tick_queue = <<>> /\ lost = {} /\ armed = {} /\ watching = {} /\ Polling = {}
          /\ fs_queue = <<>>
      BY <3>2, NothingRests
    <3>4. Owing = {} /\ Carrying = {} /\ Settling = {}
      BY <2>2, <3>2, NoneHeld
    <3>5. QED
      BY <3>3, <3>4 DEF Idle
  <2>3. QED
    BY <1>2, <2>1, <2>2 DEF EndTaken
<1>3. ASSUME NEW t \in Threads, Pc(t) = "e_begin" PROVE Idle
  <2>1. Rest = 0 /\ Held = 0
    BY <1>1, <1>3 DEF Ends, Ending
  <2>2. Owing = {} /\ Carrying = {} /\ Settling = {}
    BY <2>1, NoneHeld
  <2>3. QED
    BY <2>1, <2>2, NothingRests DEF Idle
<1>4. ASSUME NEW t \in Threads, Pc(t) = "r_put", Ending(t) PROVE Idle
  <2>1. pending_event_count = 1
    BY <1>4 DEF Ends
  <2>2. t \in Carrying
    BY <1>4 DEF Carrying
  <2>3. Held # 0
    BY <2>2, NoneHeld
  <2>4. Rest = 0 /\ Held = 1
    BY <1>1, <2>1, <2>3
  <2>5. Owing = {} /\ Settling = {} /\ Carrying = {t}
    BY <2>2, <2>4, NoneHeld
  <2>6. QED
    BY <1>4, <2>4, <2>5, NothingRests DEF Idle
<1>5. ASSUME NEW t \in Threads, Ending(t), Pc(t) # "e_begin", Pc(t) # "r_put" PROVE Idle
  <2>1. pending_event_count = 1 /\ EndTaken
    BY <1>5 DEF Ends, Ending, InRequest
  <2>2. QED
    BY <1>2, <2>1
<1>6. CASE final_eventfd
  BY <1>2, <1>6 DEF Ends
<1>7. QED
  BY <1>3, <1>4, <1>5, <1>6 DEF Finale

\* What the other threads can be doing then.
LEMMA IdleThread ==
  ASSUME Base, Where, Idle, NEW u \in Threads, ~Ending(u)
  PROVE  /\ th[u].cur \notin Coros
         /\ \/ Pc(u) \in {"get", "poll", "stopped", "f_clear", "f_get", "f_wait", "f_sleep", "f_exit"}
            \/ /\ Pc(u) \in {"d_pop", "d_get", "d_push", "r_item", "r_wake"}
               /\ th[u].ret = "get" /\ u # Fs
<1>0. Types /\ Shaped /\ Shape(u) /\ th[u].after \in {"finish", "get"} /\ Pc(u) \in PcStates
  BY Fields DEF Base, Shaped, Types, Pc
<1>1. u \notin Owing /\ u \notin Carrying /\ u \notin Settling
  BY DEF Idle
<1>2. PICK pc, ret, after, cur, arg :
        /\ pc = Pc(u) /\ ret = th[u].ret /\ after = th[u].after /\ cur = th[u].cur
        /\ arg = th[u].arg
  OBVIOUS
<1>3. ~Owes(u, pc, after, arg) /\ ~Carries(pc) /\ ~Settles(u, pc, ret, after)
  BY <1>1, <1>2, HoldsRef
<1>4. ASSUME after = "get" PROVE cur \notin Coros
  <2>1. SUFFICES ASSUME cur \in Coros PROVE FALSE
    OBVIOUS
  <2>2. CurOk(u, cur)
    BY <1>0, <1>2, <2>1, CurNotPolling
  <2>3. QED
    BY <1>2, <1>4, <2>2 DEF CurOk, Idle
<1>5. ShapeOf(u, pc, ret, after, cur, arg, th[u].node)
  BY <1>0, <1>2 DEF Shape
<1>6. pc # "w_ctl"
  <2>1. SUFFICES ASSUME pc = "w_ctl" PROVE FALSE
    OBVIOUS
  <2>2. arg \in Coros
    BY <1>5, <2>1 DEF ShapeOf
  <2>3. At(ArgSpot(u), arg) /\ ArgSpot(u) \in Spots
    BY <1>2, <2>1, ThreadAt, SpotKinds, ZenonT(30) DEF Passing, Pc
  <2>4. Ok(ArgSpot(u), arg)
    BY <2>2, <2>3 DEF Where, Status
  <2>5. ArgOk(u, arg)
    BY <2>4, OkKinds
  <2>6. QED
    BY <1>2, <2>1, <2>5 DEF ArgOk, Idle
<1>7. CASE u = Fs
  <2>1. pc \notin {"f_tick", "t_put", "finish", "d_pop", "d_get", "d_arm", "d_push", "r_put"}
    BY <1>3, <1>7 DEF Owes, Carries, InDispatch
  <2>2. pc \notin {"setup", "get", "poll", "stopped", "p_push", "resume", "run", "w_add", "w_ctl", "w_del"}
    BY <1>5, <1>7 DEF ShapeOf
  <2>3. arg \in Requests \cup {Null}
    BY <1>0, <1>2, Fields DEF Types
  <2>4. pc \notin {"r_item", "r_wake"}
    BY <1>2, <1>5, <1>7, <2>3 DEF ShapeOf, InRequest, WithArg, Ending, Requests
  <2>5. pc \notin {"e_begin", "final"}
    BY <1>2 DEF Ending
  <2>6. pc \in {"f_clear", "f_get", "f_wait", "f_sleep", "f_exit"}
    BY <1>0, <1>2, <2>1, <2>2, <2>4, <2>5 DEF PcStates
  <2>7. cur \notin Coros
    BY <1>5, <2>6, Constants DEF ShapeOf
  <2>8. QED
    BY <1>2, <2>6, <2>7
<1>8. CASE u # Fs /\ after = "finish"
  <2>1. ~(pc \in InRequest /\ arg = End) /\ pc \notin {"e_begin", "final"}
    BY <1>2 DEF Ending
  <2>2. pc \in {"get", "poll", "stopped"}
    BY <1>3, <1>8, <2>1 DEF Owes
  <2>3. cur \notin Coros
    BY <1>5, <2>2, Constants DEF ShapeOf
  <2>4. QED
    BY <1>2, <2>2, <2>3
<1>9. CASE u # Fs /\ after = "get"
  <2>1. cur \notin Coros
    BY <1>4, <1>9
  <2>2. pc \notin {"t_put", "r_put", "d_arm", "resume", "w_del"}
    BY <1>3, <1>9 DEF Carries, Settles
  <2>3. pc \notin {"p_push", "resume", "run", "w_add", "w_del", "setup"}
    BY <1>5, <1>9, <2>1 DEF ShapeOf
  <2>4. pc # "finish"
    BY <1>3, <1>5, <1>9 DEF ShapeOf, Settles
  <2>5. pc \notin {"f_clear", "f_get", "f_tick", "f_wait", "f_sleep", "f_exit", "e_begin", "final"}
    BY <1>2, <1>5, <1>9 DEF ShapeOf, Ending
  <2>6. pc \in {"get", "poll", "stopped", "d_pop", "d_get", "d_push", "r_item", "r_wake"}
    BY <1>0, <1>2, <1>6, <2>2, <2>3, <2>4, <2>5 DEF PcStates
  <2>7. pc \in {"d_pop", "d_get", "d_push"} => ret = "get"
    BY <1>5, <1>9, <2>1 DEF ShapeOf, Caller, InDispatch
  <2>8. pc \in {"r_item", "r_wake"} => ret = "get"
    <3>1. arg \in Requests \cup {Null}
      BY <1>0, <1>2, Fields DEF Types
    <3>2. pc \in {"r_item", "r_wake"} => arg \in Coros
      BY <1>2, <1>5, <2>1, <3>1 DEF ShapeOf, InRequest, WithArg, Ending, Requests
    <3>3. QED
      BY <1>5, <1>9, <3>2 DEF ShapeOf, InRequest
  <2>9. QED
    BY <1>2, <1>9, <2>1, <2>6, <2>7, <2>8
<1>10. QED
  BY <1>0, <1>2, <1>7, <1>8, <1>9

\* A thread that ends the loop, after a step.
LEMMA EndingNext ==
  ASSUME NEW t
  PROVE  Ending(t)' <=> \/ th'[t].pc \in {"e_begin", "final"}
                        \/ th'[t].pc \in InRequest /\ th'[t].arg = End
BY DEF Ending, Pc

\* A call that returns is not about to end the loop.
LEMMA ReturnsOn ==
  ASSUME NEW t, Returns(t)
  PROVE  th'[t].pc \in {"setup", "run", "resume", "finish", "get", "f_get"}
BY DEF Returns, Becomes, Home

\* The end begins when the last event is finished.
LEMMA EndBegins ==
  ASSUME Base, NEW t \in Threads, StepOf(t), ~Ending(t), ~Finish(t)
  PROVE  ~Ending(t)'
<1>0. Types /\ Shaped /\ Shape(t) /\ NodesOnce
  BY DEF Base, Shaped, Nodes
<1>a. ASSUME Returns(t) PROVE ~Ending(t)'
  BY <1>a, ReturnsOn, EndingNext DEF InRequest
<1>b. ASSUME NEW pc, NEW ret, NEW after, NEW cur, NEW arg, NEW node,
             Becomes(t, pc, ret, after, cur, arg, node),
             pc \notin {"e_begin", "final"}, pc \in InRequest => arg # End
      PROVE  ~Ending(t)'
  BY <1>b, EndingNext DEF Becomes
<1>1. CASE DispatchPop(t)
  <2>1. th'[t].pc = "d_get" \/ Returns(t)
    BY <1>0, <1>1, DispatchPopDoes DEF Becomes
  <2>2. QED
    BY <1>a, <2>1, EndingNext DEF InRequest
<1>2. CASE DispatchGet(t)
  <2>1. th'[t].pc = "d_arm" \/ th'[t].pc = "d_push"
    BY <1>0, <1>2, DispatchGetDoes DEF Becomes
  <2>2. QED
    BY <2>1, EndingNext DEF InRequest
<1>3. CASE DispatchArm(t)
  <2>1. th'[t].pc = "d_pop"
    BY <1>0, <1>3, DispatchArmDoes DEF Becomes
  <2>2. QED
    BY <2>1, EndingNext DEF InRequest
<1>4. CASE DispatchArmFails(t)
  <2>1. th'[t].pc = "d_push"
    BY <1>0, <1>4, DispatchArmFailsDoes DEF Becomes
  <2>2. QED
    BY <2>1, EndingNext DEF InRequest
<1>5. CASE DispatchPush(t)
  BY <1>0, <1>a, <1>5, DispatchPushDoes
<1>6. CASE PutTick(t)
  <2>1. th'[t].pc = "d_pop"
    BY <1>0, <1>6, PutTickDoes DEF Becomes
  <2>2. QED
    BY <2>1, EndingNext DEF InRequest
<1>7. CASE PutRequest(t)
  <2>1. th'[t].pc = "r_item" /\ th'[t].arg = th[t].arg /\ Pc(t) \in InRequest
    BY <1>0, <1>7, PutRequestDoes DEF Becomes, InRequest
  <2>2. QED
    BY <2>1, EndingNext DEF Ending
<1>8. CASE SetItem(t)
  <2>1. th'[t].pc = "r_wake" /\ th'[t].arg = th[t].arg /\ Pc(t) \in InRequest
    BY <1>0, <1>8, SetItemDoes DEF Becomes, InRequest
  <2>2. QED
    BY <2>1, EndingNext DEF Ending
<1>9. CASE WakeFs(t)
  <2>1. th[t].arg # End
    BY <1>9 DEF WakeFs, Ending, InRequest
  <2>2. Returns(t)
    BY <1>0, <1>9, <2>1, WakeFsStep
  <2>3. QED
    BY <1>a, <2>2
<1>10. CASE Finish(t)
  BY <1>10
<1>11. CASE RequestEnd(t)
  BY <1>11 DEF RequestEnd, Ending
<1>12. CASE WriteFinal(t)
  BY <1>12 DEF WriteFinal, Ending
<1>13. CASE WorkerGet(t)
  <2>1. th'[t].pc = "d_pop" \/ th'[t].pc = "poll"
    BY <1>0, <1>13, WorkerGetDoes DEF Becomes
  <2>2. QED
    BY <2>1, EndingNext DEF InRequest
<1>14. ASSUME NEW n \in EventfdNodes, PollEventFd(t, n) PROVE ~Ending(t)'
  <2>1. handle[n] \in Coros
    BY <1>0, <1>14 DEF PollEventFd, NodesOnce
  <2>2. Becomes(t, "p_push", th[t].ret, th[t].after, handle[n], th[t].arg, n)
    BY <1>0, <1>14, <2>1, PollEventFdDoes
  <2>3. th'[t].pc = "p_push"
    BY <2>2 DEF Becomes
  <2>4. QED
    BY <2>3, EndingNext DEF InRequest
<1>15. CASE PollPush(t)
  <2>1. th'[t].pc = "resume"
    BY <1>0, <1>15, PollPushDoes DEF Becomes
  <2>2. QED
    BY <2>1, EndingNext DEF InRequest
<1>16. CASE PollStop(t)
  <2>1. th'[t].pc = "stopped"
    BY <1>0, <1>16, PollStopDoes DEF Becomes
  <2>2. QED
    BY <2>1, EndingNext DEF InRequest
<1>17. ASSUME NEW c \in Coros, PollFd(t, c) PROVE ~Ending(t)'
  <2>1. th'[t].pc = "resume"
    BY <1>0, <1>17, PollFdDoes DEF Becomes
  <2>2. QED
    BY <2>1, EndingNext DEF InRequest
<1>18. CASE Resume(t)
  <2>1. th'[t].pc = "run" \/ th'[t].pc = "w_del"
    BY <1>0, <1>18, ResumeDoes DEF Becomes
  <2>2. QED
    BY <2>1, EndingNext DEF InRequest
<1>19. ASSUME NEW c \in Coros, Call(t, c) PROVE ~Ending(t)'
  <2>1. th'[t].pc = "t_put"
    BY <1>0, <1>19, CallDoes DEF Becomes
  <2>2. QED
    BY <2>1, EndingNext DEF InRequest
<1>20. CASE t = Main /\ run
  <2>1. th'[t].pc = "finish"
    BY <1>0, <1>20, runDoes DEF Becomes
  <2>2. QED
    BY <2>1, EndingNext DEF InRequest
<1>21. CASE CoroReturns(t)
  <2>1. th'[t].pc = "finish" \/ th'[t].pc = th[t].after
    BY <1>0, <1>21, CoroReturnsStep DEF Becomes
  <2>2. th[t].after \in {"finish", "get"}
    BY <1>0, Fields DEF Types
  <2>3. QED
    BY <2>1, <2>2, EndingNext DEF InRequest
<1>22. CASE Yield(t)
  <2>1. th'[t].pc = "t_put"
    BY <1>0, <1>22, YieldDoes DEF Becomes
  <2>2. QED
    BY <2>1, EndingNext DEF InRequest
<1>23. CASE FsRequest(t)
  <2>1. th[t].cur # End
    BY <1>0, <1>23, Constants DEF FsRequest, Shape, ShapeOf
  <2>2. th'[t].pc = "r_put" /\ th'[t].arg # End
    BY <1>0, <1>23, <2>1, FsRequestDoes, Constants DEF Becomes
  <2>3. QED
    BY <2>2, EndingNext
<1>24. CASE FsClose(t)
  <2>1. th[t].cur # End
    BY <1>0, <1>24, Constants DEF FsClose, Shape, ShapeOf
  <2>2. th'[t].pc = "r_put" /\ th'[t].arg # End
    BY <1>0, <1>24, <2>1, FsCloseDoes, Constants DEF Becomes
  <2>3. QED
    BY <2>2, EndingNext
<1>25. CASE Watch(t)
  <2>1. th'[t].pc = "w_add"
    BY <1>0, <1>25, WatchDoes DEF Becomes
  <2>2. QED
    BY <2>1, EndingNext DEF InRequest
<1>26. CASE linuxAddFd(t)
  <2>1. th'[t].pc = "w_ctl"
    BY <1>0, <1>26, linuxAddFdDoes DEF Becomes
  <2>2. QED
    BY <2>1, EndingNext DEF InRequest
<1>27. CASE CtlAddFd(t)
  BY <1>0, <1>a, <1>27, CtlAddFdDoes
<1>28. CASE linuxRemoveFd(t)
  <2>1. th'[t].pc = "finish"
    BY <1>0, <1>28, linuxRemoveFdDoes DEF Becomes
  <2>2. QED
    BY <2>1, EndingNext DEF InRequest
<1>29. CASE t = Fs /\ FsClearItem
  <2>1. th'[t].pc = "f_get"
    BY <1>0, <1>29, FsClearItemDoes DEF Becomes
  <2>2. QED
    BY <2>1, EndingNext DEF InRequest
<1>30. CASE t = Fs /\ FsGet
  <2>1. th'[t].pc = "f_exit" \/ th'[t].pc = "f_tick" \/ th'[t].pc = "f_wait" \/ th'[t].pc = "finish"
    BY <1>0, <1>30, FsGetDoes DEF Becomes
  <2>2. QED
    BY <2>1, EndingNext DEF InRequest
<1>31. CASE t = Fs /\ FsTick
  <2>1. th'[t].pc = "t_put"
    BY <1>0, <1>31, FsTickDoes DEF Becomes
  <2>2. QED
    BY <2>1, EndingNext DEF InRequest
<1>32. CASE t = Fs /\ FsWait
  <2>1. th'[t].pc = "f_clear" \/ th'[t].pc = "f_sleep"
    BY <1>0, <1>32, FsWaitDoes DEF Becomes
  <2>2. QED
    BY <2>1, EndingNext DEF InRequest
<1>33. CASE t = Fs /\ FsInterrupted
  <2>1. th'[t].pc = "f_clear"
    BY <1>0, <1>33, FsInterruptedDoes DEF Becomes
  <2>2. QED
    BY <2>1, EndingNext DEF InRequest
<1>34. QED
  BY <1>1, <1>2, <1>3, <1>4, <1>5, <1>6, <1>7, <1>8, <1>9, <1>10, <1>11, <1>12, <1>13, <1>14,
    <1>15, <1>16, <1>17, <1>18, <1>19, <1>20, <1>21, <1>22, <1>23, <1>24, <1>25, <1>26, <1>27,
    <1>28, <1>29, <1>30, <1>31, <1>32, <1>33 DEF StepOf, Shared, Dispatch, CoroStep

\* The file system thread that has taken the End request has returned.
LEMMA EndTakenKept ==
  ASSUME NEW t \in Threads, Others(t), EndTaken, fs_queue' = fs_queue, Pc(t) # "f_exit"
  PROVE  EndTaken'
<1>1. CASE fs_queue = <<End>>
  BY <1>1 DEF EndTaken
<1>2. CASE Pc(Fs) = "f_exit"
  <2>1. th'[Fs].pc = "f_exit"
    BY <1>2, Constants DEF Others, Still, Pc
  <2>2. QED
    BY <2>1 DEF EndTaken, Pc
<1>3. QED
  BY <1>1, <1>2 DEF EndTaken

\* When nothing is left, the steps of a thread that does not end the loop change nothing that
\* matters.
LEMMA QuietStep ==
  ASSUME Base, Where, Idle, NEW t \in Threads, Others(t), StepOf(t), ~Ending(t)
  PROVE  /\ pending_event_count' = pending_event_count /\ final_eventfd' = final_eventfd
         /\ EndTaken => EndTaken'
         /\ ~Finish(t)
<1>0. Types /\ Shaped /\ Shape(t)
  BY DEF Base, Shaped
<1>a. /\ th[t].cur \notin Coros
      /\ Pc(t) \in {"get", "poll", "stopped", "f_clear", "f_get", "f_wait", "f_sleep", "f_exit",
                    "d_pop", "d_get", "d_push", "r_item", "r_wake"}
  BY IdleThread
<1>b. ~Finish(t)
  BY <1>a DEF Finish
<1> DEFINE Quiet == /\ pending_event_count' = pending_event_count
                    /\ final_eventfd' = final_eventfd
                    /\ EndTaken => EndTaken'
<1>c. ASSUME UNCHANGED <<pending_event_count, final_eventfd, fs_queue>>, Pc(t) # "f_exit"
      PROVE  Quiet
  BY <1>c, EndTakenKept
<1> HIDE DEF Quiet
<1> SUFFICES Quiet
  BY <1>b DEF Quiet
<1>1. CASE DispatchPop(t)
  <2>1. UNCHANGED <<pending_event_count, final_eventfd, fs_queue>> /\ Pc(t) # "f_exit"
    BY <1>1 DEF DispatchPop, tickq, nodes, fsq, cos, watch
  <2>2. QED
    BY <1>c, <2>1
<1>2. CASE DispatchGet(t)
  <2>1. UNCHANGED <<pending_event_count, final_eventfd, fs_queue>> /\ Pc(t) # "f_exit"
    BY <1>2 DEF DispatchGet, TickGet, tickq, nodes, fsq, cos, watch
  <2>2. QED
    BY <1>c, <2>1
<1>3. CASE DispatchArm(t)
  BY <1>a, <1>3 DEF DispatchArm
<1>4. CASE DispatchArmFails(t)
  BY <1>a, <1>4 DEF DispatchArmFails
<1>5. CASE DispatchPush(t)
  <2>1. UNCHANGED <<pending_event_count, final_eventfd, fs_queue>> /\ Pc(t) # "f_exit"
    BY <1>5 DEF DispatchPush, tickq, nodes, fsq, cos, watch
  <2>2. QED
    BY <1>c, <2>1
<1>6. CASE PutTick(t)
  BY <1>a, <1>6 DEF PutTick
<1>7. CASE PutRequest(t)
  BY <1>a, <1>7 DEF PutRequest
<1>8. CASE SetItem(t)
  <2>1. UNCHANGED <<pending_event_count, final_eventfd, fs_queue>> /\ Pc(t) # "f_exit"
    BY <1>8 DEF SetItem, tickq, nodes, fsq, cos, watch
  <2>2. QED
    BY <1>c, <2>1
<1>9. CASE WakeFs(t)
  <2>1. UNCHANGED <<pending_event_count, final_eventfd, fs_queue>> /\ Pc(t) # "f_exit"
    BY <1>9 DEF WakeFs, tickq, nodes, fsq, cos, watch
  <2>2. QED
    BY <1>c, <2>1
<1>10. CASE Finish(t)
  BY <1>a, <1>10 DEF Finish
<1>11. CASE RequestEnd(t)
  BY <1>a, <1>11 DEF RequestEnd
<1>12. CASE WriteFinal(t)
  BY <1>a, <1>12 DEF WriteFinal
<1>13. CASE WorkerGet(t)
  <2>1. UNCHANGED <<pending_event_count, final_eventfd, fs_queue>> /\ Pc(t) # "f_exit"
    BY <1>13 DEF WorkerGet, TickGet, tickq, nodes, fsq, cos, watch
  <2>2. QED
    BY <1>c, <2>1
<1>14. ASSUME NEW n \in EventfdNodes, PollEventFd(t, n) PROVE Quiet
  BY <1>14 DEF PollEventFd, Idle
<1>15. CASE PollPush(t)
  BY <1>a, <1>15 DEF PollPush
<1>16. CASE PollStop(t)
  <2>1. UNCHANGED <<pending_event_count, final_eventfd, fs_queue>> /\ Pc(t) # "f_exit"
    BY <1>16 DEF PollStop, tickq, nodes, fsq, cos, watch
  <2>2. QED
    BY <1>c, <2>1
<1>17. ASSUME NEW c \in Coros, PollFd(t, c) PROVE Quiet
  <2>1. EdgeSpot \in Spots /\ At(EdgeSpot, c)
    BY <1>17, SpotKinds, AtKinds DEF PollFd
  <2>2. Ok(EdgeSpot, c)
    BY <1>17, <2>1 DEF Where, Status
  <2>3. c \in watching
    BY <2>2, OkKinds
  <2>4. QED
    BY <2>3 DEF Idle
<1>18. CASE Resume(t)
  BY <1>a, <1>18 DEF Resume
<1>19. ASSUME NEW c \in Coros, Call(t, c) PROVE Quiet
  BY <1>a, <1>19 DEF Call
<1>20. CASE t = Main /\ run
  BY <1>a, <1>20 DEF run
<1>21. CASE CoroReturns(t)
  BY <1>a, <1>21 DEF CoroReturns
<1>22. CASE Yield(t)
  BY <1>a, <1>22 DEF Yield
<1>23. CASE FsRequest(t)
  BY <1>a, <1>23 DEF FsRequest
<1>24. CASE FsClose(t)
  BY <1>a, <1>24 DEF FsClose
<1>25. CASE Watch(t)
  BY <1>a, <1>25 DEF Watch
<1>26. CASE linuxAddFd(t)
  BY <1>a, <1>26 DEF linuxAddFd
<1>27. CASE CtlAddFd(t)
  BY <1>a, <1>27 DEF CtlAddFd
<1>28. CASE linuxRemoveFd(t)
  BY <1>a, <1>28 DEF linuxRemoveFd
<1>29. CASE t = Fs /\ FsClearItem
  <2>1. UNCHANGED <<pending_event_count, final_eventfd, fs_queue>> /\ Pc(t) # "f_exit"
    BY <1>29 DEF FsClearItem, tickq, nodes, fsq, cos, watch
  <2>2. QED
    BY <1>c, <2>1
<1>30. CASE t = Fs /\ FsGet
  <2>1. /\ UNCHANGED <<pending_event_count, final_eventfd>> /\ Pc(t) # "f_exit" /\ t = Fs
    BY <1>30 DEF FsGet
  <2>2. CASE fs_queue = <<>>
    <3>1. fs_queue' = fs_queue
      BY <1>30, <2>2 DEF FsGet
    <3>2. QED
      BY <1>c, <2>1, <3>1
  <2>3. CASE fs_queue = <<End>>
    <3>1. fs_queue # <<>> /\ Head(fs_queue) = End
      BY <2>3
    <3>2. End # CloseOp /\ End \notin Coros
      BY LoopAssumption
    <3>3. th'[t].pc = "f_exit"
      BY <1>0, <1>30, <3>1, <3>2, FsGetDoes DEF Becomes
    <3>4. QED
      BY <2>1, <3>3 DEF EndTaken, Pc, Quiet
  <2>4. QED
    BY <2>2, <2>3 DEF Idle
<1>31. CASE t = Fs /\ FsTick
  BY <1>a, <1>31 DEF FsTick
<1>32. CASE t = Fs /\ FsWait
  <2>1. UNCHANGED <<pending_event_count, final_eventfd, fs_queue>> /\ Pc(t) # "f_exit"
    BY <1>32 DEF FsWait, tickq, nodes, fsq, cos, watch
  <2>2. QED
    BY <1>c, <2>1
<1>33. CASE t = Fs /\ FsInterrupted
  <2>1. UNCHANGED <<pending_event_count, final_eventfd, fs_queue>> /\ Pc(t) # "f_exit"
    BY <1>33 DEF FsInterrupted, tickq, nodes, fsq, cos, watch
  <2>2. QED
    BY <1>c, <2>1
<1>34. QED
  BY <1>1, <1>2, <1>3, <1>4, <1>5, <1>6, <1>7, <1>8, <1>9, <1>10, <1>11, <1>12, <1>13, <1>14,
    <1>15, <1>16, <1>17, <1>18, <1>19, <1>20, <1>21, <1>22, <1>23, <1>24, <1>25, <1>26, <1>27,
    <1>28, <1>29, <1>30, <1>31, <1>32, <1>33 DEF StepOf, Shared, Dispatch, CoroStep

\* A thread that does not take the step ends the loop as before.
LEMMA EndingStays ==
  ASSUME NEW t \in Threads, Others(t), NEW u \in Threads \ {t}
  PROVE  Ending(u)' <=> Ending(u)
<1>1. Still(u)
  BY DEF Others
<1>2. CASE th'[u].pc = th[u].pc
  BY <1>1, <1>2 DEF Ending, Still, Pc
<1>3. CASE th[u].pc = "f_sleep" /\ th'[u].pc = "f_clear"
  BY <1>3 DEF Ending, Pc, InRequest
<1>4. QED
  BY <1>1, <1>2, <1>3 DEF Still

\* The state of the one thread that ends the loop.
LEMMA EndsFor ==
  ASSUME NEW t \in Threads, Others(t), \A u \in Threads \ {t} : ~Ending(u),
         final_eventfd' => pending_event_count' = 1 /\ EndTaken',
         Ending(t)' => /\ ~final_eventfd' /\ th'[t].ret \in {"none", "get"}
                       /\ th'[t].pc = "e_begin" => pending_event_count' = 0
                       /\ th'[t].pc # "e_begin" => pending_event_count' = 1
                       /\ th'[t].pc \in {"r_item", "r_wake", "final"} => EndTaken'
  PROVE  Ends'
<1>1. \A u \in Threads : Ending(u)' => u = t
  BY EndingStays
<1>2. QED
  BY <1>1 DEF Ends, Pc

\* A thread that ends the loop takes its next step.
LEMMA EndingStep ==
  ASSUME Base, Ends, Idle, NEW t \in Threads, Others(t), StepOf(t), Ending(t)
  PROVE  Ends'
<1>0. Types /\ Shaped /\ Shape(t)
  BY DEF Base, Shaped
<1>a. /\ ~final_eventfd /\ th[t].ret \in {"none", "get"}
      /\ Pc(t) = "e_begin" => pending_event_count = 0
      /\ Pc(t) # "e_begin" => pending_event_count = 1
      /\ Pc(t) \in {"r_item", "r_wake", "final"} => EndTaken
      /\ \A u \in Threads \ {t} : ~Ending(u)
  BY DEF Ends
<1>b. /\ Pc(t) \in {"e_begin", "final", "r_put", "r_item", "r_wake"}
      /\ Pc(t) \in {"r_put", "r_item", "r_wake"} => th[t].arg = End
  BY DEF Ending, InRequest
<1>1. CASE DispatchPop(t)
  BY <1>b, <1>1 DEF DispatchPop
<1>2. CASE DispatchGet(t)
  BY <1>b, <1>2 DEF DispatchGet
<1>3. CASE DispatchArm(t)
  BY <1>b, <1>3 DEF DispatchArm
<1>4. CASE DispatchArmFails(t)
  BY <1>b, <1>4 DEF DispatchArmFails
<1>5. CASE DispatchPush(t)
  BY <1>b, <1>5 DEF DispatchPush
<1>6. CASE PutTick(t)
  BY <1>b, <1>6 DEF PutTick
<1>7. CASE PutRequest(t)
  <2>1. /\ Pc(t) = "r_put" /\ pending_event_count' = pending_event_count
        /\ final_eventfd' = final_eventfd
        /\ fs_queue' = Append(fs_queue, th[t].arg)
    BY <1>7 DEF PutRequest
  <2>2. th'[t].pc = "r_item" /\ th'[t].ret = th[t].ret
    BY <1>0, <1>7, PutRequestDoes DEF Becomes
  <2>3. fs_queue = <<>>
    BY <2>1 DEF Idle, Carrying
  <2>4. fs_queue' = <<End>>
    BY <1>b, <2>1, <2>3
  <2>5. EndTaken'
    BY <2>4 DEF EndTaken
  <2>6. pending_event_count' = 1 /\ ~final_eventfd' /\ th'[t].ret \in {"none", "get"}
    BY <1>a, <2>1, <2>2
  <2>7. QED
    BY <1>a, <2>2, <2>5, <2>6, EndsFor
<1>8. CASE SetItem(t)
  <2>1. /\ Pc(t) = "r_item" /\ pending_event_count' = pending_event_count
        /\ final_eventfd' = final_eventfd
        /\ fs_queue' = fs_queue
    BY <1>8 DEF SetItem, fsq
  <2>2. th'[t].pc = "r_wake" /\ th'[t].ret = th[t].ret
    BY <1>0, <1>b, <1>8, <2>1, SetItemDoes DEF Becomes
  <2>3. EndTaken'
    BY <1>a, <2>1, EndTakenKept
  <2>4. pending_event_count' = 1 /\ ~final_eventfd' /\ th'[t].ret \in {"none", "get"}
    BY <1>a, <2>1, <2>2
  <2>5. QED
    BY <1>a, <2>2, <2>3, <2>4, EndsFor
<1>9. CASE WakeFs(t)
  <2>1. /\ Pc(t) = "r_wake" /\ pending_event_count' = pending_event_count
        /\ final_eventfd' = final_eventfd
        /\ fs_queue' = fs_queue
    BY <1>9 DEF WakeFs, fsq
  <2>2. th'[t].pc = "final" /\ th'[t].ret = th[t].ret
    BY <1>0, <1>b, <1>9, <2>1, WakeFsStep DEF Becomes
  <2>3. EndTaken'
    BY <1>a, <2>1, EndTakenKept
  <2>4. pending_event_count' = 1 /\ ~final_eventfd' /\ th'[t].ret \in {"none", "get"}
    BY <1>a, <2>1, <2>2
  <2>5. QED
    BY <1>a, <2>2, <2>3, <2>4, EndsFor
<1>10. CASE Finish(t)
  BY <1>b, <1>10 DEF Finish
<1>11. CASE RequestEnd(t)
  <2>1. Pc(t) = "e_begin" /\ pending_event_count' = pending_event_count + 1
        /\ final_eventfd' = final_eventfd
    BY <1>11 DEF RequestEnd, BeginRequest, beginOneEvent
  <2>2. th'[t].pc = "r_put" /\ th'[t].ret = th[t].ret
    BY <1>0, <1>11, RequestEndDoes DEF Becomes
  <2>3. pending_event_count' = 1 /\ ~final_eventfd' /\ th'[t].ret \in {"none", "get"}
    BY <1>a, <2>1, <2>2
  <2>4. QED
    BY <1>a, <2>2, <2>3, EndsFor
<1>12. CASE WriteFinal(t)
  <2>1. /\ Pc(t) = "final" /\ pending_event_count' = pending_event_count /\ fs_queue' = fs_queue
    BY <1>12 DEF WriteFinal, fsq
  <2>2. ~Ending(t)'
    BY <1>0, <1>12, WriteFinalDoes, ReturnsOn, EndingNext DEF InRequest
  <2>3. EndTaken'
    BY <1>a, <2>1, EndTakenKept
  <2>4. pending_event_count' = 1
    BY <1>a, <2>1
  <2>5. QED
    BY <1>a, <2>2, <2>3, <2>4, EndsFor
<1>13. CASE WorkerGet(t)
  BY <1>b, <1>13 DEF WorkerGet
<1>14. ASSUME NEW n \in EventfdNodes, PollEventFd(t, n) PROVE Ends'
  BY <1>b, <1>14 DEF PollEventFd
<1>15. CASE PollPush(t)
  BY <1>b, <1>15 DEF PollPush
<1>16. CASE PollStop(t)
  BY <1>b, <1>16 DEF PollStop
<1>17. ASSUME NEW c \in Coros, PollFd(t, c) PROVE Ends'
  BY <1>b, <1>17 DEF PollFd
<1>18. CASE Resume(t)
  BY <1>b, <1>18 DEF Resume
<1>19. ASSUME NEW c \in Coros, Call(t, c) PROVE Ends'
  BY <1>b, <1>19 DEF Call
<1>20. CASE t = Main /\ run
  BY <1>b, <1>20 DEF run
<1>21. CASE CoroReturns(t)
  BY <1>b, <1>21 DEF CoroReturns
<1>22. CASE Yield(t)
  BY <1>b, <1>22 DEF Yield
<1>23. CASE FsRequest(t)
  BY <1>b, <1>23 DEF FsRequest
<1>24. CASE FsClose(t)
  BY <1>b, <1>24 DEF FsClose
<1>25. CASE Watch(t)
  BY <1>b, <1>25 DEF Watch
<1>26. CASE linuxAddFd(t)
  BY <1>b, <1>26 DEF linuxAddFd
<1>27. CASE CtlAddFd(t)
  BY <1>b, <1>27 DEF CtlAddFd
<1>28. CASE linuxRemoveFd(t)
  BY <1>b, <1>28 DEF linuxRemoveFd
<1>29. CASE t = Fs /\ FsClearItem
  BY <1>b, <1>29 DEF FsClearItem
<1>30. CASE t = Fs /\ FsGet
  BY <1>b, <1>30 DEF FsGet
<1>31. CASE t = Fs /\ FsTick
  BY <1>b, <1>31 DEF FsTick
<1>32. CASE t = Fs /\ FsWait
  BY <1>b, <1>32 DEF FsWait
<1>33. CASE t = Fs /\ FsInterrupted
  BY <1>b, <1>33 DEF FsInterrupted
<1>34. QED
  BY <1>1, <1>2, <1>3, <1>4, <1>5, <1>6, <1>7, <1>8, <1>9, <1>10, <1>11, <1>12, <1>13, <1>14,
    <1>15, <1>16, <1>17, <1>18, <1>19, <1>20, <1>21, <1>22, <1>23, <1>24, <1>25, <1>26, <1>27,
    <1>28, <1>29, <1>30, <1>31, <1>32, <1>33 DEF StepOf, Shared, Dispatch, CoroStep

\* final_eventfd is written by a thread that ends the loop.
LEMMA FinalStep ==
  ASSUME NEW t \in Threads, StepOf(t), ~Ending(t)
  PROVE  final_eventfd' = final_eventfd
<1>1. CASE DispatchPop(t)
  BY <1>1 DEF DispatchPop, tickq, nodes, fsq, cos, watch
<1>2. CASE DispatchGet(t)
  BY <1>2 DEF DispatchGet, TickGet, tickq, nodes, fsq, cos, watch
<1>3. CASE DispatchArm(t)
  BY <1>3 DEF DispatchArm, tickq, nodes, fsq, cos, watch
<1>4. CASE DispatchArmFails(t)
  BY <1>4 DEF DispatchArmFails, TickUnget, tickq, nodes, fsq, cos, watch
<1>5. CASE DispatchPush(t)
  BY <1>5 DEF DispatchPush, tickq, nodes, fsq, cos, watch
<1>6. CASE PutTick(t)
  BY <1>6 DEF PutTick, TickPut, tickq, nodes, fsq, cos, watch
<1>7. CASE PutRequest(t)
  BY <1>7 DEF PutRequest, tickq, nodes, fsq, cos, watch
<1>8. CASE SetItem(t)
  BY <1>8 DEF SetItem, tickq, nodes, fsq, cos, watch
<1>9. CASE WakeFs(t)
  BY <1>9 DEF WakeFs, tickq, nodes, fsq, cos, watch
<1>10. CASE Finish(t)
  BY <1>10 DEF Finish, tickq, nodes, fsq, cos, watch
<1>11. CASE RequestEnd(t)
  BY <1>11 DEF RequestEnd, BeginRequest, beginOneEvent, tickq, nodes, fsq, cos, watch
<1>12. CASE WriteFinal(t)
  BY <1>12 DEF WriteFinal, Ending
<1>13. CASE WorkerGet(t)
  BY <1>13 DEF WorkerGet, TickGet, tickq, nodes, fsq, cos, watch
<1>14. ASSUME NEW n \in EventfdNodes, PollEventFd(t, n) PROVE final_eventfd' = final_eventfd
  BY <1>14 DEF PollEventFd, tickq, nodes, fsq, cos, watch
<1>15. CASE PollPush(t)
  BY <1>15 DEF PollPush, tickq, nodes, fsq, cos, watch
<1>16. CASE PollStop(t)
  BY <1>16 DEF PollStop, tickq, nodes, fsq, cos, watch
<1>17. ASSUME NEW c \in Coros, PollFd(t, c) PROVE final_eventfd' = final_eventfd
  BY <1>17 DEF PollFd, tickq, nodes, fsq, cos, watch
<1>18. CASE Resume(t)
  BY <1>18 DEF Resume, tickq, nodes, fsq, cos, watch
<1>19. ASSUME NEW c \in Coros, Call(t, c) PROVE final_eventfd' = final_eventfd
  BY <1>19 DEF Call, BeginTick, beginOneEvent, tickq, nodes, fsq, cos, watch
<1>20. CASE t = Main /\ run
  BY <1>20 DEF run, tickq, nodes, fsq, cos, watch
<1>21. CASE CoroReturns(t)
  BY <1>21 DEF CoroReturns, tickq, nodes, fsq, cos, watch
<1>22. CASE Yield(t)
  BY <1>22 DEF Yield, Suspended, beginOneEvent, tickq, nodes, fsq, cos, watch
<1>23. CASE FsRequest(t)
  BY <1>23 DEF FsRequest, Suspended, beginOneEvent, tickq, nodes, fsq, cos, watch
<1>24. CASE FsClose(t)
  BY <1>24 DEF FsClose, BeginRequest, beginOneEvent, tickq, nodes, fsq, cos, watch
<1>25. CASE Watch(t)
  BY <1>25 DEF Watch, tickq, nodes, fsq, cos, watch
<1>26. CASE linuxAddFd(t)
  BY <1>26 DEF linuxAddFd, Suspended, beginOneEvent, tickq, nodes, fsq, cos, watch
<1>27. CASE CtlAddFd(t)
  BY <1>27 DEF CtlAddFd, tickq, nodes, fsq, cos, watch
<1>28. CASE linuxRemoveFd(t)
  BY <1>28 DEF linuxRemoveFd, tickq, nodes, fsq, cos, watch
<1>29. CASE t = Fs /\ FsClearItem
  BY <1>29 DEF FsClearItem, tickq, nodes, fsq, cos, watch
<1>30. CASE t = Fs /\ FsGet
  BY <1>30 DEF FsGet, tickq, nodes, fsq, cos, watch
<1>31. CASE t = Fs /\ FsTick
  BY <1>31 DEF FsTick, Suspended, beginOneEvent, tickq, nodes, fsq, cos, watch
<1>32. CASE t = Fs /\ FsWait
  BY <1>32 DEF FsWait, tickq, nodes, fsq, cos, watch
<1>33. CASE t = Fs /\ FsInterrupted
  BY <1>33 DEF FsInterrupted, tickq, nodes, fsq, cos, watch
<1>34. QED
  BY <1>1, <1>2, <1>3, <1>4, <1>5, <1>6, <1>7, <1>8, <1>9, <1>10, <1>11, <1>12, <1>13, <1>14,
    <1>15, <1>16, <1>17, <1>18, <1>19, <1>20, <1>21, <1>22, <1>23, <1>24, <1>25, <1>26, <1>27,
    <1>28, <1>29, <1>30, <1>31, <1>32, <1>33 DEF StepOf, Shared, Dispatch, CoroStep

\* The last event is finished: nothing is counted any more.
LEMMA LastFinish ==
  ASSUME Base, Where, Exact, NEW t \in Threads, Finish(t)
  PROVE  Ending(t)' => /\ pending_event_count' = 0 /\ th'[t].pc = "e_begin"
                       /\ th'[t].ret \in {"none", "get"}
<1>0. Types /\ Shaped /\ Shape(t)
  BY DEF Base, Shaped
<1>1. SUFFICES ASSUME Ending(t)'
               PROVE  /\ pending_event_count' = 0 /\ th'[t].pc = "e_begin"
                      /\ th'[t].ret \in {"none", "get"}
  OBVIOUS
<1>2. ~Returns(t)
  BY <1>1, ReturnsOn, EndingNext DEF InRequest
<1>3. /\ ~(pending_event_count > 1) /\ th'[t].pc = "e_begin" /\ Pc(t) = "finish"
      /\ th'[t].ret = th[t].ret
  BY <1>0, <1>2, FinishStep DEF Becomes
<1>4. PICK ret, after, arg, cur :
        ret = th[t].ret /\ after = th[t].after /\ arg = th[t].arg /\ cur = th[t].cur
  OBVIOUS
<1>5. after \in {"finish", "get"}
  BY <1>0, <1>4, Fields DEF Types
<1>6. \/ ret = "none" /\ after = "finish"
      \/ ret = after /\ t # Fs
      \/ ret = "run" /\ after = "get" /\ t # Fs /\ cur \in Coros
  BY <1>0, <1>3, <1>4 DEF Shape, ShapeOf
<1>7. Weight(t) = WeightOf(t, "finish", ret, after, arg)
  BY <1>3, <1>4 DEF Weight
<1>8. \/ WeightOf(t, "finish", ret, after, arg) = 1
      \/ ret = "finish" /\ WeightOf(t, "finish", ret, after, arg) = 2
  BY <1>5, <1>6 DEF WeightOf, Owes, Carries, Settles, Num, InDispatch, InRequest
<1>9. PICK p \in Int, r \in Nat, h \in Int, w \in Int :
        /\ p = pending_event_count /\ r = Rest /\ h = Held /\ w = Weight(t)
  BY <1>0, SetsFinite, HeldAtLeast DEF Types
<1>10. p = r + h /\ h >= w
  BY <1>0, <1>9, ExactIs, HeldAtLeast
<1>11. w = 1 /\ p = 1 /\ r = 0
  BY <1>3, <1>7, <1>8, <1>9, <1>10
<1>12. ret # "finish"
  <2>1. ASSUME ret = "finish" PROVE FALSE
    <3>1. t # Fs /\ after = "finish"
      BY <1>6, <2>1
    <3>2. WeightOf(t, "finish", ret, after, arg) = 2
      BY <2>1, <3>1 DEF WeightOf, Owes, Carries, Settles, Num, InDispatch, InRequest
    <3>3. QED
      BY <1>7, <1>9, <1>11, <3>2
  <2>2. QED
    BY <2>1
<1>13. ret # "run"
  <2>1. ASSUME ret = "run" PROVE FALSE
    <3>1. cur \in Coros /\ after = "get"
      BY <1>5, <1>6, <2>1
    <3>2. CurOk(t, cur)
      BY <1>0, <1>4, <3>1, CurNotPolling
    <3>3. cur \in watching
      BY <1>4, <3>1, <3>2 DEF CurOk
    <3>4. watching = {}
      BY <1>0, <1>9, <1>11, NothingRests
    <3>5. QED
      BY <3>3, <3>4
  <2>2. QED
    BY <2>1
<1>14. pending_event_count' = 0
  BY <1>9, <1>11 DEF Finish
<1>15. QED
  BY <1>3, <1>4, <1>5, <1>6, <1>12, <1>13, <1>14

\* Every step keeps the end of the loop orderly.
LEMMA EndsStep ==
  ASSUME Base, Where, Exact, Ends, NEW t \in Threads, Others(t), StepOf(t)
  PROVE  Ends'
<1>1. Types
  BY DEF Base
<1>2. CASE Ending(t)
  BY <1>1, <1>2, FinaleIdle, EndingStep DEF Finale
<1>3. CASE Finale /\ ~Ending(t)
  <2>1. Idle
    BY <1>1, <1>3, FinaleIdle
  <2>2. /\ pending_event_count' = pending_event_count /\ final_eventfd' = final_eventfd
        /\ EndTaken => EndTaken'
        /\ ~Finish(t)
    BY <1>3, <2>1, QuietStep
  <2>3. ~Ending(t)'
    BY <1>3, <2>2, EndBegins
  <2>4. \A u \in Threads \ {t} : (Ending(u)' <=> Ending(u)) /\ Still(u)
    BY EndingStays DEF Others
  <2>5. final_eventfd' => pending_event_count' = 1 /\ EndTaken'
    BY <2>2 DEF Ends
  <2>6. ASSUME NEW u \in Threads, Ending(u)'
        PROVE  /\ ~final_eventfd'
               /\ \A v \in Threads : Ending(v)' => v = u
               /\ th'[u].ret \in {"none", "get"}
               /\ th'[u].pc = "e_begin" => pending_event_count' = 0
               /\ th'[u].pc # "e_begin" => pending_event_count' = 1
               /\ th'[u].pc \in {"r_item", "r_wake", "final"} => EndTaken'
    <3>1. u # t /\ Ending(u) /\ Still(u)
      BY <2>3, <2>4, <2>6
    <3>2. /\ ~final_eventfd /\ \A v \in Threads : Ending(v) => v = u
          /\ th[u].ret \in {"none", "get"}
          /\ Pc(u) = "e_begin" => pending_event_count = 0
          /\ Pc(u) # "e_begin" => pending_event_count = 1
          /\ Pc(u) \in {"r_item", "r_wake", "final"} => EndTaken
      BY <3>1 DEF Ends
    <3>3. th'[u].pc = Pc(u) /\ th'[u].ret = th[u].ret
      BY <3>1 DEF Still, Ending, Pc, InRequest
    <3>4. \A v \in Threads : Ending(v)' => v = u
      BY <2>3, <2>4, <3>2
    <3>5. QED
      BY <2>2, <3>2, <3>3, <3>4
  <2>7. QED
    BY <2>5, <2>6 DEF Ends, Pc
<1>4. CASE ~Finale
  <2>1. ~Ending(t) /\ ~final_eventfd /\ \A u \in Threads \ {t} : ~Ending(u)
    BY <1>4 DEF Finale
  <2>2. ~final_eventfd'
    BY <2>1, FinalStep
  <2>3. CASE Finish(t)
    BY <2>1, <2>2, <2>3, LastFinish, EndsFor
  <2>4. CASE ~Finish(t)
    <3>1. ~Ending(t)'
      BY <2>1, <2>4, EndBegins
    <3>2. QED
      BY <2>1, <2>2, <3>1, EndsFor
  <2>5. QED
    BY <2>3, <2>4
<1>5. QED
  BY <1>2, <1>3, <1>4

Counted == Exact /\ Ends

\* At first only Main holds a reference, to the event the loop starts with.
LEMMA InitCounted == Init => Counted
<1> SUFFICES ASSUME Init PROVE Counted
  OBVIOUS
<1>1. Types
  BY InitBase DEF Base
<1>2. /\ pending_event_count = 1 /\ next_tick_queue = <<>> /\ lost = {} /\ armed = {}
      /\ fs_queue = <<>> /\ watching = {} /\ ~final_eventfd
  BY DEF Init
<1>3. Polling = {}
  BY DEF Init, Polling
<1>4. Rest = 0
  <2>1. Cardinality({}) = 0
    BY FS_EmptySet
  <2>2. QED
    BY <1>2, <1>3, <2>1 DEF Rest
<1>5. th = [t \in Threads |->
              Fresh(CASE t = Main -> "setup" [] t = Fs -> "f_clear" [] OTHER -> "get")]
  BY DEF Init
<1>6. ASSUME NEW t \in Threads
      PROVE  /\ t = Main => Pc(t) = "setup"
             /\ t = Fs => Pc(t) = "f_clear"
             /\ (t # Main /\ t # Fs) => Pc(t) = "get"
             /\ th[t].after = "finish" /\ th[t].ret = "none" /\ th[t].arg = Null
  BY <1>5, Constants DEF Fresh, Pc
<1>7. ASSUME NEW t \in Threads
      PROVE  (t \in Owing <=> t = Main) /\ t \notin Carrying /\ t \notin Settling /\ ~Ending(t)
  <2>1. CASE t = Main
    BY <1>6, <2>1, HoldsRef, Constants DEF Owes, Carries, Settles, InRequest, Ending
  <2>2. CASE t = Fs
    BY <1>6, <2>2, HoldsRef, Constants DEF Owes, Carries, Settles, InDispatch, InRequest, Ending
  <2>3. CASE t # Main /\ t # Fs
    BY <1>6, <2>3, HoldsRef, Constants DEF Owes, Carries, Settles, InRequest, Ending
  <2>4. QED
    BY <2>1, <2>2, <2>3
<1>8. Owing = {Main} /\ Carrying = {} /\ Settling = {}
  BY <1>7, HoldersFinite, Constants
<1>9. Held = 1
  <2>1. Cardinality({}) = 0 /\ Cardinality({Main}) = 1
    BY FS_EmptySet, FS_Singleton
  <2>2. Num(Pc(Fs) = "f_exit") = 0
    BY <1>6, Constants DEF Num
  <2>3. QED
    BY <1>8, <2>1, <2>2 DEF Held
<1>10. Exact
  BY <1>1, <1>2, <1>4, <1>9, ExactIs
<1>11. QED
  BY <1>2, <1>7, <1>10 DEF Counted, Ends

\* A stuttering step counts nothing.
LEMMA CountedStutter ==
  ASSUME Counted, UNCHANGED vars
  PROVE  Counted'
<1>1. UNCHANGED <<pending_event_count, next_tick_queue, lost, armed, final_eventfd, fs_queue, coro, watching, th>>
  BY DEF vars, tickq, nodes, fsq, cos, watch
<1>2. Exact'
  BY <1>1 DEF Counted, Exact, Owing, Carrying, Settling, Polling, Pc, Dispatching
<1>3. Ends'
  BY <1>1 DEF Counted, Ends, Ending, EndTaken, Pc
<1>4. QED
  BY <1>2, <1>3 DEF Counted

\* The count is exact and the end of the loop is orderly, in every state.
LEMMA CountedHolds == Edges <= 1 /\ Spec => []Counted
<1> SUFFICES ASSUME Edges <= 1 PROVE Spec => []Counted
  OBVIOUS
<1>1. Init => Counted
  BY InitCounted
<1>2. Base /\ Base' /\ Located /\ Counted /\ [Next]_vars => Counted'
  <2> SUFFICES ASSUME Base, Base', Located, Counted, [Next]_vars PROVE Counted'
    OBVIOUS
  <2>1. ASSUME NEW t \in Threads, StepOf(t) PROVE Counted'
    <3>1. Where /\ Exact /\ Ends /\ Others(t) /\ Types'
      BY <2>1, BaseStep DEF Located, Where, Counted, Base
    <3>2. Exact'
      BY <2>1, <3>1, ExactStep
    <3>3. Ends'
      BY <2>1, <3>1, EndsStep
    <3>4. QED
      BY <3>2, <3>3 DEF Counted
  <2>2. QED
    BY <2>1, NextIsStep, CountedStutter
<1>3. Spec => []Located
  BY LocatedHolds
<1>4. QED
  BY <1>1, <1>2, <1>3, BaseHolds, PTL DEF Spec

\* pending_event_count, which stops the loop when it reaches 0, is at every
\* step the number of the nodes queued, armed or in a thread's hands, of the
\* descriptors waited for and of the references held; with TypeOK.
THEOREM CountOfEvents == Edges <= 1 /\ Spec => []PendingExact
<1> SUFFICES ASSUME Edges <= 1 PROVE Spec => []PendingExact
  OBVIOUS
<1>1. ASSUME Base, Counted PROVE PendingExact
  <2>1. Types /\ Exact /\ NodesOnce
    BY <1>1 DEF Base, Counted, Nodes
  <2>2. pending_event_count \in Nat
    BY <2>1, ExactIs, SetsFinite, HeldAtLeast, Constants
  <2>3. \A n \in armed : handle[n] \in Coros
    BY <2>1 DEF NodesOnce
  <2>4. TypeOK
    BY <2>1, <2>2, <2>3 DEF TypeOK, Types, ThRec
  <2>5. QED
    BY <2>1, <2>4 DEF PendingExact, Exact
<1>2. Spec => []Counted
  BY CountedHolds
<1>3. QED
  BY <1>1, <1>2, BaseHolds, PTL

\* When the loop ends, no coroutine is anywhere.
LEMMA IdleNobody ==
  ASSUME Base, Where, Idle, \A t \in Threads : ~Ending(t), NEW c \in Coros
  PROVE  coro[c] \in {"unstarted", "done"}
<1>0. Types
  BY DEF Base
<1>1. coro[c] \in {"unstarted", "ticked", "running", "waiting", "polling", "done"}
  BY <1>0 DEF Types
<1>2. coro[c] # "polling"
  BY DEF Idle, Polling
<1>3. ASSUME NEW s \in Spots, At(s, c) PROVE FALSE
  <2>1. Carrying = {}
    BY HoldersFinite DEF Idle
  <2>2. ~At(QueueSpot, c) /\ ~At(LostSpot, c)
    BY EmptyQueue, AtKinds DEF Idle
  <2>3. ~At(FsSpot, c)
    <3>1. c # End
      BY Constants
    <3>2. ~InQueue(<<>>, c) /\ ~InQueue(<<End>>, c)
      BY <3>1 DEF InQueue
    <3>3. QED
      BY <3>2, AtKinds DEF Idle
  <2>4. ~At(EdgeSpot, c)
    <3>1. At(EdgeSpot, c) => Ok(EdgeSpot, c)
      BY SpotKinds DEF Where, Status
    <3>2. QED
      BY <1>2, <3>1, OkKinds
  <2>5. ASSUME NEW n \in EventfdNodes PROVE ~At(NodeSpot(n), c)
    <3>1. ~Loaded(n)
      BY <2>1 DEF Idle, Loaded, Carrying
    <3>2. QED
      BY <3>1, AtKinds
  <2>6. ASSUME NEW u \in Threads PROVE ~At(CurSpot(u), c) /\ ~At(ArgSpot(u), c)
    <3>1. /\ th[u].cur \notin Coros
          /\ Pc(u) \in {"get", "poll", "stopped", "f_clear", "f_get", "f_wait", "f_sleep", "f_exit",
                        "d_pop", "d_get", "d_push", "r_item", "r_wake"}
      BY IdleThread
    <3>2. QED
      BY <3>1, ThreadAt DEF Passing, Pc
  <2>7. QED
    BY <1>3, <2>2, <2>3, <2>4, <2>5, <2>6, SpotKinds
<1>4. coro[c] \notin {"ticked", "running", "waiting"}
  BY <1>3 DEF Where, Somewhere
<1>5. QED
  BY <1>1, <1>2, <1>4

\* The threads are told to stop only when every coroutine that was started has
\* returned and no request is queued.
THEOREM StopsOnlyWhenIdle == Edges <= 1 /\ Spec => []StopsWhenIdle
<1> SUFFICES ASSUME Edges <= 1 PROVE Spec => []StopsWhenIdle
  OBVIOUS
<1>1. ASSUME Base, Located, Counted PROVE StopsWhenIdle
  <2>1. Types /\ Exact /\ Ends /\ Where
    BY <1>1 DEF Base, Counted, Located, Where
  <2>2. SUFFICES ASSUME final_eventfd
                 PROVE  /\ \A c \in Coros : coro[c] \in {"unstarted", "done"}
                        /\ next_tick_queue = <<>> /\ armed = {}
                        /\ fs_queue \in {<<>>, <<End>>}
    BY DEF StopsWhenIdle
  <2>3. Idle
    BY <2>1, <2>2, FinaleIdle DEF Finale
  <2>4. \A t \in Threads : ~Ending(t)
    BY <2>1, <2>2 DEF Ends
  <2>5. \A c \in Coros : coro[c] \in {"unstarted", "done"}
    BY <1>1, <2>1, <2>3, <2>4, IdleNobody
  <2>6. QED
    BY <2>3, <2>5 DEF Idle
<1>2. Spec => []Counted /\ []Located
  BY CountedHolds, LocatedHolds
<1>3. QED
  BY <1>1, <1>2, BaseHolds, PTL
=============================================================================
