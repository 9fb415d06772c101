-------------------------- MODULE EventLockProofs --------------------------
(***************************************************************************)
(* Safety of std.event.Lock for any number of calls.                       *)
(*                                                                         *)
(* With any number of threads the lock excludes (Exclusive).  The          *)
(* inductive invariant is OneToken: exclusion between coroutines alone is  *)
(* not inductive, because the right to hand out the lock is for a while in *)
(* the hands of a release() or of a suspend block.                         *)
(*                                                                         *)
(* It also hands the lock on in order (InOrderOfArrival).                  *)
(*                                                                         *)
(* With one thread it also never strands a waiter and passes the assertion *)
(* of deinit (OneThreadSafe).  Two threads break both; the run             *)
(* lock_stranded shows the first.                                          *)
(***************************************************************************)
EXTENDS EventLock, TLAPS, FiniteSetTheorems

\* Taking one position out of the queue keeps its type.
LEMMA CutAtType ==
  ASSUME NEW S, NEW s \in Seq(S), NEW i \in 1..Len(s)
  PROVE  /\ CutAt(s, i) \in Seq(S)
         /\ Len(CutAt(s, i)) = Len(s) - 1
         /\ \A j \in 1..(Len(s) - 1) :
              CutAt(s, i)[j] = IF j < i THEN s[j] ELSE s[j + 1]
<1>1. Len(s) - 1 \in Nat
  OBVIOUS
<1>2. \A j \in 1..(Len(s) - 1) : (IF j < i THEN s[j] ELSE s[j + 1]) \in S
  OBVIOUS
<1>3. CutAt(s, i) \in [1..(Len(s) - 1) -> S]
  BY <1>2 DEF CutAt
<1>4. CutAt(s, i) \in Seq(S) /\ Len(CutAt(s, i)) = Len(s) - 1
  BY <1>1, <1>3
<1>5. QED
  BY <1>4 DEF CutAt

\* Every step keeps the types.
LEMMA TypeInductive == TypeOK /\ [Next]_vars => TypeOK'
<1> SUFFICES ASSUME TypeOK, [Next]_vars PROVE TypeOK'
  OBVIOUS
<1> USE DEF TypeOK, CoroStates, BlockStates, RelStates, bits
<1>0. queue # <<>> => Tail(queue) \in Seq(Calls) /\ Head(queue) \in Calls
  OBVIOUS
<1>1. ASSUME NEW c \in Calls, Acquire(c) PROVE TypeOK'
  BY <1>1 DEF Acquire
<1>2. ASSUME NEW c \in Calls, BlockStep(c) PROVE TypeOK'
  <2>1. CASE BlockMark(c)
    BY <2>1 DEF BlockMark
  <2>2. CASE BlockGrab(c)
    BY <2>2 DEF BlockGrab
  <2>3. CASE BlockGet(c)
    BY <1>0, <2>3 DEF BlockGet
  <2>4. QED
    BY <1>2, <2>1, <2>2, <2>3 DEF BlockStep
<1>3. ASSUME NEW c \in Calls, Resume(c) PROVE TypeOK'
  BY <1>3 DEF Resume
<1>4. ASSUME NEW c \in Calls, Cancel(c) PROVE TypeOK'
  <2>1. queue' \in Seq(Calls)
    BY <1>4, CutAtType DEF Cancel
  <2>2. QED
    BY <1>4, <2>1 DEF Cancel
<1>5. ASSUME NEW c \in Calls, Release(c) PROVE TypeOK'
  BY <1>0, <1>5 DEF Release
<1>6. ASSUME NEW c \in Calls, RelStep(c) PROVE TypeOK'
  <2>1. CASE RelMark(c)
    BY <2>1 DEF RelMark
  <2>2. CASE RelUnlock(c)
    BY <2>2 DEF RelUnlock
  <2>3. CASE RelCheck(c)
    BY <2>3 DEF RelCheck
  <2>4. CASE RelGrab(c)
    BY <2>4 DEF RelGrab
  <2>5. CASE RelGet(c)
    BY <1>0, <2>5 DEF RelGet
  <2>6. QED
    BY <1>6, <2>1, <2>2, <2>3, <2>4, <2>5 DEF RelStep
<1>7. CASE Deinit
  <2>1. coro' \in [Calls -> CoroStates]
    BY <1>7 DEF Deinit
  <2>2. queue' \in Seq(Calls)
    BY <1>7 DEF Deinit
  <2>3. QED
    BY <1>7, <2>1, <2>2 DEF Deinit
<1>8. CASE UNCHANGED vars
  BY <1>8 DEF vars
<1>9. QED
  BY <1>1, <1>2, <1>3, <1>4, <1>5, <1>6, <1>7, <1>8 DEF Next

\* The bits stay bits and every call is at a known place.
THEOREM TypeCorrect == Spec => []TypeOK
<1>1. Init => TypeOK
  BY DEF Init, init, initLocked, TypeOK, CoroStates, BlockStates, RelStates
<1>2. QED
  BY <1>1, TypeInductive, PTL DEF Spec

-----------------------------------------------------------------------------
\* In the queue exactly while waiting, and once.
LEMMA QueueInductive ==
  TypeOK /\ QueueHoldsWaiters /\ [Next]_vars => QueueHoldsWaiters'
<1> SUFFICES ASSUME TypeOK, QueueHoldsWaiters, [Next]_vars
             PROVE  QueueHoldsWaiters'
  OBVIOUS
<1> DEFINE len == Len(queue)
<1>t. /\ len \in Nat /\ queue \in Seq(Calls)
      /\ \A i \in 1..len : queue[i] \in Calls
      /\ coro \in [Calls -> CoroStates]
  BY DEF TypeOK
<1>q. /\ \A i, j \in 1..len : queue[i] = queue[j] => i = j
      /\ \A c \in Calls : Queued(c) <=> coro[c] = "queued"
  BY DEF QueueHoldsWaiters
<1>same. ASSUME queue' = queue,
                \A c \in Calls : coro'[c] = "queued" <=> coro[c] = "queued"
         PROVE  QueueHoldsWaiters'
  BY <1>same, <1>q DEF QueueHoldsWaiters, Queued
<1>head. queue # <<>> => /\ len >= 1 /\ Head(queue) = queue[1]
                         /\ Head(queue) \in Calls
                         /\ coro[Head(queue)] = "queued"
  <2>1. ASSUME queue # <<>> PROVE len >= 1 /\ Head(queue) = queue[1]
    BY <2>1, <1>t
  <2>2. ASSUME len >= 1 PROVE queue[1] \in Calls /\ coro[queue[1]] = "queued"
    BY <2>2, <1>t, <1>q DEF Queued
  <2>3. QED
    BY <2>1, <2>2
<1>cut. ASSUME NEW k \in 1..len, NEW h \in Calls, queue[k] = h,
               queue' = CutAt(queue, k),
               \A c \in Calls : coro'[c] = "queued" <=> coro[c] = "queued" /\ c # h
        PROVE  QueueHoldsWaiters'
  <2> HIDE DEF len
  <2>1. /\ Len(queue') = len - 1
        /\ \A j \in 1..(len - 1) :
             queue'[j] = IF j < k THEN queue[j] ELSE queue[j + 1]
    BY <1>t, <1>cut, CutAtType DEF len
  <2>2. ASSUME NEW i \in 1..(len - 1), NEW j \in 1..(len - 1),
               queue'[i] = queue'[j]
        PROVE  i = j
    BY <1>t, <1>q, <2>1, <2>2
  <2>3. ASSUME NEW c \in Calls, Queued(c)' PROVE Queued(c) /\ c # h
    <3>1. PICK j \in 1..(len - 1) : queue'[j] = c
      BY <2>1, <2>3 DEF Queued
    <3>2. CASE j < k
      BY <1>t, <1>q, <1>cut, <2>1, <3>1, <3>2 DEF Queued, len
    <3>3. CASE j >= k
      <4>1. j + 1 \in 1..len /\ queue[j + 1] = c /\ j + 1 # k
        BY <1>t, <1>cut, <2>1, <3>1, <3>3
      <4>2. QED
        BY <1>q, <1>cut, <4>1 DEF Queued, len
    <3>4. QED
      BY <1>t, <1>cut, <3>2, <3>3
  <2>4. ASSUME NEW c \in Calls, Queued(c), c # h PROVE Queued(c)'
    <3>1. PICK i \in 1..len : queue[i] = c
      BY <2>4 DEF Queued, len
    <3>2. CASE i < k
      BY <1>t, <1>cut, <2>1, <3>1, <3>2 DEF Queued
    <3>3. CASE i > k
      <4>1. i - 1 \in 1..(len - 1) /\ queue'[i - 1] = c
        BY <1>t, <1>cut, <2>1, <3>1, <3>3
      <4>2. QED
        BY <2>1, <4>1 DEF Queued
    <3>4. QED
      BY <1>t, <1>cut, <2>4, <3>1, <3>2, <3>3
  <2>5. QED
    BY <1>q, <1>cut, <2>1, <2>2, <2>3, <2>4 DEF QueueHoldsWaiters
<1>tail. ASSUME queue # <<>>, queue' = Tail(queue),
                \A c \in Calls :
                  coro'[c] = "queued" <=> coro[c] = "queued" /\ c # Head(queue)
         PROVE  QueueHoldsWaiters'
  <2>1. Tail(queue) = CutAt(queue, 1)
    <3>1. CutAt(queue, 1) = [j \in 1..(len - 1) |-> queue[j + 1]]
      BY <1>t DEF CutAt
    <3>2. QED
      BY <1>t, <1>tail, <1>head, <3>1, SMT
  <2>2. QED
    BY <1>tail, <1>head, <1>cut, <1>t, <2>1
<1> HIDE DEF len
<1>1. ASSUME NEW c \in Calls, Acquire(c) PROVE QueueHoldsWaiters'
  <2>1. ~Queued(c) /\ \A i \in 1..len : queue[i] # c
    BY <1>1, <1>q DEF Acquire, Queued, len
  <2>2. /\ Len(queue') = len + 1 /\ queue'[len + 1] = c
        /\ \A i \in 1..len : queue'[i] = queue[i]
    BY <1>1, <1>t DEF Acquire, len
  <2>3. \A d \in Calls : Queued(d)' <=> Queued(d) \/ d = c
    <3>1. ASSUME NEW d \in Calls, Queued(d) PROVE Queued(d)'
      BY <1>t, <2>2, <3>1 DEF Queued, len
    <3>2. Queued(c)'
      BY <1>t, <2>2 DEF Queued
    <3>3. ASSUME NEW d \in Calls, Queued(d)' PROVE Queued(d) \/ d = c
      BY <1>t, <2>2, <3>3 DEF Queued, len
    <3>4. QED
      BY <3>1, <3>2, <3>3
  <2>4. \A d \in Calls : coro'[d] = "queued" <=> coro[d] = "queued" \/ d = c
    BY <1>1, <1>t DEF Acquire
  <2>5. \A i, j \in 1..(len + 1) : queue'[i] = queue'[j] => i = j
    BY <1>t, <1>q, <2>1, <2>2
  <2>6. QED
    BY <1>q, <2>2, <2>3, <2>4, <2>5 DEF QueueHoldsWaiters
<1>2. ASSUME NEW c \in Calls, BlockStep(c) PROVE QueueHoldsWaiters'
  <2>1. CASE BlockMark(c) \/ BlockGrab(c)
    BY <1>same, <2>1 DEF BlockMark, BlockGrab
  <2>2. CASE BlockGet(c) /\ queue = <<>>
    BY <1>same, <2>2 DEF BlockGet
  <2>3. CASE BlockGet(c) /\ queue # <<>>
    <3>1. \A d \in Calls :
            coro'[d] = "queued" <=> coro[d] = "queued" /\ d # Head(queue)
      BY <1>t, <1>head, <2>3 DEF BlockGet
    <3>2. QED
      BY <1>tail, <2>3, <3>1 DEF BlockGet
  <2>4. QED
    BY <1>2, <2>1, <2>2, <2>3 DEF BlockStep
<1>3. ASSUME NEW c \in Calls, Resume(c) PROVE QueueHoldsWaiters'
  <2>1. \A d \in Calls : coro'[d] = "queued" <=> coro[d] = "queued"
    BY <1>3, <1>t DEF Resume
  <2>2. QED
    BY <1>same, <1>3, <2>1 DEF Resume
<1>4. ASSUME NEW c \in Calls, Cancel(c) PROVE QueueHoldsWaiters'
  <2>1. PICK k \in 1..len : queue[k] = c /\ queue' = CutAt(queue, k)
    BY <1>4 DEF Cancel, len
  <2>2. \A d \in Calls : coro'[d] = "queued" <=> coro[d] = "queued" /\ d # c
    BY <1>4, <1>t DEF Cancel
  <2>3. QED
    BY <1>cut, <2>1, <2>2
<1>5. ASSUME NEW c \in Calls, Release(c) PROVE QueueHoldsWaiters'
  <2>1. CASE queue = <<>>
    <3>1. \A d \in Calls : coro'[d] = "queued" <=> coro[d] = "queued"
      BY <1>5, <1>t, <2>1 DEF Release
    <3>2. QED
      BY <1>same, <1>5, <2>1, <3>1 DEF Release
  <2>2. CASE queue # <<>>
    <3>1. \A d \in Calls :
            coro'[d] = "queued" <=> coro[d] = "queued" /\ d # Head(queue)
      BY <1>5, <1>t, <1>head, <2>2 DEF Release
    <3>2. QED
      BY <1>tail, <1>5, <2>2, <3>1 DEF Release
  <2>3. QED
    BY <2>1, <2>2
<1>6. ASSUME NEW c \in Calls, RelStep(c) PROVE QueueHoldsWaiters'
  <2>1. CASE RelMark(c) \/ RelUnlock(c) \/ RelCheck(c) \/ RelGrab(c)
    BY <1>same, <2>1 DEF RelMark, RelUnlock, RelCheck, RelGrab
  <2>2. CASE RelGet(c) /\ queue = <<>>
    BY <1>same, <2>2 DEF RelGet
  <2>3. CASE RelGet(c) /\ queue # <<>>
    <3>1. \A d \in Calls :
            coro'[d] = "queued" <=> coro[d] = "queued" /\ d # Head(queue)
      BY <1>t, <1>head, <2>3 DEF RelGet
    <3>2. QED
      BY <1>tail, <2>3, <3>1 DEF RelGet
  <2>4. QED
    BY <1>6, <2>1, <2>2, <2>3 DEF RelStep
<1>7. CASE Deinit
  <2>1. Len(queue') = 0
    BY <1>7 DEF Deinit
  <2>2. \A c \in Calls : ~Queued(c)' /\ coro'[c] # "queued"
    BY <1>7, <1>t, <2>1 DEF Deinit, Queued
  <2>3. QED
    BY <2>1, <2>2 DEF QueueHoldsWaiters
<1>8. CASE UNCHANGED vars
  BY <1>same, <1>8 DEF vars
<1>9. QED
  BY <1>1, <1>2, <1>3, <1>4, <1>5, <1>6, <1>7, <1>8 DEF Next

\* A waiting coroutine is in the queue exactly once, every other coroutine is
\* not in it: none is resumed twice or after its cancellation.
THEOREM WaitersQueuedOnce == Spec => []QueueHoldsWaiters
<1>1. Init => QueueHoldsWaiters
  <2> SUFFICES ASSUME Init PROVE QueueHoldsWaiters
    OBVIOUS
  <2>1. Len(queue) = 0 /\ \A c \in Calls : coro[c] # "queued"
    BY DEF Init, init, initLocked
  <2>2. QED
    BY <2>1 DEF QueueHoldsWaiters, Queued
<1>2. QED
  BY <1>1, TypeCorrect, QueueInductive, PTL DEF Spec

-----------------------------------------------------------------------------
\* Every step moves the token, or creates it while shared_bit is 0, or drops
\* it: there are never two.
LEMMA TokenInductive ==
  TypeOK /\ QueueHoldsWaiters /\ OneToken /\ [Next]_vars => OneToken'
<1> SUFFICES ASSUME TypeOK, QueueHoldsWaiters, OneToken, [Next]_vars
             PROVE  OneToken'
  OBVIOUS
<1> USE DEF OneToken, Token, Places, bits
<1>t. /\ shared_bit \in {0, 1}
      /\ coro \in [Calls -> CoroStates]
      /\ block \in [Calls -> BlockStates]
      /\ rel \in [Calls -> RelStates]
  BY DEF TypeOK
<1>h. ASSUME queue # <<>>
      PROVE  Head(queue) \in Calls /\ coro[Head(queue)] = "queued"
  <2>1. Len(queue) >= 1 /\ Head(queue) = queue[1] /\ queue[1] \in Calls
    BY <1>h DEF TypeOK
  <2>2. QED
    BY <2>1 DEF QueueHoldsWaiters, Queued
<1>1. ASSUME NEW c \in Calls, Acquire(c) PROVE OneToken'
  BY <1>1, <1>t DEF Acquire
<1>2. ASSUME NEW c \in Calls, BlockMark(c) PROVE OneToken'
  BY <1>2, <1>t DEF BlockMark
<1>3. ASSUME NEW c \in Calls, BlockGrab(c) PROVE OneToken'
  BY <1>3, <1>t DEF BlockGrab
<1>4. ASSUME NEW c \in Calls, BlockGet(c) PROVE OneToken'
  BY <1>4, <1>t, <1>h DEF BlockGet
<1>5. ASSUME NEW c \in Calls, Resume(c) PROVE OneToken'
  BY <1>5, <1>t DEF Resume
<1>6. ASSUME NEW c \in Calls, Cancel(c) PROVE OneToken'
  BY <1>6, <1>t DEF Cancel
<1>7. ASSUME NEW c \in Calls, Release(c) PROVE OneToken'
  BY <1>7, <1>t, <1>h DEF Release
<1>8. ASSUME NEW c \in Calls, RelMark(c) PROVE OneToken'
  BY <1>8, <1>t DEF RelMark
<1>9. ASSUME NEW c \in Calls, RelUnlock(c) PROVE OneToken'
  BY <1>9, <1>t DEF RelUnlock
<1>10. ASSUME NEW c \in Calls, RelCheck(c) PROVE OneToken'
  BY <1>10, <1>t DEF RelCheck
<1>11. ASSUME NEW c \in Calls, RelGrab(c) PROVE OneToken'
  BY <1>11, <1>t DEF RelGrab
<1>12. ASSUME NEW c \in Calls, RelGet(c) PROVE OneToken'
  BY <1>12, <1>t, <1>h DEF RelGet
<1>13. CASE Deinit
  BY <1>13, <1>t DEF Deinit
<1>14. CASE UNCHANGED vars
  BY <1>14 DEF vars
<1>15. QED
  BY <1>1, <1>2, <1>3, <1>4, <1>5, <1>6, <1>7, <1>8, <1>9, <1>10, <1>11,
     <1>12, <1>13, <1>14
  DEF Next, BlockStep, RelStep

\* At most one actor may hand out the lock, and none while shared_bit is 0.
THEOREM TokenUnique == Spec => []OneToken
<1>1. Init => OneToken
  BY DEF Init, init, initLocked, OneToken, Token, Places
<1>2. QED
  BY <1>1, TypeCorrect, WaitersQueuedOnce, TokenInductive, PTL DEF Spec

\* std.event.Lock excludes for any number of calls and threads: at most one
\* coroutine has been given the lock and has not released it.
THEOREM Exclusive == Spec => []MutualExclusion
<1>1. OneToken => MutualExclusion
  BY DEF OneToken, MutualExclusion, Token, Places
<1>2. QED
  BY <1>1, TokenUnique, PTL

-----------------------------------------------------------------------------
(***************************************************************************)
(* Order.  Every call was put once, the queue is in the order of arrival,  *)
(* and whoever has been given the lock arrived before those still queued.  *)
(* The last part is what ResumedInOrder needs when the event loop resumes  *)
(* a coroutine some time after release() chose it.                         *)
(***************************************************************************)
InLine ==
  /\ \A m, n \in 1..Len(arrivals) : arrivals[m] = arrivals[n] => m = n
  /\ \A m \in 1..Len(arrivals) : coro[arrivals[m]] # "idle"
  /\ \A i, j \in 1..Len(queue) : \A m, n \in 1..Len(arrivals) :
       i < j /\ arrivals[m] = queue[i] /\ arrivals[n] = queue[j] => m < n
  /\ \A m, n \in 1..Len(arrivals) :
       coro[arrivals[m]] \in {"ticked", "held"} /\ coro[arrivals[n]] = "queued" => m < n

\* The head of the queue arrived before every other waiter.
LEMMA HeadFirst ==
  ASSUME TypeOK, QueueHoldsWaiters, InLine, queue # <<>>
  PROVE  /\ Head(queue) \in Calls /\ coro[Head(queue)] = "queued"
         /\ \A m, n \in 1..Len(arrivals) :
              arrivals[m] = Head(queue) /\ arrivals[n] # Head(queue)
                /\ coro[arrivals[n]] = "queued" => m < n
<1>1. /\ Len(queue) \in Nat /\ Len(queue) >= 1 /\ Head(queue) = queue[1]
      /\ queue[1] \in Calls /\ \A m \in 1..Len(arrivals) : arrivals[m] \in Calls
  BY DEF TypeOK
<1>2. coro[queue[1]] = "queued"
  BY <1>1 DEF QueueHoldsWaiters, Queued
<1>3. ASSUME NEW m \in 1..Len(arrivals), NEW n \in 1..Len(arrivals),
             arrivals[m] = queue[1], arrivals[n] # queue[1], coro[arrivals[n]] = "queued"
      PROVE  m < n
  <2>1. PICK k \in 1..Len(queue) : queue[k] = arrivals[n]
    BY <1>1, <1>3 DEF QueueHoldsWaiters, Queued
  <2>2. 1 < k /\ 1 \in 1..Len(queue)
    BY <1>1, <1>3, <2>1
  <2>3. QED
    BY <1>3, <2>1, <2>2 DEF InLine
<1>4. QED
  BY <1>1, <1>2, <1>3

\* Every step keeps the calls in line.
LEMMA InLineInductive ==
  TypeOK /\ QueueHoldsWaiters /\ InLine /\ [Next]_vars => InLine'
<1> SUFFICES ASSUME TypeOK, QueueHoldsWaiters, InLine, [Next]_vars PROVE InLine'
  OBVIOUS
<1>t. /\ Len(queue) \in Nat /\ queue \in Seq(Calls) /\ coro \in [Calls -> CoroStates]
      /\ Len(arrivals) \in Nat /\ arrivals \in Seq(Calls)
      /\ \A m \in 1..Len(arrivals) : arrivals[m] \in Calls
      /\ \A i \in 1..Len(queue) : queue[i] \in Calls
  BY DEF TypeOK
\* A step that takes at most one call out of the queue, without reordering it.
<1>cut. ASSUME arrivals' = arrivals, NEW k \in 1..Len(queue),
               queue' = CutAt(queue, k),
               \A c \in Calls : coro[c] # "idle" => coro'[c] # "idle",
               \A m, n \in 1..Len(arrivals) :
                 coro'[arrivals[m]] \in {"ticked", "held"} /\ coro'[arrivals[n]] = "queued"
                   => m < n
        PROVE  InLine'
  <2>1. /\ Len(queue') = Len(queue) - 1
        /\ \A j \in 1..(Len(queue) - 1) :
             queue'[j] = IF j < k THEN queue[j] ELSE queue[j + 1]
    <3>1. /\ Len(CutAt(queue, k)) = Len(queue) - 1
          /\ \A j \in 1..(Len(queue) - 1) :
               CutAt(queue, k)[j] = IF j < k THEN queue[j] ELSE queue[j + 1]
      BY <1>t, CutAtType
    <3>2. QED
      BY <1>cut, <3>1
  <2>2. ASSUME NEW i \in 1..(Len(queue) - 1), NEW j \in 1..(Len(queue) - 1), i < j
        PROVE  \E x, y \in 1..Len(queue) : x < y /\ queue'[i] = queue[x] /\ queue'[j] = queue[y]
    <3>1. CASE j < k
      <4>1. i \in 1..Len(queue) /\ j \in 1..Len(queue) /\ i < k
        BY <1>t, <2>2, <3>1
      <4>2. queue'[i] = queue[i] /\ queue'[j] = queue[j]
        BY <2>1, <3>1, <4>1
      <4>3. QED
        BY <2>2, <4>1, <4>2
    <3>2. CASE i < k /\ ~(j < k)
      <4>1. i \in 1..Len(queue) /\ j + 1 \in 1..Len(queue) /\ i < j + 1
        BY <1>t, <2>2
      <4>2. queue'[i] = queue[i] /\ queue'[j] = queue[j + 1]
        BY <2>1, <3>2
      <4>3. QED
        BY <4>1, <4>2
    <3>3. CASE ~(i < k)
      <4>1. i + 1 \in 1..Len(queue) /\ j + 1 \in 1..Len(queue) /\ i + 1 < j + 1
        BY <1>t, <2>2
      <4>2. queue'[i] = queue[i + 1] /\ queue'[j] = queue[j + 1]
        BY <1>cut, <2>1, <2>2, <3>3
      <4>3. QED
        BY <4>1, <4>2
    <3>4. QED
      BY <1>cut, <2>2, <3>1, <3>2, <3>3
  <2>3. \A i, j \in 1..Len(queue') : \A m, n \in 1..Len(arrivals) :
          i < j /\ arrivals[m] = queue'[i] /\ arrivals[n] = queue'[j] => m < n
    <3>1. ASSUME NEW i \in 1..(Len(queue) - 1), NEW j \in 1..(Len(queue) - 1), i < j,
                 NEW m \in 1..Len(arrivals), NEW n \in 1..Len(arrivals),
                 arrivals[m] = queue'[i], arrivals[n] = queue'[j]
          PROVE  m < n
      <4>1. PICK x, y \in 1..Len(queue) : x < y /\ queue'[i] = queue[x] /\ queue'[j] = queue[y]
        BY <2>2, <3>1
      <4>2. QED
        BY <3>1, <4>1 DEF InLine
    <3>2. QED
      BY <2>1, <3>1
  <2>4. QED
    BY <1>t, <1>cut, <2>3 DEF InLine
<1>same. ASSUME arrivals' = arrivals, queue' = queue,
                \A c \in Calls : coro[c] # "idle" => coro'[c] # "idle",
                \A c \in Calls : coro'[c] = "queued" => coro[c] = "queued",
                \A c \in Calls : coro'[c] \in {"ticked", "held"} => coro[c] \in {"ticked", "held"}
         PROVE  InLine'
  BY <1>same, <1>t DEF InLine
\* A step that gives the lock to the head of the queue.
<1>head. ASSUME queue # <<>>, arrivals' = arrivals, queue' = Tail(queue),
                \A c \in Calls : coro[c] # "idle" => coro'[c] # "idle",
                \A c \in Calls : coro'[c] = "queued" => coro[c] = "queued" /\ c # Head(queue),
                \A c \in Calls : coro'[c] \in {"ticked", "held"} =>
                                   coro[c] \in {"ticked", "held"} \/ c = Head(queue)
         PROVE  InLine'
  <2>1. 1 \in 1..Len(queue)
    BY <1>t, <1>head
  <2>2. Tail(queue) = CutAt(queue, 1)
    <3>1. CutAt(queue, 1) = [j \in 1..(Len(queue) - 1) |-> queue[j + 1]]
      BY <1>t DEF CutAt
    <3>2. QED
      BY <1>t, <1>head, <3>1, SMT
  <2>3. ASSUME NEW m \in 1..Len(arrivals), NEW n \in 1..Len(arrivals),
               coro'[arrivals[m]] \in {"ticked", "held"}, coro'[arrivals[n]] = "queued"
        PROVE  m < n
    <3>1. coro[arrivals[n]] = "queued" /\ arrivals[n] # Head(queue)
      BY <1>t, <1>head, <2>3
    <3>2. CASE arrivals[m] = Head(queue)
      BY <1>head, <3>1, <3>2, HeadFirst
    <3>3. CASE coro[arrivals[m]] \in {"ticked", "held"}
      BY <3>1, <3>3 DEF InLine
    <3>4. QED
      BY <1>t, <1>head, <2>3, <3>2, <3>3
  <2>4. QED
    BY <1>cut, <1>head, <2>1, <2>2, <2>3
<1>h. queue # <<>> => Head(queue) \in Calls /\ coro[Head(queue)] = "queued"
  BY HeadFirst
<1>1. ASSUME NEW c \in Calls, Acquire(c) PROVE InLine'
  <2>1. /\ Len(arrivals') = Len(arrivals) + 1 /\ arrivals'[Len(arrivals) + 1] = c
        /\ \A m \in 1..Len(arrivals) : arrivals'[m] = arrivals[m] /\ arrivals[m] # c
    BY <1>1, <1>t DEF Acquire, InLine
  <2>2. /\ Len(queue') = Len(queue) + 1 /\ queue'[Len(queue) + 1] = c
        /\ \A i \in 1..Len(queue) : queue'[i] = queue[i] /\ queue[i] # c
    BY <1>1, <1>t DEF Acquire, QueueHoldsWaiters, Queued
  <2>3. coro'[c] = "queued" /\ \A d \in Calls : d # c => coro'[d] = coro[d]
    BY <1>1, <1>t DEF Acquire
  <2>4. \A m \in 1..(Len(arrivals) + 1) : m \in 1..Len(arrivals) \/ m = Len(arrivals) + 1
    BY <1>t
  <2>5. \A i \in 1..(Len(queue) + 1) : i \in 1..Len(queue) \/ i = Len(queue) + 1
    BY <1>t
  <2>6. \A m, n \in 1..(Len(arrivals) + 1) : arrivals'[m] = arrivals'[n] => m = n
    BY <1>t, <2>1, <2>4 DEF InLine
  <2>7. \A m \in 1..(Len(arrivals) + 1) : coro'[arrivals'[m]] # "idle"
    BY <1>t, <2>1, <2>3, <2>4 DEF InLine
  <2>8. ASSUME NEW i \in 1..(Len(queue) + 1), NEW j \in 1..(Len(queue) + 1), i < j,
               NEW m \in 1..(Len(arrivals) + 1), NEW n \in 1..(Len(arrivals) + 1),
               arrivals'[m] = queue'[i], arrivals'[n] = queue'[j]
        PROVE  m < n
    <3>1. i \in 1..Len(queue) /\ m \in 1..Len(arrivals)
      BY <1>t, <2>1, <2>2, <2>4, <2>5, <2>8
    <3>2. CASE j \in 1..Len(queue)
      <4>1. n \in 1..Len(arrivals)
        BY <2>1, <2>2, <2>4, <2>8, <3>2
      <4>2. QED
        BY <2>1, <2>2, <2>8, <3>1, <3>2, <4>1 DEF InLine
    <3>3. CASE j = Len(queue) + 1
      <4>1. n = Len(arrivals) + 1
        BY <2>1, <2>2, <2>4, <2>8, <3>3
      <4>2. QED
        BY <1>t, <3>1, <4>1
    <3>4. QED
      BY <2>5, <3>2, <3>3
  <2>9. ASSUME NEW m \in 1..(Len(arrivals) + 1), NEW n \in 1..(Len(arrivals) + 1),
               coro'[arrivals'[m]] \in {"ticked", "held"}, coro'[arrivals'[n]] = "queued"
        PROVE  m < n
    <3>1. m \in 1..Len(arrivals) /\ coro[arrivals[m]] \in {"ticked", "held"}
      BY <1>t, <2>1, <2>3, <2>4, <2>9
    <3>2. CASE n \in 1..Len(arrivals)
      <4>1. coro[arrivals[n]] = "queued"
        BY <1>t, <2>1, <2>3, <2>9, <3>2
      <4>2. QED
        BY <3>1, <3>2, <4>1 DEF InLine
    <3>3. CASE n = Len(arrivals) + 1
      BY <1>t, <3>1, <3>3
    <3>4. QED
      BY <2>4, <3>2, <3>3
  <2>10. QED
    BY <2>1, <2>2, <2>6, <2>7, <2>8, <2>9 DEF InLine
<1>2. ASSUME NEW c \in Calls, BlockStep(c) PROVE InLine'
  <2>1. CASE BlockMark(c) \/ BlockGrab(c) \/ (BlockGet(c) /\ queue = <<>>)
    <3>1. arrivals' = arrivals /\ queue' = queue /\ coro' = coro
      BY <2>1 DEF BlockMark, BlockGrab, BlockGet
    <3>2. QED
      BY <1>same, <3>1
  <2>2. CASE BlockGet(c) /\ queue # <<>>
    <3>1. \A d \in Calls : coro'[d] = IF d = Head(queue) THEN "held" ELSE coro[d]
      BY <1>t, <1>h, <2>2 DEF BlockGet
    <3>2. QED
      BY <1>head, <2>2, <3>1 DEF BlockGet
  <2>3. QED
    BY <1>2, <2>1, <2>2 DEF BlockStep
<1>3. ASSUME NEW c \in Calls, Resume(c) PROVE InLine'
  <2>1. \A d \in Calls : coro'[d] = IF d = c THEN "held" ELSE coro[d]
    BY <1>3, <1>t DEF Resume
  <2>2. coro[c] = "ticked" /\ queue' = queue /\ arrivals' = arrivals
    BY <1>3 DEF Resume
  <2>3. QED
    BY <1>same, <2>1, <2>2
<1>4. ASSUME NEW c \in Calls, Cancel(c) PROVE InLine'
  <2>1. PICK k \in 1..Len(queue) : queue[k] = c /\ queue' = CutAt(queue, k)
    BY <1>4 DEF Cancel
  <2>2. arrivals' = arrivals /\ \A d \in Calls : coro'[d] = IF d = c THEN "cancelled" ELSE coro[d]
    BY <1>4, <1>t DEF Cancel
  <2>3. \A m, n \in 1..Len(arrivals) :
          coro'[arrivals[m]] \in {"ticked", "held"} /\ coro'[arrivals[n]] = "queued" => m < n
    BY <1>t, <2>2 DEF InLine
  <2>4. QED
    BY <1>cut, <2>1, <2>2, <2>3
<1>5. ASSUME NEW c \in Calls, Release(c) PROVE InLine'
  <2>1. CASE queue = <<>>
    <3>1. \A d \in Calls : coro'[d] = IF d = c THEN "released" ELSE coro[d]
      BY <1>5, <1>t, <2>1 DEF Release
    <3>2. queue' = queue /\ arrivals' = arrivals
      BY <1>5, <2>1 DEF Release
    <3>3. QED
      BY <1>same, <3>1, <3>2
  <2>2. CASE queue # <<>>
    <3>1. \A d \in Calls : coro'[d] = IF d = Head(queue) THEN "ticked"
                                      ELSE IF d = c THEN "released" ELSE coro[d]
      BY <1>5, <1>t, <1>h, <2>2 DEF Release
    <3>2. QED
      BY <1>5, <1>head, <2>2, <3>1 DEF Release
  <2>3. QED
    BY <2>1, <2>2
<1>6. ASSUME NEW c \in Calls, RelStep(c) PROVE InLine'
  <2>1. CASE \/ RelMark(c) \/ RelUnlock(c) \/ RelCheck(c) \/ RelGrab(c)
             \/ RelGet(c) /\ queue = <<>>
    <3>1. arrivals' = arrivals /\ queue' = queue /\ coro' = coro
      BY <2>1 DEF RelMark, RelUnlock, RelCheck, RelGrab, RelGet
    <3>2. QED
      BY <1>same, <3>1
  <2>2. CASE RelGet(c) /\ queue # <<>>
    <3>1. \A d \in Calls : coro'[d] = IF d = Head(queue) THEN "ticked" ELSE coro[d]
      BY <1>t, <1>h, <2>2 DEF RelGet
    <3>2. QED
      BY <1>head, <2>2, <3>1 DEF RelGet
  <2>3. QED
    BY <1>6, <2>1, <2>2 DEF RelStep
<1>7. CASE Deinit
  <2>1. /\ arrivals' = arrivals /\ Len(queue') = 0
        /\ \A c \in Calls : coro'[c] = IF coro[c] = "queued" THEN "cancelled" ELSE coro[c]
    BY <1>7 DEF Deinit
  <2>2. QED
    BY <1>t, <2>1 DEF InLine
<1>8. CASE UNCHANGED vars
  BY <1>same, <1>8 DEF vars
<1>9. QED
  BY <1>1, <1>2, <1>3, <1>4, <1>5, <1>6, <1>7, <1>8 DEF Next

\* Coroutines get the lock in the order in which they were queued, for any
\* number of calls and threads and whichever waiters are cancelled.
THEOREM InOrderOfArrival == Spec => ResumedInOrder
<1> DEFINE Step == \A i, j \in 1..Len(arrivals) :
                     /\ coro[arrivals[j]] # "held"
                     /\ coro'[arrivals[j]] = "held"
                     /\ i < j
                     => coro[arrivals[i]] \notin {"queued", "ticked"}
<1>1. Init => InLine
  <2> SUFFICES ASSUME Init PROVE InLine
    OBVIOUS
  <2>1. Len(queue) = 0 /\ Len(arrivals) = 0
    BY DEF Init
  <2>2. QED
    BY <2>1 DEF InLine
<1>2. ASSUME TypeOK, QueueHoldsWaiters, OneToken, InLine, [Next]_vars PROVE [Step]_vars
  <2> SUFFICES ASSUME NEW i \in 1..Len(arrivals), NEW j \in 1..Len(arrivals), i < j,
                      coro[arrivals[j]] # "held", coro'[arrivals[j]] = "held"
               PROVE  coro[arrivals[i]] \notin {"queued", "ticked"}
    OBVIOUS
  <2>t. /\ coro \in [Calls -> CoroStates] /\ i \in Nat /\ j \in Nat
        /\ arrivals[i] \in Calls /\ arrivals[j] \in Calls
        /\ arrivals[i] # arrivals[j]
    BY <1>2 DEF TypeOK, InLine
  <2>1. \/ Resume(arrivals[j])
        \/ \E c \in Calls : BlockGet(c) /\ queue # <<>> /\ arrivals[j] = Head(queue)
    <3>1. ASSUME coro'[arrivals[j]] = coro[arrivals[j]] PROVE FALSE
      BY <3>1
    <3>2. ASSUME NEW c \in Calls, Acquire(c) PROVE FALSE
      BY <2>t, <3>2 DEF Acquire
    <3>3. ASSUME NEW c \in Calls, BlockStep(c)
          PROVE  BlockGet(c) /\ queue # <<>> /\ arrivals[j] = Head(queue)
      BY <2>t, <3>1, <3>3 DEF BlockStep, BlockMark, BlockGrab, BlockGet
    <3>4. ASSUME NEW c \in Calls, Resume(c) PROVE Resume(arrivals[j])
      <4>1. c = arrivals[j]
        BY <2>t, <3>4 DEF Resume
      <4>2. QED
        BY <3>4, <4>1
    <3>5. ASSUME NEW c \in Calls, Cancel(c) PROVE FALSE
      BY <2>t, <3>5 DEF Cancel
    <3>6. ASSUME NEW c \in Calls, Release(c) PROVE FALSE
      BY <2>t, <3>6 DEF Release
    <3>7. ASSUME NEW c \in Calls, RelStep(c) PROVE FALSE
      BY <2>t, <3>7 DEF RelStep, RelMark, RelUnlock, RelCheck, RelGrab, RelGet
    <3>8. CASE Deinit
      BY <2>t, <3>8 DEF Deinit
    <3>9. CASE UNCHANGED vars
      BY <3>1, <3>9 DEF vars
    <3>10. QED
      BY <3>2, <3>3, <3>4, <3>5, <3>6, <3>7, <3>8, <3>9, <1>2 DEF Next
  <2>2. CASE Resume(arrivals[j])
    <3>1. coro[arrivals[j]] = "ticked"
      BY <2>2 DEF Resume
    <3>2. coro[arrivals[i]] # "queued"
      BY <1>2, <2>t, <3>1 DEF InLine
    <3>3. coro[arrivals[i]] # "ticked"
      <4>1. Token(arrivals[j], "coro")
        BY <3>1 DEF Token
      <4>2. coro[arrivals[i]] = "ticked" => Token(arrivals[i], "coro")
        BY DEF Token
      <4>3. QED
        BY <1>2, <2>t, <4>1, <4>2 DEF OneToken, Places
    <3>4. QED
      BY <3>2, <3>3
  <2>3. ASSUME NEW c \in Calls, BlockGet(c), queue # <<>>, arrivals[j] = Head(queue)
        PROVE  coro[arrivals[i]] \notin {"queued", "ticked"}
    <3>1. coro[arrivals[i]] # "queued"
      BY <1>2, <2>t, <2>3, HeadFirst
    <3>2. Token(c, "block")
      BY <2>3 DEF BlockGet, Token
    <3>3. coro[arrivals[i]] = "ticked" => Token(arrivals[i], "coro")
      BY DEF Token
    <3>4. QED
      BY <2>t, <3>1, <3>2, <3>3, <1>2 DEF OneToken, Places
  <2>4. QED
    BY <2>1, <2>2, <2>3
<1>3. Spec => []InLine
  BY <1>1, TypeCorrect, WaitersQueuedOnce, InLineInductive, PTL DEF Spec
<1>4. Spec => [][Step]_vars
  BY <1>2, <1>3, TypeCorrect, WaitersQueuedOnce, TokenUnique, PTL DEF Spec
<1>5. QED
  BY <1>4 DEF ResumedInOrder

-----------------------------------------------------------------------------
(***************************************************************************)
(* One thread.  A suspend block and a release() then run to their end      *)
(* before anything else starts, and Settled says what each leaves behind:  *)
(* shared_bit is 1 only while a coroutine has the lock, and nobody waits   *)
(* for a lock that is free.                                                *)
(***************************************************************************)
Idle == \A c \in Calls : block[c] = "none" /\ rel[c] = "none"

Given == \E c \in Calls : coro[c] \in {"ticked", "held"}

Alone ==
  \A c, d \in Calls :
    /\ block[c] # "none" /\ block[d] # "none" => c = d
    /\ rel[c] # "none" /\ rel[d] # "none" => c = d
    /\ block[c] # "none" => rel[d] = "none"

Settled ==
  /\ Idle => /\ shared_bit = 1 => Given
             /\ queue # <<>> => shared_bit = 1
  /\ \A c \in Calls :
       /\ block[c] \in {"mark", "grab"} => /\ shared_bit = 1 => Given
                                          /\ queue # <<>>
       /\ block[c] = "get" => queue # <<>>
       /\ rel[c] # "none" => queue = <<>>
       /\ rel[c] \in {"unlock", "check"} => queue_empty_bit = 1
       /\ rel[c] = "check" => shared_bit = 0
       /\ rel[c] \notin {"grab", "get"}

\* The strengthening that is inductive: it says nothing of larger loops.
OneThread == num_threads = 1 => Alone /\ Settled

\* With one thread, a thread is free only when nothing is in progress.
LEMMA FreeMeansIdle ==
  ASSUME num_threads = 1, ThreadFree
  PROVE  Idle
<1> DEFINE A == {c \in Calls : block[c] # "none"}
           R == {c \in Calls : rel[c] # "none"}
<1>1. IsFiniteSet(A) /\ IsFiniteSet(R)
  BY FS_Subset, LockAssumption
<1>2. IsFiniteSet({"acquire"}) /\ IsFiniteSet({"release"})
  BY FS_Singleton
<1>3. IsFiniteSet(A \X {"acquire"}) /\ IsFiniteSet(R \X {"release"})
  BY <1>1, <1>2, FS_Product
<1>4. IsFiniteSet(Busy)
  BY <1>3, FS_Union DEF Busy
<1>5. Cardinality(Busy) = 0
  BY <1>4, FS_CardinalityType DEF ThreadFree
<1>6. Busy = {}
  BY <1>4, <1>5, FS_EmptySet
<1>7. ASSUME NEW c \in Calls, block[c] # "none" PROVE FALSE
  <2>1. <<c, "acquire">> \in Busy
    BY <1>7 DEF Busy
  <2>2. QED
    BY <1>6, <2>1
<1>8. ASSUME NEW c \in Calls, rel[c] # "none" PROVE FALSE
  <2>1. <<c, "release">> \in Busy
    BY <1>8 DEF Busy
  <2>2. QED
    BY <1>6, <2>1
<1>9. QED
  BY <1>7, <1>8 DEF Idle

\* The number of threads of a loop never changes.
LEMMA ThreadsFixed == [Next]_vars => num_threads' = num_threads
<1> USE DEF Acquire, BlockStep, BlockMark, BlockGrab, BlockGet, Resume, Cancel,
            Release, RelStep, RelMark, RelUnlock, RelCheck, RelGrab, RelGet, Deinit
<1>1. QED
  BY DEF Next, vars

\* With one thread every step leaves the lock settled.
LEMMA SettledInductive ==
  TypeOK /\ QueueHoldsWaiters /\ OneToken /\ OneThread /\ [Next]_vars => OneThread'
<1> SUFFICES ASSUME TypeOK, QueueHoldsWaiters, OneToken, Alone, Settled,
                    num_threads = 1, [Next]_vars
             PROVE  Alone' /\ Settled'
  BY ThreadsFixed DEF OneThread
<1> USE DEF Alone, Settled, Idle, Given, bits
<1>t. /\ shared_bit \in {0, 1}
      /\ coro \in [Calls -> CoroStates]
      /\ block \in [Calls -> BlockStates]
      /\ rel \in [Calls -> RelStates]
      /\ queue \in Seq(Calls)
  BY DEF TypeOK
<1>h. ASSUME queue # <<>>
      PROVE  Head(queue) \in Calls /\ coro[Head(queue)] = "queued"
  <2>1. Len(queue) >= 1 /\ Head(queue) = queue[1] /\ queue[1] \in Calls
    BY <1>h DEF TypeOK
  <2>2. QED
    BY <2>1 DEF QueueHoldsWaiters, Queued
<1>g. shared_bit = 0 => ~Given
  BY DEF OneToken, Token, Places
<1>1. ASSUME NEW c \in Calls, Acquire(c) PROVE Alone' /\ Settled'
  <2>1. Idle
    BY <1>1, FreeMeansIdle DEF Acquire
  <2>2. queue' # <<>>
    <3>1. Len(queue') = Len(queue) + 1 /\ Len(queue) \in Nat
      BY <1>1, <1>t DEF Acquire
    <3>2. QED
      BY <3>1
  <2>3. QED
    BY <1>1, <1>t, <2>1, <2>2 DEF Acquire
<1>2. ASSUME NEW c \in Calls, BlockMark(c) PROVE Alone' /\ Settled'
  BY <1>2, <1>t DEF BlockMark
<1>3. ASSUME NEW c \in Calls, BlockGrab(c) PROVE Alone' /\ Settled'
  BY <1>3, <1>t DEF BlockGrab
<1>4. ASSUME NEW c \in Calls, BlockGet(c) PROVE Alone' /\ Settled'
  <2>1. queue # <<>> /\ shared_bit = 1
    BY <1>4, <1>t DEF BlockGet, OneToken, Token, Places
  <2>2. /\ block' = [block EXCEPT ![c] = "none"]
        /\ coro' = [coro EXCEPT ![Head(queue)] = "held"]
        /\ rel' = rel /\ shared_bit' = shared_bit
    BY <1>4, <2>1 DEF BlockGet
  <2>3. Given'
    BY <1>t, <1>h, <2>1, <2>2
  <2>4. QED
    BY <1>4, <1>t, <2>1, <2>2, <2>3 DEF BlockGet
<1>5. ASSUME NEW c \in Calls, Resume(c) PROVE Alone' /\ Settled'
  <2>1. Given'
    BY <1>5, <1>t DEF Resume
  <2>2. QED
    BY <1>5, <1>t, <2>1 DEF Resume
<1>6. ASSUME NEW c \in Calls, Cancel(c) PROVE Alone' /\ Settled'
  <2>1. Idle
    BY <1>6, FreeMeansIdle DEF Cancel
  <2>2. queue # <<>>
    BY <1>6, <1>t DEF Cancel
  <2>3. PICK d \in Calls : coro[d] \in {"ticked", "held"}
    BY <1>t, <2>1, <2>2
  <2>4. coro'[d] = coro[d]
    BY <1>6, <1>t, <2>3 DEF Cancel
  <2>5. QED
    BY <1>6, <1>t, <2>1, <2>2, <2>3, <2>4 DEF Cancel
<1>7. ASSUME NEW c \in Calls, Release(c) PROVE Alone' /\ Settled'
  <2>1. Idle
    BY <1>7, FreeMeansIdle DEF Release
  <2>2. shared_bit = 1
    BY <1>7, <1>t, <1>g DEF Release
  <2>3. CASE queue = <<>>
    BY <1>7, <1>t, <2>1, <2>2, <2>3 DEF Release
  <2>4. CASE queue # <<>>
    <3>1. Given'
      BY <1>7, <1>t, <1>h, <2>4 DEF Release
    <3>2. QED
      BY <1>7, <1>t, <2>1, <2>2, <2>4, <3>1 DEF Release
  <2>5. QED
    BY <2>3, <2>4
<1>8. ASSUME NEW c \in Calls, RelMark(c) PROVE Alone' /\ Settled'
  BY <1>8, <1>t DEF RelMark
<1>9. ASSUME NEW c \in Calls, RelUnlock(c) PROVE Alone' /\ Settled'
  BY <1>9, <1>t DEF RelUnlock
<1>10. ASSUME NEW c \in Calls, RelCheck(c) PROVE Alone' /\ Settled'
  BY <1>10, <1>t DEF RelCheck
<1>11. ASSUME NEW c \in Calls, RelGrab(c) \/ RelGet(c) PROVE FALSE
  BY <1>11 DEF RelGrab, RelGet
<1>12. CASE Deinit
  <2>1. \A c \in Calls : coro'[c] \in {"ticked", "held"}
                           <=> coro[c] \in {"ticked", "held"}
    BY <1>12, <1>t DEF Deinit
  <2>2. queue' = <<>> /\ UNCHANGED <<shared_bit, queue_empty_bit, block, rel>>
    BY <1>12 DEF Deinit
  <2>3. \A c \in Calls : coro[c] \notin {"ticked", "held"}
    BY <1>12 DEF Deinit, Quiet
  <2>4. Idle
    <3>1. Busy = {}
      BY <1>12 DEF Deinit, Quiet
    <3>2. \A c \in Calls : <<c, "acquire">> \notin Busy /\ <<c, "release">> \notin Busy
      BY <3>1
    <3>3. QED
      BY <3>2 DEF Busy
  <2>5. QED
    BY <2>1, <2>2, <2>3, <2>4
<1>13. CASE UNCHANGED vars
  BY <1>13 DEF vars
<1>14. QED
  BY <1>1, <1>2, <1>3, <1>4, <1>5, <1>6, <1>7, <1>8, <1>9, <1>10, <1>11,
     <1>12, <1>13
  DEF Next, BlockStep, RelStep

\* On a loop with one thread, for any number of calls: no waiter is left
\* behind when nothing will run any more, and the assertion of deinit holds.
THEOREM OneThreadSafe == Spec => []NoStrandedWaiter
<1>1. Init => OneThread
  BY DEF Init, init, initLocked, OneThread, Alone, Settled, Idle, Given
<1>2. TypeOK /\ OneThread => NoStrandedWaiter
  <2> SUFFICES ASSUME TypeOK, OneThread, num_threads = 1, Quiet
               PROVE  queue = <<>> /\ shared_bit = 0
    BY DEF NoStrandedWaiter, WaitersResumed
  <2>1. ~Given /\ Busy = {}
    BY DEF Quiet, Given
  <2>2. \A c \in Calls : <<c, "acquire">> \notin Busy /\ <<c, "release">> \notin Busy
    BY <2>1
  <2>3. Idle
    BY <2>2 DEF Idle, Busy
  <2>4. QED
    BY <2>1, <2>3 DEF OneThread, Settled, TypeOK
<1>3. QED
  BY <1>1, <1>2, TypeCorrect, WaitersQueuedOnce, TokenUnique, SettledInductive,
     PTL DEF Spec
=============================================================================
