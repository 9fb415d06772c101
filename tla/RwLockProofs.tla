---------------------------- MODULE RwLockProofs ----------------------------
(***************************************************************************)
(* Safety of std.event.RwLock for any number of readers and writers.       *)
(***************************************************************************)
EXTENDS RwLock, TLAPS, FiniteSetTheorems

(* Queues without repetitions: what put() and get() do. *)
InQueue(q, x) == \E i \in 1..Len(q) : q[i] = x

Distinct(q) == \A i, j \in 1..Len(q) : q[i] = q[j] => i = j

\* A new queue holds nothing.
LEMMA EmptyQueue == Distinct(<<>>) /\ \A x : ~InQueue(<<>>, x)
BY DEF Distinct, InQueue

\* put() adds one node behind the others.
LEMMA PutQueue ==
  ASSUME NEW S, NEW q \in Seq(S), NEW e \in S, Distinct(q), ~InQueue(q, e)
  PROVE  /\ Append(q, e) \in Seq(S) /\ Append(q, e) # <<>>
         /\ Distinct(Append(q, e))
         /\ \A x : InQueue(Append(q, e), x) <=> InQueue(q, x) \/ x = e
<1> DEFINE n == Len(q)
           p == Append(q, e)
<1>1. /\ n \in Nat /\ Len(p) = n + 1 /\ p[n + 1] = e /\ p \in Seq(S)
      /\ \A i \in 1..n : p[i] = q[i]
  OBVIOUS
<1>2. \A i \in 1..n : q[i] # e
  BY DEF InQueue
<1>3. \A i, j \in 1..n : q[i] = q[j] => i = j
  BY DEF Distinct
<1> HIDE DEF p, n
<1>4. \A i, j \in 1..(n + 1) : p[i] = p[j] => i = j
  BY <1>1, <1>2, <1>3
<1>5. ASSUME NEW x, \E i \in 1..n : q[i] = x PROVE \E i \in 1..(n + 1) : p[i] = x
  BY <1>1, <1>5
<1>6. ASSUME NEW x, \E i \in 1..(n + 1) : p[i] = x
      PROVE  (\E i \in 1..n : q[i] = x) \/ x = e
  BY <1>1, <1>6
<1>7. \E i \in 1..(n + 1) : p[i] = e
  BY <1>1
<1>8. p # <<>>
  BY <1>1
<1>9. QED
  BY <1>1, <1>4, <1>5, <1>6, <1>7, <1>8 DEF Distinct, InQueue, n, p

\* get() takes the first node and leaves the others.
LEMMA GetQueue ==
  ASSUME NEW S, NEW q \in Seq(S), q # <<>>, Distinct(q)
  PROVE  /\ Head(q) \in S /\ InQueue(q, Head(q))
         /\ Tail(q) \in Seq(S) /\ Len(Tail(q)) = Len(q) - 1
         /\ Distinct(Tail(q))
         /\ \A x : InQueue(Tail(q), x) <=> InQueue(q, x) /\ x # Head(q)
<1> DEFINE n == Len(q)
           p == Tail(q)
<1>1. /\ n \in Nat /\ n >= 1 /\ Len(p) = n - 1 /\ p \in Seq(S)
      /\ Head(q) = q[1] /\ q[1] \in S
      /\ \A i \in 1..(n - 1) : p[i] = q[i + 1]
  OBVIOUS
<1>2. \A i, j \in 1..n : q[i] = q[j] => i = j
  BY DEF Distinct
<1> HIDE DEF p, n
<1>3. \A i, j \in 1..(n - 1) : p[i] = p[j] => i = j
  BY <1>1, <1>2
<1>4. ASSUME NEW x, \E i \in 1..(n - 1) : p[i] = x
      PROVE  (\E i \in 1..n : q[i] = x) /\ x # q[1]
  <2>1. PICK i \in 1..(n - 1) : p[i] = x
    BY <1>4
  <2>2. i + 1 \in 1..n /\ q[i + 1] = x /\ i + 1 # 1
    BY <1>1, <2>1
  <2>3. QED
    BY <1>1, <1>2, <2>2
<1>5. ASSUME NEW x, \E i \in 1..n : q[i] = x, x # q[1]
      PROVE  \E i \in 1..(n - 1) : p[i] = x
  <2>1. PICK i \in 1..n : q[i] = x
    BY <1>5
  <2>2. i - 1 \in 1..(n - 1) /\ p[i - 1] = x
    BY <1>1, <1>5, <2>1
  <2>3. QED
    BY <2>2
<1>6. \E i \in 1..n : q[i] = q[1]
  BY <1>1
<1>7. QED
  BY <1>1, <1>3, <1>4, <1>5, <1>6 DEF Distinct, InQueue, n, p

-----------------------------------------------------------------------------

(***************************************************************************)
(* Where a call is.  The queues hold exactly the waiting coroutines; a     *)
(* release() belongs to a coroutine that has released; the node that a     *)
(* suspend block has taken as first_node is its own to resume.             *)
(***************************************************************************)
QueuesHoldWaiters ==
  /\ Distinct(reader_queue) /\ Distinct(writer_queue)
  /\ \A c \in Readers : InQueue(reader_queue, c) <=> coro[c] = "queued"
  /\ \A c \in Writers : InQueue(writer_queue, c) <=> coro[c] = "queued"

Located ==
  /\ \A c \in Readers : block[c] # "get" /\ (block[c] = "put" => coro[c] = "counted")
  /\ \A c \in Writers : /\ block[c] \in {"none", "mark", "cas", "get"}
                        /\ coro[c] \notin {"counted", "chosen"}
  /\ \A c \in Calls : rel[c] # "none" => coro[c] = "released"
  /\ \A c \in Readers :
       block[c] = "rest" => first_node[c] \in Readers /\ coro[first_node[c]] = "chosen"
  /\ \A c, d \in Readers :
       block[c] = "rest" /\ block[d] = "rest" /\ first_node[c] = first_node[d] => c = d

Counted == {c \in Readers : coro[c] \notin {"idle", "released"}}

Inv == TypeOK /\ QueuesHoldWaiters /\ Located /\ reader_lock_count = Cardinality(Counted)

\* The first node of a queue is that of a waiting coroutine.
LEMMA Heads ==
  ASSUME TypeOK, QueuesHoldWaiters
  PROVE  /\ reader_queue # <<>> =>
              /\ Head(reader_queue) \in Readers /\ coro[Head(reader_queue)] = "queued"
              /\ Tail(reader_queue) \in Seq(Readers)
         /\ writer_queue # <<>> =>
              /\ Head(writer_queue) \in Writers /\ coro[Head(writer_queue)] = "queued"
              /\ Tail(writer_queue) \in Seq(Writers)
<1>1. reader_queue \in Seq(Readers) /\ writer_queue \in Seq(Writers)
  BY DEF TypeOK
<1>2. QED
  BY <1>1, GetQueue DEF QueuesHoldWaiters

\* The count is a number, and not zero while a reader has the lock.
LEMMA CountPositive ==
  /\ IsFiniteSet(Counted)
  /\ Cardinality(Counted) \in Nat
  /\ Counted # {} => Cardinality(Counted) >= 1
<1>1. IsFiniteSet(Counted)
  BY RwLockAssumption, FS_Subset DEF Counted
<1>2. QED
  BY <1>1, FS_CardinalityType, FS_EmptySet

\* Every step keeps the types.
LEMMA TypeInductive == Inv /\ [Next]_vars => TypeOK'
<1> SUFFICES ASSUME Inv, [Next]_vars PROVE TypeOK'
  OBVIOUS
<1>t. TypeOK
  BY DEF Inv
<1>h. /\ reader_queue # <<>> =>
           Head(reader_queue) \in Readers /\ Tail(reader_queue) \in Seq(Readers)
      /\ writer_queue # <<>> =>
           Head(writer_queue) \in Writers /\ Tail(writer_queue) \in Seq(Writers)
  BY Heads DEF Inv
<1>c. Readers \subseteq Calls /\ Writers \subseteq Calls
  BY DEF Calls
<1> USE DEF TypeOK, CoroStates, BlockStates, RelStates, bits, queues, others,
            BlockTo, RelTo
<1>1. ASSUME NEW c \in Readers, AcquireRead(c) PROVE TypeOK'
  BY <1>t, <1>1, <1>c DEF AcquireRead
<1>2. ASSUME NEW c \in Readers, ReadBlockStep(c) PROVE TypeOK'
  <2>1. CASE ReadPut(c)
    BY <1>t, <1>c, <2>1 DEF ReadPut
  <2>2. CASE ReadMark(c)
    BY <1>t, <1>c, <2>2 DEF ReadMark
  <2>3. CASE ReadCas(c)
    BY <1>t, <1>c, <2>3 DEF ReadCas
  <2>4. CASE ReadFirst(c)
    <3>1. CASE reader_queue = <<>>
      BY <1>t, <1>c, <2>4, <3>1 DEF ReadFirst
    <3>2. CASE reader_queue # <<>>
      <4>1. /\ Tail(reader_queue) \in Seq(Readers)
            /\ [first_node EXCEPT ![c] = Head(reader_queue)]
                 \in [Calls -> Readers \cup {Nobody}]
            /\ [coro EXCEPT ![Head(reader_queue)] = "chosen"] \in [Calls -> CoroStates]
            /\ [block EXCEPT ![c] = "rest"] \in [Calls -> BlockStates]
        BY <1>t, <1>c, <1>h, <3>2
      <4>2. QED
        BY <1>t, <2>4, <3>2, <4>1 DEF ReadFirst
    <3>3. QED
      BY <3>1, <3>2
  <2>5. CASE ReadRest(c)
    <3>1. CASE reader_queue # <<>>
      BY <1>t, <1>c, <1>h, <2>5, <3>1 DEF ReadRest, TickReader
    <3>2. CASE reader_queue = <<>>
      <4>1. /\ [first_node EXCEPT ![c] = Nobody] \in [Calls -> Readers \cup {Nobody}]
            /\ [coro EXCEPT ![first_node[c]] = "held"] \in [Calls -> CoroStates]
            /\ [block EXCEPT ![c] = "none"] \in [Calls -> BlockStates]
        BY <1>t, <1>c
      <4>2. QED
        BY <1>t, <2>5, <3>2, <4>1 DEF ReadRest, TickReader
    <3>3. QED
      BY <3>1, <3>2
  <2>6. QED
    BY <1>2, <2>1, <2>2, <2>3, <2>4, <2>5 DEF ReadBlockStep
<1>3. ASSUME NEW c \in Readers, ReleaseRead(c) PROVE TypeOK'
  <2>1. reader_lock_count >= 1
    BY <1>3, CountPositive DEF ReleaseRead, Inv, Counted
  <2>2. reader_lock_count - 1 \in Nat
    BY <1>t, <2>1
  <2>3. QED
    BY <1>t, <1>c, <1>3, <2>2 DEF ReleaseRead
<1>4. ASSUME NEW c \in Writers, AcquireWrite(c) PROVE TypeOK'
  BY <1>t, <1>4, <1>c DEF AcquireWrite
<1>5. ASSUME NEW c \in Writers, WriteBlockStep(c) PROVE TypeOK'
  <2>1. CASE WriteMark(c)
    BY <1>t, <1>c, <2>1 DEF WriteMark
  <2>2. CASE WriteCas(c)
    BY <1>t, <1>c, <2>2 DEF WriteCas
  <2>3. CASE WriteGet(c)
    BY <1>t, <1>c, <1>h, <2>3 DEF WriteGet
  <2>4. QED
    BY <1>5, <2>1, <2>2, <2>3 DEF WriteBlockStep
<1>6. ASSUME NEW c \in Writers, ReleaseWrite(c) PROVE TypeOK'
  BY <1>t, <1>c, <1>h, <1>6, ZenonT(30) DEF ReleaseWrite, TickWriter
<1>7. ASSUME NEW c \in Calls, Resume(c) PROVE TypeOK'
  BY <1>t, <1>7 DEF Resume
<1>8. ASSUME NEW c \in Calls, RelStep(c) PROVE TypeOK'
  <2>1. CASE ReaderBit(c)
    BY <1>t, <2>1 DEF ReaderBit
  <2>2. CASE ReaderUnlock(c)
    BY <1>t, <2>2 DEF ReaderUnlock, RelCas
  <2>3. CASE WriteLoad(c)
    BY <1>t, <2>3 DEF WriteLoad, RelLoad
  <2>4. CASE WriteToRead(c)
    BY <1>t, <2>4 DEF WriteToRead
  <2>5. CASE DrainReaders(c)
    BY <1>t, <1>c, <1>h, <2>5 DEF DrainReaders, TickReader
  <2>6. CASE WriterBit(c)
    BY <1>t, <2>6 DEF WriterBit
  <2>7. CASE WriterUnlock(c)
    BY <1>t, <2>7 DEF WriterUnlock
  <2>8. CASE PostWriters(c)
    BY <1>t, <2>8 DEF PostWriters, RelLoad
  <2>9. CASE PostWriteCas(c)
    BY <1>t, <2>9 DEF PostWriteCas, RelCas
  <2>10. CASE PostWriteGet(c)
    <3>1. CASE TickWriter(c) /\ RelTo(c, "none")
      <4>1. /\ [coro EXCEPT ![c] = "released", ![Head(writer_queue)] = "ticked"]
                 \in [Calls -> CoroStates]
            /\ [rel EXCEPT ![c] = "none"] \in [Calls -> RelStates]
        BY <1>t
      <4>2. writer_queue' \in Seq(Writers)
        BY <1>h, <3>1 DEF TickWriter
      <4>3. QED
        BY <1>t, <2>10, <3>1, <4>1, <4>2 DEF PostWriteGet, TickWriter
    <3>2. CASE RelTo(c, "pw_bit") /\ UNCHANGED <<writer_queue, coro>>
      BY <1>t, <2>10, <3>2 DEF PostWriteGet
    <3>3. QED
      BY <2>10, <3>1, <3>2 DEF PostWriteGet
  <2>11. CASE PostReaders(c)
    BY <1>t, <2>11 DEF PostReaders, RelLoad
  <2>12. CASE PostReadCas(c)
    BY <1>t, <2>12 DEF PostReadCas, RelCas
  <2>13. CASE PostReadFirst(c)
    <3>1. CASE TickReader /\ RelTo(c, "drain")
      <4>1. /\ [coro EXCEPT ![Head(reader_queue)] = "ticked"] \in [Calls -> CoroStates]
            /\ [rel EXCEPT ![c] = "drain"] \in [Calls -> RelStates]
        BY <1>t
      <4>2. reader_queue' \in Seq(Readers)
        BY <1>h, <3>1 DEF TickReader
      <4>3. QED
        BY <1>t, <2>13, <3>1, <4>1, <4>2 DEF PostReadFirst, TickReader
    <3>2. CASE RelTo(c, "pr_bit") /\ UNCHANGED <<reader_queue, coro>>
      BY <1>t, <2>13, <3>2 DEF PostReadFirst
    <3>3. QED
      BY <2>13, <3>1, <3>2 DEF PostReadFirst
  <2>14. QED
    BY <1>8, <2>1, <2>2, <2>3, <2>4, <2>5, <2>6, <2>7, <2>8, <2>9, <2>10, <2>11,
       <2>12, <2>13 DEF RelStep
<1>9. CASE Deinit
  <2>1. coro' \in [Calls -> CoroStates]
    BY <1>t, <1>9 DEF Deinit
  <2>2. writer_queue' \in Seq(Writers) /\ reader_queue' \in Seq(Readers)
    BY <1>9 DEF Deinit
  <2>3. QED
    BY <1>t, <1>9, <2>1, <2>2 DEF Deinit
<1>10. CASE UNCHANGED vars
  BY <1>t, <1>10 DEF vars
<1>11. QED
  BY <1>1, <1>2, <1>3, <1>4, <1>5, <1>6, <1>7, <1>8, <1>9, <1>10 DEF Next

-----------------------------------------------------------------------------
\* A coroutine enters a queue when it begins to wait and leaves it when it is
\* handed on.
LEMMA QueuesInductive == Inv /\ [Next]_vars => QueuesHoldWaiters'
<1> SUFFICES ASSUME Inv, [Next]_vars PROVE QueuesHoldWaiters'
  OBVIOUS
<1>t. /\ reader_queue \in Seq(Readers) /\ writer_queue \in Seq(Writers)
      /\ coro \in [Calls -> CoroStates] /\ Readers \cap Writers = {}
      /\ Readers \subseteq Calls /\ Writers \subseteq Calls
  BY RwLockAssumption DEF Inv, TypeOK, Calls
<1>q. /\ Distinct(reader_queue) /\ Distinct(writer_queue)
      /\ \A c \in Readers : InQueue(reader_queue, c) <=> coro[c] = "queued"
      /\ \A c \in Writers : InQueue(writer_queue, c) <=> coro[c] = "queued"
  BY DEF Inv, QueuesHoldWaiters
<1>l. Located
  BY DEF Inv
<1>h. /\ reader_queue # <<>> =>
           Head(reader_queue) \in Readers /\ coro[Head(reader_queue)] = "queued"
      /\ writer_queue # <<>> =>
           Head(writer_queue) \in Writers /\ coro[Head(writer_queue)] = "queued"
  BY Heads DEF Inv
<1>same. ASSUME UNCHANGED queues,
                \A c \in Calls : coro'[c] = "queued" <=> coro[c] = "queued"
         PROVE  QueuesHoldWaiters'
  BY <1>same, <1>q, <1>t DEF QueuesHoldWaiters, queues
<1>rput. ASSUME NEW c \in Readers, coro[c] # "queued", UNCHANGED writer_queue,
                reader_queue' = Append(reader_queue, c),
                coro' = [coro EXCEPT ![c] = "queued"]
         PROVE  QueuesHoldWaiters'
  <2>1. /\ Distinct(reader_queue')
        /\ \A x : InQueue(reader_queue', x) <=> InQueue(reader_queue, x) \/ x = c
    BY <1>rput, <1>t, <1>q, PutQueue
  <2>2. QED
    BY <1>rput, <1>t, <1>q, <2>1 DEF QueuesHoldWaiters
<1>wput. ASSUME NEW c \in Writers, coro[c] # "queued", UNCHANGED reader_queue,
                writer_queue' = Append(writer_queue, c),
                coro' = [coro EXCEPT ![c] = "queued"]
         PROVE  QueuesHoldWaiters'
  <2>1. /\ Distinct(writer_queue')
        /\ \A x : InQueue(writer_queue', x) <=> InQueue(writer_queue, x) \/ x = c
    BY <1>wput, <1>t, <1>q, PutQueue
  <2>2. QED
    BY <1>wput, <1>t, <1>q, <2>1 DEF QueuesHoldWaiters
<1>rget. ASSUME reader_queue # <<>>, UNCHANGED writer_queue,
                reader_queue' = Tail(reader_queue),
                NEW to \in CoroStates \ {"queued"},
                coro' = [coro EXCEPT ![Head(reader_queue)] = to]
         PROVE  QueuesHoldWaiters'
  <2>1. /\ Distinct(reader_queue')
        /\ \A x : InQueue(reader_queue', x) <=>
                    InQueue(reader_queue, x) /\ x # Head(reader_queue)
    BY <1>rget, <1>t, <1>q, GetQueue
  <2>2. QED
    BY <1>rget, <1>t, <1>q, <1>h, <2>1 DEF QueuesHoldWaiters
<1>wget. ASSUME writer_queue # <<>>, UNCHANGED reader_queue,
                writer_queue' = Tail(writer_queue),
                \A c \in Calls :
                  coro'[c] = "queued" <=> coro[c] = "queued" /\ c # Head(writer_queue)
         PROVE  QueuesHoldWaiters'
  <2>1. /\ Distinct(writer_queue')
        /\ \A x : InQueue(writer_queue', x) <=>
                    InQueue(writer_queue, x) /\ x # Head(writer_queue)
    BY <1>wget, <1>t, <1>q, GetQueue
  <2>2. QED
    BY <1>wget, <1>t, <1>q, <1>h, <2>1 DEF QueuesHoldWaiters
<1>s. {"chosen", "ticked", "held"} \subseteq CoroStates \ {"queued"}
  BY DEF CoroStates
<1>tick. ASSUME TickReader, UNCHANGED writer_queue PROVE QueuesHoldWaiters'
  BY <1>tick, <1>rget, <1>s DEF TickReader
<1> USE DEF queues, BlockTo, RelTo
<1>1. ASSUME NEW c \in Readers, AcquireRead(c) PROVE QueuesHoldWaiters'
  BY <1>1, <1>same, <1>t DEF AcquireRead
<1>2. ASSUME NEW c \in Readers, ReadBlockStep(c) PROVE QueuesHoldWaiters'
  <2>1. CASE ReadPut(c)
    BY <2>1, <1>rput, <1>l DEF ReadPut, Located
  <2>2. CASE ReadMark(c) \/ ReadCas(c)
    BY <2>2, <1>same DEF ReadMark, ReadCas
  <2>3. CASE ReadFirst(c)
    BY <2>3, <1>same, <1>rget, <1>s DEF ReadFirst
  <2>4. CASE ReadRest(c)
    <3>1. CASE TickReader
      BY <2>4, <3>1, <1>tick DEF ReadRest
    <3>2. CASE ~TickReader
      <4>1. coro[first_node[c]] = "chosen" /\ first_node[c] \in Readers
        BY <2>4, <1>l DEF ReadRest, Located
      <4>2. coro' = [coro EXCEPT ![first_node[c]] = "held"] /\ UNCHANGED queues
        BY <2>4, <3>2 DEF ReadRest
      <4>3. QED
        BY <4>1, <4>2, <1>same, <1>t
    <3>3. QED
      BY <3>1, <3>2
  <2>5. QED
    BY <1>2, <2>1, <2>2, <2>3, <2>4 DEF ReadBlockStep
<1>3. ASSUME NEW c \in Readers, ReleaseRead(c) PROVE QueuesHoldWaiters'
  BY <1>3, <1>same, <1>t DEF ReleaseRead
<1>4. ASSUME NEW c \in Writers, AcquireWrite(c) PROVE QueuesHoldWaiters'
  BY <1>4, <1>wput DEF AcquireWrite
<1>5. ASSUME NEW c \in Writers, WriteBlockStep(c) PROVE QueuesHoldWaiters'
  <2>1. CASE WriteMark(c) \/ WriteCas(c)
    BY <2>1, <1>same DEF WriteMark, WriteCas
  <2>2. CASE WriteGet(c) /\ writer_queue = <<>>
    BY <2>2, <1>same DEF WriteGet
  <2>3. CASE WriteGet(c) /\ writer_queue # <<>>
    <3>1. \A d \in Calls :
            coro'[d] = "queued" <=> coro[d] = "queued" /\ d # Head(writer_queue)
      BY <2>3, <1>t, <1>h DEF WriteGet
    <3>2. QED
      BY <2>3, <3>1, <1>wget DEF WriteGet
  <2>4. QED
    BY <1>5, <2>1, <2>2, <2>3 DEF WriteBlockStep
<1>tickw. ASSUME NEW c \in Calls, TickWriter(c), coro[c] # "queued", UNCHANGED reader_queue
          PROVE  QueuesHoldWaiters'
  <2>1. \A d \in Calls :
          coro'[d] = "queued" <=> coro[d] = "queued" /\ d # Head(writer_queue)
    BY <1>tickw, <1>t, <1>h DEF TickWriter
  <2>2. QED
    BY <1>tickw, <2>1, <1>wget DEF TickWriter
<1>6. ASSUME NEW c \in Writers, ReleaseWrite(c) PROVE QueuesHoldWaiters'
  <2>1. c \in Calls /\ coro[c] = "held" /\ UNCHANGED reader_queue
    BY <1>6, <1>t DEF ReleaseWrite
  <2>2. CASE TickWriter(c)
    BY <2>1, <2>2, <1>tickw
  <2>3. CASE ~TickWriter(c)
    BY <1>6, <2>1, <2>3, <1>same, <1>t DEF ReleaseWrite
  <2>4. QED
    BY <2>2, <2>3
<1>7. ASSUME NEW c \in Calls, Resume(c) PROVE QueuesHoldWaiters'
  BY <1>7, <1>same, <1>t DEF Resume
<1>8. ASSUME NEW c \in Calls, RelStep(c) PROVE QueuesHoldWaiters'
  <2>1. CASE \/ ReaderBit(c) \/ ReaderUnlock(c) \/ WriteLoad(c) \/ WriteToRead(c)
             \/ WriterBit(c) \/ WriterUnlock(c) \/ PostWriters(c) \/ PostWriteCas(c)
             \/ PostReaders(c) \/ PostReadCas(c)
    <3>1. UNCHANGED <<queues, coro>>
      BY <2>1 DEF ReaderBit, ReaderUnlock, WriteLoad, WriteToRead, WriterBit,
                  WriterUnlock, PostWriters, PostWriteCas, PostReaders, PostReadCas,
                  RelCas, RelLoad
    <3>2. QED
      BY <3>1, <1>same
  <2>2. CASE DrainReaders(c) \/ PostReadFirst(c)
    BY <2>2, <1>same, <1>tick DEF DrainReaders, PostReadFirst
  <2>3. CASE PostWriteGet(c)
    <3>1. coro[c] # "queued"
      BY <2>3, <1>l DEF PostWriteGet, Located
    <3>2. CASE TickWriter(c)
      BY <2>3, <3>1, <3>2, <1>tickw DEF PostWriteGet
    <3>3. CASE ~TickWriter(c)
      BY <2>3, <3>3, <1>same DEF PostWriteGet
    <3>4. QED
      BY <3>2, <3>3
  <2>4. QED
    BY <1>8, <2>1, <2>2, <2>3 DEF RelStep
<1>9. CASE Deinit
  <2>1. reader_queue' = <<>> /\ writer_queue' = <<>>
    BY <1>9 DEF Deinit
  <2>2. \A c \in Calls : coro'[c] # "queued"
    BY <1>9 DEF Deinit
  <2>3. QED
    BY <1>t, <2>1, <2>2, EmptyQueue DEF QueuesHoldWaiters
<1>10. CASE UNCHANGED vars
  BY <1>10, <1>same DEF vars
<1>11. QED
  BY <1>1, <1>2, <1>3, <1>4, <1>5, <1>6, <1>7, <1>8, <1>9, <1>10 DEF Next

-----------------------------------------------------------------------------
\* The places of the coroutines, suspend blocks and releases stay consistent.
LEMMA LocatedInductive == Inv /\ [Next]_vars => Located'
<1> SUFFICES ASSUME Inv, [Next]_vars PROVE Located'
  OBVIOUS
<1>t. /\ coro \in [Calls -> CoroStates] /\ block \in [Calls -> BlockStates]
      /\ rel \in [Calls -> RelStates] /\ first_node \in [Calls -> Readers \cup {Nobody}]
      /\ Readers \cap Writers = {}
      /\ Readers \subseteq Calls /\ Writers \subseteq Calls
  BY RwLockAssumption DEF Inv, TypeOK, Calls
<1>l. Located
  BY DEF Inv
<1>h. /\ reader_queue # <<>> =>
           Head(reader_queue) \in Readers /\ coro[Head(reader_queue)] = "queued"
      /\ writer_queue # <<>> =>
           Head(writer_queue) \in Writers /\ coro[Head(writer_queue)] = "queued"
  BY Heads DEF Inv
<1> USE DEF Located, others, BlockTo, RelTo
<1>1. ASSUME NEW c \in Readers, AcquireRead(c) PROVE Located'
  BY <1>1, <1>t, <1>l DEF AcquireRead
<1>2. ASSUME NEW c \in Readers, ReadBlockStep(c) PROVE Located'
  <2>1. CASE ReadPut(c)
    BY <2>1, <1>t, <1>l DEF ReadPut
  <2>2. CASE ReadMark(c)
    BY <2>2, <1>t, <1>l DEF ReadMark
  <2>3. CASE ReadCas(c)
    BY <2>3, <1>t, <1>l DEF ReadCas
  <2>4. CASE ReadFirst(c)
    <3>1. CASE reader_queue = <<>>
      BY <2>4, <1>t, <1>l, <3>1 DEF ReadFirst
    <3>2. CASE reader_queue # <<>>
      <4>1. /\ coro' = [coro EXCEPT ![Head(reader_queue)] = "chosen"]
            /\ block' = [block EXCEPT ![c] = "rest"]
            /\ first_node' = [first_node EXCEPT ![c] = Head(reader_queue)]
            /\ rel' = rel /\ block[c] = "first"
        BY <2>4, <3>2 DEF ReadFirst
      <4>2. /\ \A d \in Calls : d # Head(reader_queue) => coro'[d] = coro[d]
            /\ coro'[Head(reader_queue)] = "chosen"
        BY <1>t, <1>h, <3>2, <4>1
      <4>3. /\ \A d \in Readers : d # c => block'[d] = block[d] /\ first_node'[d] = first_node[d]
            /\ block'[c] = "rest" /\ first_node'[c] = Head(reader_queue)
        BY <1>t, <4>1
      <4>4. \A d \in Writers : block'[d] = block[d] /\ coro'[d] = coro[d]
        BY <1>t, <1>h, <3>2, <4>1
      <4>5. QED
        BY <1>t, <1>l, <1>h, <3>2, <4>1, <4>2, <4>3, <4>4
    <3>3. QED
      BY <3>1, <3>2
  <2>5. CASE ReadRest(c)
    <3>1. CASE reader_queue # <<>>
      BY <2>5, <1>t, <1>l, <1>h, <3>1 DEF ReadRest, TickReader
    <3>2. CASE reader_queue = <<>>
      <4>1. /\ coro' = [coro EXCEPT ![first_node[c]] = "held"]
            /\ block' = [block EXCEPT ![c] = "none"]
            /\ first_node' = [first_node EXCEPT ![c] = Nobody]
            /\ rel' = rel /\ block[c] = "rest"
        BY <2>5, <3>2 DEF ReadRest, TickReader
      <4>2. \A d \in Calls : d # first_node[c] => coro'[d] = coro[d]
        BY <1>t, <4>1
      <4>3. \A d \in Readers : d # c => block'[d] = block[d] /\ first_node'[d] = first_node[d]
        BY <1>t, <4>1
      <4>4. first_node[c] \in Readers /\ coro[first_node[c]] = "chosen" /\ block'[c] = "none"
        BY <1>t, <1>l, <4>1
      <4>5. QED
        BY <1>t, <1>l, <4>1, <4>2, <4>3, <4>4
    <3>3. QED
      BY <3>1, <3>2
  <2>6. QED
    BY <1>2, <2>1, <2>2, <2>3, <2>4, <2>5 DEF ReadBlockStep
<1>3. ASSUME NEW c \in Readers, ReleaseRead(c) PROVE Located'
  BY <1>3, <1>t, <1>l DEF ReleaseRead
<1>4. ASSUME NEW c \in Writers, AcquireWrite(c) PROVE Located'
  BY <1>4, <1>t, <1>l DEF AcquireWrite
<1>5. ASSUME NEW c \in Writers, WriteBlockStep(c) PROVE Located'
  <2>1. CASE WriteMark(c)
    BY <2>1, <1>t, <1>l DEF WriteMark
  <2>2. CASE WriteCas(c)
    BY <2>2, <1>t, <1>l DEF WriteCas
  <2>3. CASE WriteGet(c)
    BY <2>3, <1>t, <1>l, <1>h DEF WriteGet
  <2>4. QED
    BY <1>5, <2>1, <2>2, <2>3 DEF WriteBlockStep
<1>6. ASSUME NEW c \in Writers, ReleaseWrite(c) PROVE Located'
  BY <1>6, <1>t, <1>l, <1>h DEF ReleaseWrite, TickWriter
<1>7. ASSUME NEW c \in Calls, Resume(c) PROVE Located'
  BY <1>7, <1>t, <1>l DEF Resume
<1>8. ASSUME NEW c \in Calls, RelStep(c) PROVE Located'
  <2>1. CASE \/ ReaderBit(c) \/ ReaderUnlock(c) \/ WriteLoad(c) \/ WriteToRead(c)
             \/ WriterBit(c) \/ WriterUnlock(c) \/ PostWriters(c) \/ PostWriteCas(c)
             \/ PostReaders(c) \/ PostReadCas(c)
    <3>1. UNCHANGED <<block, coro, first_node>> /\ rel[c] # "none"
          /\ \A d \in Calls : d # c => rel'[d] = rel[d]
      BY <2>1, <1>t DEF ReaderBit, ReaderUnlock, WriteLoad, WriteToRead, WriterBit,
                  WriterUnlock, PostWriters, PostWriteCas, PostReaders, PostReadCas,
                  RelCas, RelLoad
    <3>2. QED
      BY <3>1, <1>t, <1>l
  <2>2. CASE DrainReaders(c)
    BY <2>2, <1>t, <1>l, <1>h DEF DrainReaders, TickReader
  <2>3. CASE PostReadFirst(c)
    BY <2>3, <1>t, <1>l, <1>h DEF PostReadFirst, TickReader
  <2>4. CASE PostWriteGet(c)
    BY <2>4, <1>t, <1>l, <1>h DEF PostWriteGet, TickWriter
  <2>5. QED
    BY <1>8, <2>1, <2>2, <2>3, <2>4 DEF RelStep
<1>9. CASE Deinit
  <2>1. \A c \in Calls : coro[c] # "queued" => coro'[c] = coro[c]
    BY <1>9 DEF Deinit
  <2>2. \A c \in Writers : coro'[c] \notin {"counted", "chosen"}
    BY <1>9, <1>t, <1>l DEF Deinit
  <2>3. UNCHANGED <<block, rel, first_node>>
    BY <1>9 DEF Deinit
  <2>4. QED
    BY <1>t, <1>l, <2>1, <2>2, <2>3
<1>10. CASE UNCHANGED vars
  BY <1>10, <1>l DEF vars
<1>11. QED
  BY <1>1, <1>2, <1>3, <1>4, <1>5, <1>6, <1>7, <1>8, <1>9, <1>10 DEF Next

-----------------------------------------------------------------------------
\* acquireRead() counts its coroutine, release() uncounts it and nothing else
\* changes whether a reader is counted.
LEMMA CountInductive ==
  Inv /\ [Next]_vars => reader_lock_count' = Cardinality(Counted')
<1> SUFFICES ASSUME Inv, [Next]_vars PROVE reader_lock_count' = Cardinality(Counted')
  OBVIOUS
<1>t. /\ coro \in [Calls -> CoroStates]
      /\ Readers \cap Writers = {}
      /\ Readers \subseteq Calls /\ Writers \subseteq Calls
  BY RwLockAssumption DEF Inv, TypeOK, Calls
<1>l. Located /\ reader_lock_count = Cardinality(Counted)
  BY DEF Inv
<1>h. /\ reader_queue # <<>> =>
           Head(reader_queue) \in Readers /\ coro[Head(reader_queue)] = "queued"
      /\ writer_queue # <<>> =>
           Head(writer_queue) \in Writers /\ coro[Head(writer_queue)] = "queued"
  BY Heads DEF Inv
<1>same. ASSUME UNCHANGED reader_lock_count,
                \A c \in Readers : coro'[c] \in {"idle", "released"}
                                     <=> coro[c] \in {"idle", "released"}
         PROVE  reader_lock_count' = Cardinality(Counted')
  <2>1. Counted' = Counted
    BY <1>same DEF Counted
  <2>2. QED
    BY <1>same, <1>l, <2>1
<1>tick. ASSUME TickReader, UNCHANGED reader_lock_count
         PROVE  reader_lock_count' = Cardinality(Counted')
  BY <1>tick, <1>same, <1>t, <1>h DEF TickReader
<1>tickw. ASSUME NEW c \in Calls, TickWriter(c), UNCHANGED reader_lock_count,
                 c \in Readers => coro[c] = "released"
         PROVE  reader_lock_count' = Cardinality(Counted')
  BY <1>tickw, <1>same, <1>t, <1>h DEF TickWriter
<1> USE DEF BlockTo, RelTo
<1>1. ASSUME NEW c \in Readers, AcquireRead(c)
      PROVE  reader_lock_count' = Cardinality(Counted')
  <2>1. Counted' = Counted \cup {c} /\ c \notin Counted
    BY <1>1, <1>t DEF AcquireRead, Counted
  <2>2. Cardinality(Counted') = Cardinality(Counted) + 1
    BY <2>1, CountPositive, FS_AddElement
  <2>3. QED
    BY <1>1, <1>l, <2>2 DEF AcquireRead
<1>2. ASSUME NEW c \in Readers, ReadBlockStep(c)
      PROVE  reader_lock_count' = Cardinality(Counted')
  <2>1. CASE ReadPut(c)
    BY <2>1, <1>same, <1>t, <1>l DEF ReadPut, Located
  <2>2. CASE ReadMark(c) \/ ReadCas(c)
    BY <2>2, <1>same DEF ReadMark, ReadCas
  <2>3. CASE ReadFirst(c)
    BY <2>3, <1>same, <1>t, <1>h DEF ReadFirst
  <2>4. CASE ReadRest(c)
    <3>1. first_node[c] \in Readers /\ coro[first_node[c]] = "chosen"
      BY <2>4, <1>l DEF ReadRest, Located
    <3>2. CASE TickReader
      BY <2>4, <3>2, <1>tick DEF ReadRest
    <3>3. CASE ~TickReader
      BY <2>4, <3>1, <3>3, <1>same, <1>t DEF ReadRest
    <3>4. QED
      BY <3>2, <3>3
  <2>5. QED
    BY <1>2, <2>1, <2>2, <2>3, <2>4 DEF ReadBlockStep
<1>3. ASSUME NEW c \in Readers, ReleaseRead(c)
      PROVE  reader_lock_count' = Cardinality(Counted')
  <2>1. Counted' = Counted \ {c} /\ c \in Counted
    BY <1>3, <1>t DEF ReleaseRead, Counted
  <2>2. Cardinality(Counted') = Cardinality(Counted) - 1
    BY <2>1, CountPositive, FS_RemoveElement
  <2>3. QED
    BY <1>3, <1>l, <2>2 DEF ReleaseRead
<1>4. ASSUME NEW c \in Writers, AcquireWrite(c) \/ ReleaseWrite(c) \/ WriteBlockStep(c)
      PROVE  reader_lock_count' = Cardinality(Counted')
  <2>1. CASE AcquireWrite(c)
    BY <2>1, <1>t, <1>same DEF AcquireWrite
  <2>2. CASE ReleaseWrite(c)
    <3>1. c \in Calls /\ c \notin Readers
      BY <1>t
    <3>2. CASE TickWriter(c)
      BY <2>2, <3>1, <3>2, <1>tickw DEF ReleaseWrite
    <3>3. CASE ~TickWriter(c)
      BY <2>2, <3>1, <3>3, <1>t, <1>same DEF ReleaseWrite
    <3>4. QED
      BY <3>2, <3>3
  <2>3. CASE WriteMark(c) \/ WriteCas(c)
    BY <2>3, <1>same DEF WriteMark, WriteCas
  <2>4. CASE WriteGet(c)
    BY <2>4, <1>t, <1>h, <1>same DEF WriteGet
  <2>5. QED
    BY <1>4, <2>1, <2>2, <2>3, <2>4 DEF WriteBlockStep
<1>5. ASSUME NEW c \in Calls, Resume(c)
      PROVE  reader_lock_count' = Cardinality(Counted')
  BY <1>5, <1>t, <1>same DEF Resume
<1>6. ASSUME NEW c \in Calls, RelStep(c)
      PROVE  reader_lock_count' = Cardinality(Counted')
  <2>1. CASE \/ ReaderBit(c) \/ ReaderUnlock(c) \/ WriteLoad(c) \/ WriteToRead(c)
             \/ WriterBit(c) \/ WriterUnlock(c) \/ PostWriters(c) \/ PostWriteCas(c)
             \/ PostReaders(c) \/ PostReadCas(c)
    <3>1. UNCHANGED <<coro, reader_lock_count>>
      BY <2>1 DEF ReaderBit, ReaderUnlock, WriteLoad, WriteToRead, WriterBit,
                  WriterUnlock, PostWriters, PostWriteCas, PostReaders, PostReadCas,
                  RelCas, RelLoad
    <3>2. QED
      BY <3>1, <1>same
  <2>2. CASE DrainReaders(c) \/ PostReadFirst(c)
    BY <2>2, <1>tick, <1>same DEF DrainReaders, PostReadFirst
  <2>3. CASE PostWriteGet(c)
    <3>1. coro[c] = "released"
      BY <2>3, <1>l DEF PostWriteGet, Located
    <3>2. CASE TickWriter(c)
      BY <2>3, <3>1, <3>2, <1>tickw DEF PostWriteGet
    <3>3. CASE ~TickWriter(c)
      BY <2>3, <3>3, <1>same DEF PostWriteGet
    <3>4. QED
      BY <3>2, <3>3
  <2>4. QED
    BY <1>6, <2>1, <2>2, <2>3 DEF RelStep
<1>7. CASE Deinit
  BY <1>7, <1>t, <1>same DEF Deinit
<1>8. CASE UNCHANGED vars
  BY <1>8, <1>same DEF vars
<1>9. QED
  BY <1>1, <1>2, <1>3, <1>4, <1>5, <1>6, <1>7, <1>8 DEF Next

\* The places of all calls, the queues and the count.
LEMMA InvHolds == Spec => []Inv
<1>1. Init => Inv
  <2> SUFFICES ASSUME Init PROVE Inv
    OBVIOUS
  <2>1. TypeOK
    BY DEF Init, TypeOK, CoroStates, BlockStates, RelStates
  <2>2. QueuesHoldWaiters
    BY EmptyQueue DEF Init, QueuesHoldWaiters, Calls
  <2>3. Located
    BY DEF Init, Located, Calls
  <2>4. Counted = {}
    BY DEF Init, Counted, Calls
  <2>5. QED
    BY <2>1, <2>2, <2>3, <2>4, FS_EmptySet DEF Init, Inv
<1>2. Inv /\ [Next]_vars => Inv'
  BY TypeInductive, QueuesInductive, LocatedInductive, CountInductive DEF Inv
<1>3. QED
  BY <1>1, <1>2, PTL DEF Spec

\* reader_lock_count is exact for any number of readers, writers and threads:
\* the last reader, and only the last, goes on to unlock.
THEOREM CountCorrect == Spec => []CountExact
<1>1. Inv => CountExact
  BY DEF Inv, CountExact, Counted
<1>2. QED
  BY <1>1, InvHolds, PTL

-----------------------------------------------------------------------------
(***************************************************************************)
(* Writers.  The right to hand the lock to a writer is with a writer's     *)
(* coroutine, with the suspend block that has set WriteLock, or with a     *)
(* release(): with one of them, and only while shared_state is WriteLock.  *)
(***************************************************************************)
Holdings == {"coro", "block", "rel"}

WriteToken(c, p) ==
  \/ p = "coro" /\ c \in Writers /\ coro[c] \in {"ticked", "held"}
  \/ p = "block" /\ block[c] = "get"
  \/ p = "rel" /\ rel[c] \in {"w_load", "w_toread", "w_bit", "w_unlock",
                              "pw_get", "pw_bit", "pw_unlock"}

OneWriteToken ==
  \A c, d \in Calls : \A p, q \in Holdings :
    /\ WriteToken(c, p) /\ WriteToken(d, q) => c = d /\ p = q
    /\ WriteToken(c, p) => shared_state = "WriteLock"

\* Every step moves the token, or creates it while the lock is free, or drops
\* it: there are never two.
LEMMA TokenInductive == Inv /\ OneWriteToken /\ [Next]_vars => OneWriteToken'
<1> SUFFICES ASSUME Inv, OneWriteToken, [Next]_vars PROVE OneWriteToken'
  OBVIOUS
<1>t. /\ coro \in [Calls -> CoroStates] /\ block \in [Calls -> BlockStates]
      /\ rel \in [Calls -> RelStates]
      /\ shared_state \in {"Unlocked", "WriteLock", "ReadLock"}
      /\ Readers \cap Writers = {}
      /\ Readers \subseteq Calls /\ Writers \subseteq Calls
  BY RwLockAssumption DEF Inv, TypeOK, Calls
<1>l. Located
  BY DEF Inv
<1>h. /\ reader_queue # <<>> =>
           Head(reader_queue) \in Readers /\ coro[Head(reader_queue)] = "queued"
      /\ writer_queue # <<>> =>
           Head(writer_queue) \in Writers /\ coro[Head(writer_queue)] = "queued"
  BY Heads DEF Inv
<1> USE DEF OneWriteToken, WriteToken, Holdings, BlockTo, RelTo
\* A step that leaves the state and the tokens alone.
<1>keep. ASSUME shared_state' = shared_state,
                \A c \in Calls, p \in Holdings : WriteToken(c, p)' => WriteToken(c, p)
         PROVE  OneWriteToken'
  BY <1>keep
<1>tick. ASSUME TickReader, UNCHANGED <<shared_state, block>>,
                \A c \in Calls : WriteToken(c, "rel")' => WriteToken(c, "rel")
         PROVE  OneWriteToken'
  BY <1>tick, <1>keep, <1>t, <1>h DEF TickReader
<1>1. ASSUME NEW c \in Readers, AcquireRead(c) PROVE OneWriteToken'
  BY <1>1, <1>t DEF AcquireRead
<1>2. ASSUME NEW c \in Readers, ReadBlockStep(c) PROVE OneWriteToken'
  <2>1. CASE ReadPut(c)
    BY <2>1, <1>t DEF ReadPut
  <2>2. CASE ReadMark(c)
    BY <2>2, <1>t DEF ReadMark
  <2>3. CASE ReadCas(c)
    BY <2>3, <1>t DEF ReadCas
  <2>4. CASE ReadFirst(c)
    BY <2>4, <1>t, <1>h, <1>keep DEF ReadFirst
  <2>5. CASE ReadRest(c)
    <3>1. CASE TickReader
      BY <2>5, <3>1, <1>tick DEF ReadRest, TickReader
    <3>2. CASE ~TickReader
      BY <2>5, <3>2, <1>t, <1>l, <1>keep DEF ReadRest, Located
    <3>3. QED
      BY <3>1, <3>2
  <2>6. QED
    BY <1>2, <2>1, <2>2, <2>3, <2>4, <2>5 DEF ReadBlockStep
<1>3. ASSUME NEW c \in Readers, ReleaseRead(c) PROVE OneWriteToken'
  BY <1>3, <1>t, <1>l DEF ReleaseRead, Located
<1>4. ASSUME NEW c \in Writers, AcquireWrite(c) PROVE OneWriteToken'
  BY <1>4, <1>t DEF AcquireWrite
<1>5. ASSUME NEW c \in Writers, WriteBlockStep(c) PROVE OneWriteToken'
  <2>1. CASE WriteMark(c)
    BY <2>1, <1>t DEF WriteMark
  <2>2. CASE WriteCas(c)
    BY <2>2, <1>t DEF WriteCas
  <2>3. CASE WriteGet(c)
    BY <2>3, <1>t, <1>h DEF WriteGet
  <2>4. QED
    BY <1>5, <2>1, <2>2, <2>3 DEF WriteBlockStep
<1>6. ASSUME NEW c \in Writers, ReleaseWrite(c) PROVE OneWriteToken'
  BY <1>6, <1>t, <1>h DEF ReleaseWrite, TickWriter
<1>7. ASSUME NEW c \in Calls, Resume(c) PROVE OneWriteToken'
  BY <1>7, <1>t DEF Resume
<1>8. ASSUME NEW c \in Calls, RelStep(c) PROVE OneWriteToken'
  <2>1. CASE ReaderBit(c)
    BY <2>1, <1>t DEF ReaderBit
  <2>2. CASE ReaderUnlock(c)
    BY <2>2, <1>t DEF ReaderUnlock, RelCas
  <2>3. CASE WriteLoad(c)
    BY <2>3, <1>t DEF WriteLoad, RelLoad
  <2>4. CASE WriteToRead(c)
    BY <2>4, <1>t DEF WriteToRead
  <2>5. CASE DrainReaders(c)
    <3>1. CASE TickReader
      BY <2>5, <3>1, <1>tick, <1>t DEF DrainReaders, TickReader
    <3>2. CASE ~TickReader
      BY <2>5, <3>2, <1>t, <1>keep DEF DrainReaders
    <3>3. QED
      BY <3>1, <3>2
  <2>6. CASE WriterBit(c)
    BY <2>6, <1>t DEF WriterBit
  <2>7. CASE WriterUnlock(c)
    BY <2>7, <1>t DEF WriterUnlock
  <2>8. CASE PostWriters(c)
    BY <2>8, <1>t DEF PostWriters, RelLoad
  <2>9. CASE PostWriteCas(c)
    BY <2>9, <1>t DEF PostWriteCas, RelCas
  <2>10. CASE PostWriteGet(c)
    BY <2>10, <1>t, <1>h, <1>l DEF PostWriteGet, TickWriter, Located
  <2>11. CASE PostReaders(c)
    BY <2>11, <1>t DEF PostReaders, RelLoad
  <2>12. CASE PostReadCas(c)
    BY <2>12, <1>t DEF PostReadCas, RelCas
  <2>13. CASE PostReadFirst(c)
    <3>1. CASE TickReader
      BY <2>13, <3>1, <1>t, <1>tick DEF PostReadFirst
    <3>2. CASE ~TickReader
      BY <2>13, <3>2, <1>t, <1>keep DEF PostReadFirst
    <3>3. QED
      BY <3>1, <3>2
  <2>14. QED
    BY <1>8, <2>1, <2>2, <2>3, <2>4, <2>5, <2>6, <2>7, <2>8, <2>9, <2>10, <2>11,
       <2>12, <2>13 DEF RelStep
<1>9. CASE Deinit
  BY <1>9, <1>t, <1>keep DEF Deinit
<1>10. CASE UNCHANGED vars
  BY <1>10 DEF vars
<1>11. QED
  BY <1>1, <1>2, <1>3, <1>4, <1>5, <1>6, <1>7, <1>8, <1>9, <1>10 DEF Next

\* Between writers the lock is exclusive, for any number of calls and threads.
THEOREM WritersExclusive == Spec => []WritersExclude
<1>1. Init => OneWriteToken
  BY DEF Init, OneWriteToken, WriteToken, Holdings, Calls
<1>2. OneWriteToken => WritersExclude
  BY DEF OneWriteToken, WriteToken, Holdings, WritersExclude, Granted, Calls
<1>3. QED
  BY <1>1, <1>2, InvHolds, TokenInductive, PTL DEF Spec

-----------------------------------------------------------------------------
(***************************************************************************)
(* One thread.                                                             *)
(***************************************************************************)
Idle == \A c \in Calls : block[c] = "none" /\ rel[c] = "none"

Alone ==
  \A c, d \in Calls :
    /\ block[c] # "none" /\ block[d] # "none" => c = d
    /\ rel[c] # "none" /\ rel[d] # "none" => c = d
    /\ block[c] # "none" => rel[d] = "none"

ReaderIn == \E c \in Readers : coro[c] \in {"ticked", "held"}
WriterIn == \E c \in Writers : coro[c] \in {"ticked", "held"}
NobodyIn == ~ReaderIn /\ ~WriterIn

\* A coroutine that is neither waiting nor has the lock is in the hands of a
\* suspend block, or deinit() has cancelled it.
Accounted ==
  /\ \A c \in Calls :
       /\ coro[c] = "counted" => block[c] = "put"
       /\ coro[c] = "chosen" => \E d \in Readers : block[d] = "rest" /\ first_node[d] = c
       /\ coro[c] = "cancelled" => ~live
  /\ ~live => Idle /\ NobodyIn

NoReaderWaits == reader_queue = <<>>
NoWriterWaits == writer_queue = <<>>

\* shared_state says who has the lock.
Agree ==
  /\ shared_state = "WriteLock" <=> WriterIn
  /\ shared_state = "ReadLock" <=> ReaderIn

WritersMarked == NoWriterWaits \/ writer_queue_empty_bit = 0
ReadersMarked == reader_queue_empty_bit = 0 <=> ~NoReaderWaits \/ ReaderIn

Calm ==
  /\ Agree /\ ReadersMarked /\ WritersMarked
  /\ shared_state = "Unlocked" => NoReaderWaits /\ NoWriterWaits
  /\ shared_state = "ReadLock" => NoReaderWaits

ReadBlockSettled(c) ==
  /\ block[c] = "put" => Calm
  /\ block[c] \in {"mark", "cas"} =>
       /\ Agree /\ WritersMarked /\ ~NoReaderWaits
       /\ shared_state = "Unlocked" => NoWriterWaits
  /\ block[c] \in {"first", "rest"} =>
       shared_state = "ReadLock" /\ ~WriterIn /\ WritersMarked
  /\ block[c] = "first" => ~NoReaderWaits
  /\ block[c] \in {"cas", "first", "rest"} => reader_queue_empty_bit = 0

WriteBlockSettled(c) ==
  /\ block[c] # "none" => ~NoWriterWaits /\ ReadersMarked
  /\ block[c] \in {"mark", "cas"} =>
       /\ Agree
       /\ shared_state \in {"Unlocked", "ReadLock"} => NoReaderWaits
  /\ block[c] \in {"cas", "get"} => writer_queue_empty_bit = 0
  /\ block[c] = "get" => shared_state = "WriteLock" /\ NobodyIn /\ NoReaderWaits

RelSettled(c) ==
  /\ rel[c] \notin {"pr_cas", "pr_first", "pr_bit", "pr_unlock"}
  /\ rel[c] # "none" => ~WriterIn /\ WritersMarked
  /\ rel[c] \notin {"none", "drain"} => ~ReaderIn
  /\ rel[c] \in {"r_bit", "r_cas", "drain"} => shared_state = "ReadLock"
  /\ rel[c] \in {"post_w", "pw_cas", "post_r"} => shared_state = "Unlocked"
  /\ rel[c] \in {"w_load", "w_toread", "w_bit", "w_unlock", "pw_get", "pw_bit", "pw_unlock"}
       => shared_state = "WriteLock"
  /\ rel[c] \in {"w_load", "w_toread", "drain", "w_bit", "w_unlock", "pw_bit", "pw_unlock", "post_r"}
       => NoWriterWaits
  /\ rel[c] \in {"r_bit", "r_cas", "w_bit", "w_unlock", "post_w", "pw_cas", "pw_get",
                 "pw_bit", "pw_unlock", "post_r"} => NoReaderWaits
  /\ rel[c] \in {"r_cas", "w_bit", "w_unlock", "post_w", "pw_cas", "pw_get", "pw_bit",
                 "pw_unlock", "post_r"} => reader_queue_empty_bit = 1
  /\ rel[c] = "w_load" => ReadersMarked
  /\ rel[c] = "w_toread" => ~NoReaderWaits
  /\ rel[c] = "drain" => ~NoReaderWaits \/ ReaderIn
  /\ rel[c] \in {"w_toread", "drain"} => reader_queue_empty_bit = 0
  /\ rel[c] \in {"pw_unlock", "w_unlock"} => writer_queue_empty_bit = 1

Settled ==
  /\ Idle => Calm
  /\ \A c \in Readers : ReadBlockSettled(c)
  /\ \A c \in Writers : WriteBlockSettled(c)
  /\ \A c \in Calls : RelSettled(c)

OneThread == num_threads = 1 => Alone /\ Accounted /\ Settled

\* With one thread, a thread is free only when nothing is in progress.
LEMMA BusyEmpty == Busy = {} => Idle
<1> SUFFICES ASSUME Busy = {}, NEW c \in Calls PROVE block[c] = "none" /\ rel[c] = "none"
  BY DEF Idle
<1>1. <<c, "acquire">> \notin Busy /\ <<c, "release">> \notin Busy
  OBVIOUS
<1>2. QED
  BY <1>1 DEF Busy

LEMMA FreeMeansIdle ==
  ASSUME num_threads = 1, ThreadFree
  PROVE  Idle
<1> DEFINE A == {c \in Calls : block[c] # "none"}
           R == {c \in Calls : rel[c] # "none"}
<1>1. IsFiniteSet(Calls)
  BY RwLockAssumption, FS_Union DEF Calls
<1>2. IsFiniteSet(A) /\ IsFiniteSet(R)
  BY <1>1, FS_Subset
<1>3. IsFiniteSet({"acquire"}) /\ IsFiniteSet({"release"})
  BY FS_Singleton
<1>4. IsFiniteSet(A \X {"acquire"}) /\ IsFiniteSet(R \X {"release"})
  BY <1>2, <1>3, FS_Product
<1>5. IsFiniteSet(Busy)
  BY <1>4, FS_Union DEF Busy
<1>6. Cardinality(Busy) = 0
  BY <1>5, FS_CardinalityType DEF ThreadFree
<1>7. QED
  BY <1>5, <1>6, FS_EmptySet, BusyEmpty

\* The number of threads of a loop never changes.
LEMMA ThreadsFixed == [Next]_vars => num_threads' = num_threads
<1> USE DEF others, AcquireRead, ReadPut, ReadMark, ReadCas, ReadFirst, ReadRest,
            ReleaseRead, AcquireWrite, WriteMark, WriteCas, WriteGet, ReleaseWrite,
            Resume, ReaderBit, ReaderUnlock, RelCas, RelLoad, WriteLoad, WriteToRead,
            DrainReaders, WriterBit, WriterUnlock, PostWriters, PostWriteCas,
            PostWriteGet, PostReaders, PostReadCas, PostReadFirst, Deinit
<1>1. QED
  BY DEF Next, vars, ReadBlockStep, WriteBlockStep, RelStep

\* With one thread a suspend block or a release() runs alone.
LEMMA AloneInductive ==
  ASSUME Inv, Alone, num_threads = 1, [Next]_vars
  PROVE  Alone'
<1>t. /\ coro \in [Calls -> CoroStates] /\ block \in [Calls -> BlockStates]
      /\ rel \in [Calls -> RelStates] /\ first_node \in [Calls -> Readers \cup {Nobody}]
      /\ shared_state \in {"Unlocked", "WriteLock", "ReadLock"}
      /\ writer_queue_empty_bit \in {0, 1} /\ reader_queue_empty_bit \in {0, 1}
      /\ Readers \cap Writers = {}
      /\ Readers \subseteq Calls /\ Writers \subseteq Calls
  BY RwLockAssumption DEF Inv, TypeOK, Calls
<1>l. Located
  BY DEF Inv
<1>h. /\ reader_queue # <<>> =>
           Head(reader_queue) \in Readers /\ coro[Head(reader_queue)] = "queued"
      /\ writer_queue # <<>> =>
           Head(writer_queue) \in Writers /\ coro[Head(writer_queue)] = "queued"
  BY Heads DEF Inv
<1>keep. ASSUME \A c \in Calls : /\ block'[c] # "none" => block[c] # "none"
                                 /\ rel'[c] # "none" => rel[c] # "none"
         PROVE  Alone'
  <2> SUFFICES ASSUME NEW c \in Calls, NEW d \in Calls
               PROVE  /\ block'[c] # "none" /\ block'[d] # "none" => c = d
                      /\ rel'[c] # "none" /\ rel'[d] # "none" => c = d
                      /\ block'[c] # "none" => rel'[d] = "none"
    BY DEF Alone
  <2>1. /\ block'[c] # "none" => block[c] # "none"
        /\ block'[d] # "none" => block[d] # "none"
        /\ rel'[c] # "none" => rel[c] # "none"
        /\ rel'[d] # "none" => rel[d] # "none"
    BY <1>keep
  <2>2. /\ block[c] # "none" /\ block[d] # "none" => c = d
        /\ rel[c] # "none" /\ rel[d] # "none" => c = d
        /\ block[c] # "none" => rel[d] = "none"
    BY DEF Alone
  <2>3. QED
    BY <2>1, <2>2
<1>new. ASSUME Idle, NEW c \in Calls, NEW b \in BlockStates, NEW r \in RelStates,
               \/ block' = [block EXCEPT ![c] = b] /\ rel' = rel
               \/ block' = block /\ rel' = [rel EXCEPT ![c] = r]
        PROVE  Alone'
  BY <1>new, <1>t DEF Alone, Idle
<1>s. {"put", "mark"} \subseteq BlockStates /\ {"r_bit", "none", "w_load"} \subseteq RelStates
  BY DEF BlockStates, RelStates
<1> USE DEF BlockTo, RelTo
<1>1. ASSUME NEW c \in Readers, AcquireRead(c) PROVE Alone'
  BY <1>1, <1>t, <1>s, <1>new, FreeMeansIdle DEF AcquireRead
<1>2. ASSUME NEW c \in Readers, ReadBlockStep(c) PROVE Alone'
  BY <1>2, <1>t, <1>keep DEF ReadBlockStep, ReadPut, ReadMark, ReadCas, ReadFirst, ReadRest
<1>3. ASSUME NEW c \in Readers, ReleaseRead(c) PROVE Alone'
  BY <1>3, <1>t, <1>s, <1>new, FreeMeansIdle DEF ReleaseRead
<1>4. ASSUME NEW c \in Writers, AcquireWrite(c) PROVE Alone'
  BY <1>4, <1>t, <1>s, <1>new, FreeMeansIdle DEF AcquireWrite
<1>5. ASSUME NEW c \in Writers, WriteBlockStep(c) PROVE Alone'
  BY <1>5, <1>t, <1>keep DEF WriteBlockStep, WriteMark, WriteCas, WriteGet
<1>6. ASSUME NEW c \in Writers, ReleaseWrite(c) PROVE Alone'
  BY <1>6, <1>t, <1>s, <1>keep, <1>new, FreeMeansIdle DEF ReleaseWrite
<1>7. ASSUME NEW c \in Calls, Resume(c) PROVE Alone'
  BY <1>7, <1>keep DEF Resume
<1>8. ASSUME NEW c \in Calls, RelStep(c) PROVE Alone'
  <2>1. rel[c] # "none" /\ block' = block /\ \A d \in Calls : d # c => rel'[d] = rel[d]
    BY <1>8, <1>t DEF RelStep, ReaderBit, ReaderUnlock, RelCas, RelLoad, WriteLoad,
       WriteToRead, DrainReaders, WriterBit, WriterUnlock, PostWriters, PostWriteCas,
       PostWriteGet, PostReaders, PostReadCas, PostReadFirst
  <2>2. QED
    BY <2>1, <1>keep
<1>9. CASE Deinit
  BY <1>9, <1>keep DEF Deinit
<1>10. CASE UNCHANGED vars
  BY <1>10, <1>keep DEF vars
<1>11. QED
  BY <1>1, <1>2, <1>3, <1>4, <1>5, <1>6, <1>7, <1>8, <1>9, <1>10 DEF Next

\* With one thread no coroutine is ever between two places, and after deinit()
\* nothing moves.
LEMMA AccountedInductive ==
  ASSUME Inv, Alone, Accounted, num_threads = 1, [Next]_vars
  PROVE  Accounted'
<1>t. /\ coro \in [Calls -> CoroStates] /\ block \in [Calls -> BlockStates]
      /\ rel \in [Calls -> RelStates] /\ first_node \in [Calls -> Readers \cup {Nobody}]
      /\ shared_state \in {"Unlocked", "WriteLock", "ReadLock"}
      /\ writer_queue_empty_bit \in {0, 1} /\ reader_queue_empty_bit \in {0, 1}
      /\ Readers \cap Writers = {}
      /\ Readers \subseteq Calls /\ Writers \subseteq Calls
  BY RwLockAssumption DEF Inv, TypeOK, Calls
<1>l. Located
  BY DEF Inv
<1>h. /\ reader_queue # <<>> =>
           Head(reader_queue) \in Readers /\ coro[Head(reader_queue)] = "queued"
      /\ writer_queue # <<>> =>
           Head(writer_queue) \in Writers /\ coro[Head(writer_queue)] = "queued"
  BY Heads DEF Inv
<1> USE DEF Accounted, NobodyIn, ReaderIn, WriterIn, BlockTo, RelTo, others
<1>dead. ~live => UNCHANGED vars
  <2> SUFFICES ASSUME ~live PROVE UNCHANGED vars
    OBVIOUS
  <2>1. Idle /\ \A c \in Calls : coro[c] \notin {"ticked", "held"}
    BY DEF Calls
  <2>2. ASSUME NEW c \in Calls, Resume(c) \/ RelStep(c) PROVE FALSE
    BY <2>1, <2>2 DEF Idle, Resume, RelStep, ReaderBit, ReaderUnlock, RelCas, RelLoad,
       WriteLoad, WriteToRead, DrainReaders, WriterBit, WriterUnlock, PostWriters,
       PostWriteCas, PostWriteGet, PostReaders, PostReadCas, PostReadFirst
  <2>3. ASSUME NEW c \in Readers, AcquireRead(c) \/ ReadBlockStep(c) \/ ReleaseRead(c)
        PROVE  FALSE
    BY <2>1, <2>3, <1>t DEF Idle, AcquireRead, ReadBlockStep, ReleaseRead, ReadPut, ReadMark,
       ReadCas, ReadFirst, ReadRest
  <2>4. ASSUME NEW c \in Writers, AcquireWrite(c) \/ WriteBlockStep(c) \/ ReleaseWrite(c)
        PROVE  FALSE
    BY <2>1, <2>4, <1>t DEF Idle, AcquireWrite, WriteBlockStep, ReleaseWrite, WriteMark,
       WriteCas, WriteGet
  <2>5. QED
    BY <2>2, <2>3, <2>4 DEF Next, Deinit
<1>0. CASE UNCHANGED vars
  BY <1>0 DEF vars, Idle
<1> SUFFICES ASSUME live PROVE Accounted'
  BY <1>dead, <1>0
<1>1. ASSUME NEW c \in Readers, AcquireRead(c) PROVE Accounted'
  BY <1>1, <1>t, FreeMeansIdle DEF AcquireRead, Idle
<1>2. ASSUME NEW c \in Readers, ReadBlockStep(c) PROVE Accounted'
  <2>1. CASE ReadPut(c)
    BY <2>1, <1>t DEF ReadPut
  <2>2. CASE ReadMark(c)
    BY <2>2, <1>t DEF ReadMark
  <2>3. CASE ReadCas(c)
    BY <2>3, <1>t DEF ReadCas
  <2>4. CASE ReadFirst(c) /\ reader_queue = <<>>
    BY <2>4, <1>t DEF ReadFirst
  <2>5. CASE ReadFirst(c) /\ reader_queue # <<>>
    <3>1. /\ live' = live
          /\ \A d \in Calls : d # Head(reader_queue) => coro'[d] = coro[d]
          /\ coro'[Head(reader_queue)] = "chosen"
          /\ block'[c] = "rest" /\ first_node'[c] = Head(reader_queue)
          /\ \A d \in Calls : d # c => block'[d] = block[d] /\ first_node'[d] = first_node[d]
          /\ block[c] = "first"
      BY <2>5, <1>t, <1>h DEF ReadFirst
    <3>2. QED
      BY <1>t, <3>1
  <2>6. CASE ReadRest(c)
    <3>1. first_node[c] \in Readers /\ coro[first_node[c]] = "chosen" /\ block[c] = "rest"
      BY <2>6, <1>l DEF ReadRest, Located
    <3>2. CASE reader_queue # <<>>
      BY <2>6, <3>2, <1>t, <1>h DEF ReadRest, TickReader
    <3>3. CASE reader_queue = <<>>
      <4>1. /\ live' = live
            /\ \A d \in Calls : d # first_node[c] => coro'[d] = coro[d]
            /\ coro'[first_node[c]] = "held"
            /\ \A d \in Calls : d # c => block'[d] = block[d] /\ first_node'[d] = first_node[d]
        BY <2>6, <3>1, <3>3, <1>t DEF ReadRest, TickReader
      <4>2. QED
        BY <1>t, <3>1, <4>1
    <3>4. QED
      BY <3>2, <3>3
  <2>7. QED
    BY <1>2, <2>1, <2>2, <2>3, <2>4, <2>5, <2>6 DEF ReadBlockStep
<1>3. ASSUME NEW c \in Readers, ReleaseRead(c) PROVE Accounted'
  BY <1>3, <1>t DEF ReleaseRead
<1>4. ASSUME NEW c \in Writers, AcquireWrite(c) PROVE Accounted'
  BY <1>4, <1>t DEF AcquireWrite
<1>5. ASSUME NEW c \in Writers, WriteBlockStep(c) PROVE Accounted'
  <2>1. CASE WriteMark(c)
    BY <2>1, <1>t DEF WriteMark
  <2>2. CASE WriteCas(c)
    BY <2>2, <1>t DEF WriteCas
  <2>3. CASE WriteGet(c)
    BY <2>3, <1>t, <1>h DEF WriteGet
  <2>4. QED
    BY <1>5, <2>1, <2>2, <2>3 DEF WriteBlockStep
<1>6. ASSUME NEW c \in Writers, ReleaseWrite(c) PROVE Accounted'
  BY <1>6, <1>t, <1>h DEF ReleaseWrite, TickWriter
<1>7. ASSUME NEW c \in Calls, Resume(c) PROVE Accounted'
  BY <1>7, <1>t DEF Resume
<1>8. ASSUME NEW c \in Calls, RelStep(c) PROVE Accounted'
  <2>1. CASE DrainReaders(c) \/ PostReadFirst(c)
    <3>1. UNCHANGED <<block, first_node, live>>
      BY <2>1 DEF DrainReaders, PostReadFirst
    <3>a. TickReader \/ coro' = coro
      BY <2>1 DEF DrainReaders, PostReadFirst
    <3>2. \A d \in Calls : coro'[d] = coro[d] \/ coro'[d] = "ticked"
      BY <3>a, <1>t, <1>h DEF TickReader
    <3>3. \A d \in Calls : coro'[d] \in {"counted", "chosen", "cancelled"} => coro'[d] = coro[d]
      BY <3>2
    <3>4. QED
      BY <3>1, <3>3
  <2>2. CASE PostWriteGet(c)
    BY <2>2, <1>t, <1>h DEF PostWriteGet, TickWriter
  <2>3. CASE ~DrainReaders(c) /\ ~PostReadFirst(c) /\ ~PostWriteGet(c)
    <3>1. UNCHANGED <<coro, block, first_node, live>>
      BY <1>8, <2>3 DEF RelStep, ReaderBit, ReaderUnlock, RelCas, RelLoad, WriteLoad,
         WriteToRead, WriterBit, WriterUnlock, PostWriters, PostWriteCas, PostReaders,
         PostReadCas
    <3>2. QED
      BY <3>1
  <2>4. QED
    BY <2>1, <2>2, <2>3
<1>9. CASE Deinit
  <2>1. Idle /\ \A c \in Calls : coro[c] \notin {"ticked", "held"}
    BY <1>9, BusyEmpty DEF Deinit, Quiet, Granted
  <2>2. /\ ~live' /\ UNCHANGED <<block, rel, first_node>>
        /\ \A c \in Calls : coro'[c] = IF coro[c] = "queued" THEN "cancelled" ELSE coro[c]
    BY <1>9 DEF Deinit
  <2>3. \A c \in Calls : coro'[c] \notin {"ticked", "held"}
    BY <2>1, <2>2
  <2>4. Idle'
    BY <2>1, <2>2 DEF Idle
  <2>5. \A c \in Calls : coro[c] \notin {"counted", "chosen"}
    BY <2>1, <1>t DEF Idle
  <2>6. QED
    BY <1>t, <2>2, <2>3, <2>4, <2>5
<1>10. QED
  BY <1>0, <1>1, <1>2, <1>3, <1>4, <1>5, <1>6, <1>7, <1>8, <1>9 DEF Next


\* What it takes for Settled to hold after a step that leaves at most the
\* suspend block of a reader, that of a writer, or a release() in progress.
LEMMA SettledByReader ==
  ASSUME NEW c \in Readers, \A d \in Calls : d # c => block'[d] = "none",
         \A d \in Calls : rel'[d] = "none",
         block'[c] = "none" => Calm', ReadBlockSettled(c)'
  PROVE  Settled'
<1>1. (Idle => Calm)'
  BY DEF Idle, Calls
<1>2. ASSUME NEW d \in Readers PROVE ReadBlockSettled(d)'
  <2>1. CASE d = c
    BY <2>1
  <2>2. CASE d # c
    BY <2>2 DEF ReadBlockSettled, Calls
  <2>3. QED
    BY <2>1, <2>2
<1>3. ASSUME NEW d \in Writers PROVE WriteBlockSettled(d)'
  BY RwLockAssumption DEF WriteBlockSettled, Calls
<1>4. ASSUME NEW d \in Calls PROVE RelSettled(d)'
  BY DEF RelSettled
<1>5. QED
  BY <1>1, <1>2, <1>3, <1>4 DEF Settled

LEMMA SettledByWriter ==
  ASSUME NEW c \in Writers, \A d \in Calls : d # c => block'[d] = "none",
         \A d \in Calls : rel'[d] = "none",
         block'[c] = "none" => Calm', WriteBlockSettled(c)'
  PROVE  Settled'
<1>1. (Idle => Calm)'
  BY DEF Idle, Calls
<1>2. ASSUME NEW d \in Writers PROVE WriteBlockSettled(d)'
  <2>1. CASE d = c
    BY <2>1
  <2>2. CASE d # c
    BY <2>2 DEF WriteBlockSettled, Calls
  <2>3. QED
    BY <2>1, <2>2
<1>3. ASSUME NEW d \in Readers PROVE ReadBlockSettled(d)'
  BY RwLockAssumption DEF ReadBlockSettled, Calls
<1>4. ASSUME NEW d \in Calls PROVE RelSettled(d)'
  BY DEF RelSettled
<1>5. QED
  BY <1>1, <1>2, <1>3, <1>4 DEF Settled

LEMMA SettledByRelease ==
  ASSUME NEW c \in Calls, \A d \in Calls : block'[d] = "none",
         \A d \in Calls : d # c => rel'[d] = "none",
         rel'[c] = "none" => Calm', RelSettled(c)'
  PROVE  Settled'
<1>1. (Idle => Calm)'
  BY DEF Idle
<1>2. ASSUME NEW d \in Readers PROVE ReadBlockSettled(d)'
  BY DEF ReadBlockSettled, Calls
<1>3. ASSUME NEW d \in Writers PROVE WriteBlockSettled(d)'
  BY DEF WriteBlockSettled, Calls
<1>4. ASSUME NEW d \in Calls PROVE RelSettled(d)'
  <2>1. CASE d = c
    BY <2>1
  <2>2. CASE d # c
    BY <2>2 DEF RelSettled
  <2>3. QED
    BY <2>1, <2>2
<1>5. QED
  BY <1>1, <1>2, <1>3, <1>4 DEF Settled

\* With one thread, when shared_state is ReadLock and nothing is in progress,
\* a reader that is counted has the lock: the last to release is the last in.
LEMMA CountedMeansIn ==
  ASSUME Inv, Accounted, Idle, ReaderIn, reader_queue = <<>>,
         NEW c \in Readers, coro[c] \notin {"idle", "released"}
  PROVE  coro[c] \in {"ticked", "held"}
<1>1. c \in Calls /\ coro[c] \in CoroStates
  BY DEF Inv, TypeOK, Calls
<1>2. coro[c] # "queued"
  BY EmptyQueue DEF Inv, QueuesHoldWaiters
<1>3. coro[c] # "counted" /\ coro[c] # "chosen" /\ coro[c] # "cancelled"
  BY <1>1 DEF Accounted, Idle, NobodyIn, Calls
<1>4. QED
  BY <1>1, <1>2, <1>3 DEF CoroStates

\* Every step keeps Settled on a loop with one thread.
LEMMA SettledInductive ==
  ASSUME Inv, OneWriteToken, Alone, Accounted, Settled, num_threads = 1, [Next]_vars
  PROVE  Settled'
<1>t. /\ coro \in [Calls -> CoroStates] /\ block \in [Calls -> BlockStates]
      /\ rel \in [Calls -> RelStates] /\ first_node \in [Calls -> Readers \cup {Nobody}]
      /\ shared_state \in {"Unlocked", "WriteLock", "ReadLock"}
      /\ writer_queue_empty_bit \in {0, 1} /\ reader_queue_empty_bit \in {0, 1}
      /\ Readers \cap Writers = {}
      /\ Readers \subseteq Calls /\ Writers \subseteq Calls
  BY RwLockAssumption DEF Inv, TypeOK, Calls
<1>q. reader_queue \in Seq(Readers) /\ writer_queue \in Seq(Writers)
  BY DEF Inv, TypeOK
<1>l. Located
  BY DEF Inv
<1>h. /\ reader_queue # <<>> =>
           Head(reader_queue) \in Readers /\ coro[Head(reader_queue)] = "queued"
      /\ writer_queue # <<>> =>
           Head(writer_queue) \in Writers /\ coro[Head(writer_queue)] = "queued"
  BY Heads DEF Inv
<1>free. ThreadFree => Idle /\ Calm
  BY FreeMeansIdle DEF Settled
<1>same. ASSUME \A d \in Calls : coro'[d] \in {"ticked", "held"} <=> coro[d] \in {"ticked", "held"}
         PROVE  (ReaderIn' <=> ReaderIn) /\ (WriterIn' <=> WriterIn)
  BY <1>same DEF ReaderIn, WriterIn, Calls
<1>tick. TickReader => ReaderIn' /\ (WriterIn' <=> WriterIn)
  BY <1>t, <1>h DEF TickReader, ReaderIn, WriterIn
<1> USE DEF NoReaderWaits, NoWriterWaits, NobodyIn, BlockTo, RelTo, others, queues, bits
<1>1. ASSUME NEW c \in Readers, AcquireRead(c) PROVE Settled'
  <2>1. Idle /\ Calm
    BY <1>1, <1>free DEF AcquireRead
  <2>2. (ReaderIn' <=> ReaderIn) /\ (WriterIn' <=> WriterIn)
    BY <1>1, <1>t, <1>same DEF AcquireRead
  <2>3. Calm' /\ block'[c] = "put"
    BY <1>1, <1>t, <2>1, <2>2 DEF AcquireRead, Calm, Agree, ReadersMarked, WritersMarked
  <2>4. (\A d \in Calls : d # c => block'[d] = "none") /\ \A d \in Calls : rel'[d] = "none"
    BY <1>1, <1>t, <2>1 DEF AcquireRead, Idle
  <2>5. ReadBlockSettled(c)'
    BY <2>3 DEF ReadBlockSettled
  <2>6. QED
    BY <2>3, <2>4, <2>5, SettledByReader
<1>2. ASSUME NEW c \in Readers, ReadBlockStep(c) PROVE Settled'
  <2> USE DEF ReadBlockSettled, Calm, Agree, ReadersMarked, WritersMarked
  <2>1. /\ block[c] # "none" /\ rel' = rel
        /\ \A d \in Calls : d # c => block'[d] = block[d]
    BY <1>2, <1>t DEF ReadBlockStep, ReadPut, ReadMark, ReadCas, ReadFirst, ReadRest
  <2>2. /\ \A d \in Calls : d # c => block'[d] = "none"
        /\ \A d \in Calls : rel'[d] = "none"
    BY <2>1, <1>t DEF Alone
  <2>3. ReadBlockSettled(c)
    BY DEF Settled
  <2> SUFFICES (block'[c] = "none" => Calm') /\ ReadBlockSettled(c)'
    BY <2>2, SettledByReader
  <2>4. CASE ReadPut(c)
    <3>1. (ReaderIn' <=> ReaderIn) /\ (WriterIn' <=> WriterIn)
      BY <2>4, <1>t, <1>l, <1>same DEF ReadPut, Located
    <3>2. reader_queue' # <<>>
      BY <2>4, <1>q DEF ReadPut
    <3>3. QED
      BY <2>3, <2>4, <3>1, <3>2, <1>t DEF ReadPut
  <2>5. CASE ReadMark(c)
    <3>1. (ReaderIn' <=> ReaderIn) /\ (WriterIn' <=> WriterIn)
      BY <2>5, <1>same DEF ReadMark
    <3>2. QED
      BY <2>3, <2>5, <3>1, <1>t DEF ReadMark
  <2>6. CASE ReadCas(c)
    <3>1. (ReaderIn' <=> ReaderIn) /\ (WriterIn' <=> WriterIn)
      BY <2>6, <1>same DEF ReadCas
    <3>2. QED
      BY <2>3, <2>6, <3>1, <1>t DEF ReadCas
  <2>7. CASE ReadFirst(c)
    <3>1. (ReaderIn' <=> ReaderIn) /\ (WriterIn' <=> WriterIn)
      BY <2>7, <1>t, <1>h, <1>same DEF ReadFirst
    <3>2. QED
      BY <2>3, <2>7, <3>1, <1>t DEF ReadFirst
  <2>8. CASE ReadRest(c)
    <3>1. CASE TickReader
      <4>1. block' = block /\ block[c] = "rest"
        BY <2>8, <3>1 DEF ReadRest, TickReader
      <4>2. QED
        BY <2>3, <2>8, <3>1, <4>1, <1>tick, <1>t DEF ReadRest
    <3>2. CASE ~TickReader
      <4>1. /\ first_node[c] \in Readers /\ block'[c] = "none" /\ reader_queue' = <<>>
            /\ coro' = [coro EXCEPT ![first_node[c]] = "held"]
        BY <2>8, <3>2, <1>t, <1>l DEF ReadRest, Located
      <4>2. ReaderIn' /\ (WriterIn' <=> WriterIn)
        BY <4>1, <1>t DEF ReaderIn, WriterIn
      <4>3. QED
        BY <2>3, <2>8, <3>2, <4>1, <4>2, <1>t DEF ReadRest
    <3>3. QED
      BY <3>1, <3>2
  <2>9. QED
    BY <1>2, <2>4, <2>5, <2>6, <2>7, <2>8 DEF ReadBlockStep
<1>3. ASSUME NEW c \in Readers, ReleaseRead(c) PROVE Settled'
  <2>1. Idle /\ Calm /\ ReaderIn
    BY <1>3, <1>free DEF ReleaseRead, ReaderIn
  <2>2. /\ shared_state = "ReadLock" /\ ~WriterIn /\ reader_queue = <<>>
        /\ WritersMarked /\ reader_queue_empty_bit = 0
    BY <2>1 DEF Calm, Agree, ReadersMarked
  <2>3. /\ coro[c] = "held" /\ coro'[c] = "released"
        /\ \A d \in Calls : d # c => coro'[d] = coro[d]
    BY <1>3, <1>t DEF ReleaseRead
  <2>4. ~WriterIn'
    BY <2>2, <2>3, <1>t DEF WriterIn
  <2>5. UNCHANGED <<shared_state, queues, bits, block>>
    BY <1>3 DEF ReleaseRead
  <2>6. (\A d \in Calls : d # c => rel'[d] = "none") /\ \A d \in Calls : block'[d] = "none"
    BY <1>3, <1>t, <2>1 DEF ReleaseRead, Idle
  <2>7. c \in Counted /\ reader_lock_count = Cardinality(Counted)
    BY <2>3 DEF Counted, Inv
  <2>8. CASE reader_lock_count = 1
    <3>0. PICK x : Counted = {x}
      BY <2>7, <2>8, CountPositive, FS_Singleton
    <3>1. Counted = {c}
      BY <2>7, <3>0
    <3>2. \A d \in Readers : coro'[d] \notin {"ticked", "held"}
      BY <2>3, <3>1, <1>t DEF Counted
    <3>3. ~ReaderIn'
      BY <3>2 DEF ReaderIn
    <3>4. rel'[c] = "r_bit"
      BY <1>3, <2>8, <1>t DEF ReleaseRead
    <3>5. RelSettled(c)'
      BY <2>2, <2>4, <2>5, <3>3, <3>4 DEF RelSettled, WritersMarked
    <3>6. QED
      BY <2>6, <3>4, <3>5, SettledByRelease, <1>t
  <2>9. CASE reader_lock_count # 1
    <3>0. Cardinality({c}) = 1
      BY FS_Singleton
    <3>1. Counted # {c}
      BY <2>7, <2>9, <3>0
    <3>2. PICK d \in Readers : d # c /\ d \in Counted
      BY <2>7, <3>1 DEF Counted
    <3>3. coro[d] \in {"ticked", "held"}
      BY <2>1, <2>2, <3>2, CountedMeansIn DEF Counted
    <3>4. ReaderIn'
      BY <2>3, <3>2, <3>3, <1>t DEF ReaderIn
    <3>5. rel'[c] = "none"
      BY <1>3, <2>9, <1>t DEF ReleaseRead
    <3>6. Calm' /\ RelSettled(c)'
      BY <2>2, <2>4, <2>5, <3>4, <3>5
      DEF Calm, Agree, ReadersMarked, WritersMarked, RelSettled
    <3>7. QED
      BY <2>6, <3>6, SettledByRelease, <1>t
  <2>10. QED
    BY <2>8, <2>9
<1>4. ASSUME NEW c \in Writers, AcquireWrite(c) PROVE Settled'
  <2>1. Idle /\ Calm
    BY <1>4, <1>free DEF AcquireWrite
  <2>2. (ReaderIn' <=> ReaderIn) /\ (WriterIn' <=> WriterIn)
    BY <1>4, <1>t, <1>same DEF AcquireWrite
  <2>3. block'[c] = "mark" /\ writer_queue' # <<>>
    BY <1>4, <1>t, <1>q DEF AcquireWrite
  <2>4. (\A d \in Calls : d # c => block'[d] = "none") /\ \A d \in Calls : rel'[d] = "none"
    BY <1>4, <1>t, <2>1 DEF AcquireWrite, Idle
  <2>5. WriteBlockSettled(c)'
    BY <1>4, <2>1, <2>2, <2>3 DEF AcquireWrite, WriteBlockSettled, Calm, Agree, ReadersMarked
  <2>6. QED
    BY <2>3, <2>4, <2>5, SettledByWriter
<1>5. ASSUME NEW c \in Writers, WriteBlockStep(c) PROVE Settled'
  <2> USE DEF WriteBlockSettled, Calm, Agree, ReadersMarked, WritersMarked
  <2>1. /\ block[c] # "none" /\ rel' = rel
        /\ \A d \in Calls : d # c => block'[d] = block[d]
    BY <1>5, <1>t DEF WriteBlockStep, WriteMark, WriteCas, WriteGet
  <2>2. /\ \A d \in Calls : d # c => block'[d] = "none"
        /\ \A d \in Calls : rel'[d] = "none"
    BY <2>1, <1>t DEF Alone
  <2>3. WriteBlockSettled(c)
    BY DEF Settled
  <2> SUFFICES (block'[c] = "none" => Calm') /\ WriteBlockSettled(c)'
    BY <2>2, SettledByWriter
  <2>4. CASE WriteMark(c)
    <3>1. (ReaderIn' <=> ReaderIn) /\ (WriterIn' <=> WriterIn)
      BY <2>4, <1>same DEF WriteMark
    <3>2. QED
      BY <2>3, <2>4, <3>1, <1>t DEF WriteMark
  <2>5. CASE WriteCas(c)
    <3>1. (ReaderIn' <=> ReaderIn) /\ (WriterIn' <=> WriterIn)
      BY <2>5, <1>same DEF WriteCas
    <3>2. QED
      BY <2>3, <2>5, <3>1, <1>t DEF WriteCas
  <2>6. CASE WriteGet(c)
    <3>1. /\ writer_queue # <<>> /\ block'[c] = "none"
          /\ coro' = [coro EXCEPT ![Head(writer_queue)] = "held"]
      BY <2>3, <2>6, <1>t DEF WriteGet
    <3>2. WriterIn' /\ (ReaderIn' <=> ReaderIn)
      BY <3>1, <1>t, <1>h DEF ReaderIn, WriterIn
    <3>3. QED
      BY <2>3, <2>6, <3>1, <3>2, <1>t DEF WriteGet
  <2>7. QED
    BY <1>5, <2>4, <2>5, <2>6 DEF WriteBlockStep
<1>6. ASSUME NEW c \in Writers, ReleaseWrite(c) PROVE Settled'
  <2>1. Idle /\ Calm /\ WriterIn
    BY <1>6, <1>free DEF ReleaseWrite, WriterIn
  <2>2. shared_state = "WriteLock" /\ ~ReaderIn /\ WritersMarked /\ ReadersMarked
    BY <2>1 DEF Calm, Agree
  <2>3. UNCHANGED <<shared_state, reader_queue, bits, block>> /\ coro[c] = "held"
    BY <1>6 DEF ReleaseWrite
  <2>4. (\A d \in Calls : d # c => rel'[d] = "none") /\ \A d \in Calls : block'[d] = "none"
    BY <1>6, <1>t, <2>1 DEF ReleaseWrite, Idle
  <2>5. CASE writer_queue # <<>>
    <3>1. /\ coro' = [coro EXCEPT ![c] = "released", ![Head(writer_queue)] = "ticked"]
          /\ rel'[c] = "none" /\ writer_queue' = Tail(writer_queue)
      BY <1>6, <2>1, <2>5, <1>t DEF ReleaseWrite, TickWriter, Idle
    <3>2. WriterIn' /\ (ReaderIn' <=> ReaderIn)
      BY <3>1, <2>5, <1>t, <1>h DEF ReaderIn, WriterIn
    <3>3. Calm' /\ RelSettled(c)'
      BY <2>2, <2>3, <2>5, <3>1, <3>2
      DEF Calm, Agree, ReadersMarked, WritersMarked, RelSettled
    <3>4. QED
      BY <2>4, <3>3, SettledByRelease, <1>t
  <2>6. CASE writer_queue = <<>>
    <3>1. /\ coro' = [coro EXCEPT ![c] = "released"]
          /\ rel'[c] = "w_load" /\ writer_queue' = <<>>
      BY <1>6, <2>6, <1>t DEF ReleaseWrite, TickWriter
    <3>2. \A d \in Writers : coro[d] \in {"ticked", "held"} => d = c
      BY <2>3 DEF OneWriteToken, WriteToken, Holdings, Calls
    <3>3. ~WriterIn' /\ (ReaderIn' <=> ReaderIn)
      BY <3>1, <3>2, <1>t DEF ReaderIn, WriterIn
    <3>4. RelSettled(c)'
      BY <2>2, <2>3, <3>1, <3>3 DEF ReadersMarked, WritersMarked, RelSettled
    <3>5. QED
      BY <2>4, <3>1, <3>4, SettledByRelease, <1>t
  <2>7. QED
    BY <2>5, <2>6
<1>7. ASSUME NEW c \in Calls, Resume(c) PROVE Settled'
  <2>1. Idle /\ Calm
    BY <1>7, <1>free DEF Resume
  <2>2. (ReaderIn' <=> ReaderIn) /\ (WriterIn' <=> WriterIn)
    BY <1>7, <1>t, <1>same DEF Resume
  <2>3. Calm'
    BY <1>7, <2>1, <2>2 DEF Resume, Calm, Agree, ReadersMarked, WritersMarked
  <2>4. \A d \in Calls : block'[d] = "none" /\ rel'[d] = "none"
    BY <1>7, <2>1 DEF Resume, Idle
  <2>5. RelSettled(c)'
    BY <2>4 DEF RelSettled
  <2>6. QED
    BY <2>3, <2>4, <2>5, SettledByRelease
<1>8. ASSUME NEW c \in Calls, RelStep(c) PROVE Settled'
  <2> USE DEF RelSettled, Calm, Agree, ReadersMarked, WritersMarked
  <2>1. rel[c] # "none" /\ block' = block /\ \A d \in Calls : d # c => rel'[d] = rel[d]
    BY <1>8, <1>t DEF RelStep, ReaderBit, ReaderUnlock, RelCas, RelLoad, WriteLoad,
       WriteToRead, DrainReaders, WriterBit, WriterUnlock, PostWriters, PostWriteCas,
       PostWriteGet, PostReaders, PostReadCas, PostReadFirst
  <2>2. /\ \A d \in Calls : d # c => rel'[d] = "none"
        /\ \A d \in Calls : block'[d] = "none"
    BY <2>1, <1>t DEF Alone
  <2>3. RelSettled(c)
    BY DEF Settled
  <2> SUFFICES (rel'[c] = "none" => Calm') /\ RelSettled(c)'
    BY <2>2, SettledByRelease
  <2>keep. coro' = coro => (ReaderIn' <=> ReaderIn) /\ (WriterIn' <=> WriterIn)
    BY <1>same
  <2>4. CASE ReaderBit(c)
    BY <2>3, <2>4, <2>keep, <1>t DEF ReaderBit
  <2>5. CASE ReaderUnlock(c)
    BY <2>3, <2>5, <2>keep, <1>t DEF ReaderUnlock, RelCas
  <2>6. CASE WriteLoad(c)
    BY <2>3, <2>6, <2>keep, <1>t DEF WriteLoad, RelLoad
  <2>7. CASE WriteToRead(c)
    BY <2>3, <2>7, <2>keep, <1>t DEF WriteToRead
  <2>8. CASE DrainReaders(c)
    <3>1. CASE TickReader
      <4>1. rel'[c] = "drain" /\ rel[c] = "drain"
        BY <2>8, <3>1 DEF DrainReaders, TickReader
      <4>2. QED
        BY <2>3, <2>8, <3>1, <4>1, <1>tick, <1>t DEF DrainReaders
    <3>2. CASE ~TickReader
      BY <2>3, <2>8, <3>2, <2>keep, <1>t DEF DrainReaders
    <3>3. QED
      BY <3>1, <3>2
  <2>9. CASE WriterBit(c)
    BY <2>3, <2>9, <2>keep, <1>t DEF WriterBit
  <2>10. CASE WriterUnlock(c)
    BY <2>3, <2>10, <2>keep, <1>t DEF WriterUnlock
  <2>11. CASE PostWriters(c)
    BY <2>3, <2>11, <2>keep, <1>t DEF PostWriters, RelLoad
  <2>12. CASE PostWriteCas(c)
    BY <2>3, <2>12, <2>keep, <1>t DEF PostWriteCas, RelCas
  <2>13. CASE PostWriteGet(c)
    <3>1. CASE writer_queue # <<>>
      <4>1. /\ coro' = [coro EXCEPT ![c] = "released", ![Head(writer_queue)] = "ticked"]
            /\ rel'[c] = "none" /\ writer_queue' = Tail(writer_queue) /\ coro[c] = "released"
        BY <2>13, <3>1, <1>t, <1>l DEF PostWriteGet, TickWriter, Located
      <4>2. WriterIn' /\ (ReaderIn' <=> ReaderIn)
        BY <3>1, <4>1, <1>t, <1>h DEF ReaderIn, WriterIn
      <4>3. QED
        BY <2>3, <2>13, <3>1, <4>1, <4>2, <1>t DEF PostWriteGet
    <3>2. CASE writer_queue = <<>>
      BY <2>3, <2>13, <3>2, <2>keep, <1>t DEF PostWriteGet, TickWriter
    <3>3. QED
      BY <3>1, <3>2
  <2>14. CASE PostReaders(c)
    BY <2>3, <2>14, <2>keep, <1>t DEF PostReaders, RelLoad
  <2>15. CASE PostReadCas(c)
    BY <2>3, <2>15 DEF PostReadCas, RelCas
  <2>16. CASE PostReadFirst(c)
    BY <2>3, <2>16 DEF PostReadFirst
  <2>17. QED
    BY <1>8, <2>4, <2>5, <2>6, <2>7, <2>8, <2>9, <2>10, <2>11, <2>12, <2>13, <2>14,
       <2>15, <2>16 DEF RelStep
<1>9. CASE Deinit
  <2>1. Idle /\ Calm /\ NobodyIn
    BY <1>9, BusyEmpty DEF Deinit, Quiet, Granted, Settled, ReaderIn, WriterIn, Calls
  <2>2. (ReaderIn' <=> ReaderIn) /\ (WriterIn' <=> WriterIn)
    BY <1>9, <1>same DEF Deinit
  <2>3. Calm'
    BY <1>9, <2>1, <2>2, <1>t DEF Deinit, Calm, Agree, ReadersMarked, WritersMarked
  <2>4. \A d \in Calls : block'[d] = "none" /\ rel'[d] = "none"
    BY <1>9, <2>1 DEF Deinit, Idle
  <2>5. QED
    BY <2>3, <2>4, <1>t
    DEF Settled, ReadBlockSettled, WriteBlockSettled, RelSettled
<1>10. CASE UNCHANGED vars
  BY <1>10 DEF vars, Settled, Idle, Calm, Agree, ReadersMarked, WritersMarked, ReaderIn,
     WriterIn, ReadBlockSettled, WriteBlockSettled, RelSettled
<1>11. QED
  BY <1>1, <1>2, <1>3, <1>4, <1>5, <1>6, <1>7, <1>8, <1>9, <1>10 DEF Next

LEMMA OneThreadHolds == Spec => []OneThread
<1>1. Init => Alone /\ Accounted /\ Settled
  <2> SUFFICES ASSUME Init PROVE Alone /\ Accounted /\ Settled
    OBVIOUS
  <2>1. /\ \A c \in Calls : block[c] = "none" /\ rel[c] = "none" /\ coro[c] = "idle"
        /\ live /\ Readers \subseteq Calls /\ Writers \subseteq Calls
    BY DEF Init, Calls
  <2>2. NobodyIn
    BY <2>1 DEF NobodyIn, ReaderIn, WriterIn
  <2>3. Calm
    BY <2>2 DEF Init, Calm, Agree, ReadersMarked, WritersMarked, NobodyIn, NoReaderWaits,
       NoWriterWaits
  <2>4. Settled
    BY <2>1, <2>3 DEF Settled, ReadBlockSettled, WriteBlockSettled, RelSettled
  <2>5. Alone /\ Accounted
    BY <2>1 DEF Alone, Accounted
  <2>6. QED
    BY <2>4, <2>5
<1>2. Inv /\ OneWriteToken /\ OneThread /\ [Next]_vars => OneThread'
  BY AloneInductive, AccountedInductive, SettledInductive, ThreadsFixed DEF OneThread
<1>3. Init => OneWriteToken
  BY DEF Init, OneWriteToken, WriteToken, Holdings, Calls
<1>4. Init => OneThread
  BY <1>1 DEF OneThread
<1>5. QED
  BY <1>2, <1>3, <1>4, InvHolds, TokenInductive, PTL DEF Spec

\* On a loop with one thread no reader has the lock while a writer has it, for
\* any number of readers and writers.
THEOREM ReadersExcluded == Spec => []WriterExcludesReaders
<1>1. Inv /\ OneThread => WriterExcludesReaders
  <2> SUFFICES ASSUME Inv, OneThread, num_threads = 1, NEW w \in Writers, NEW r \in Readers,
                      coro[w] = "held", coro[r] = "held"
               PROVE  FALSE
    BY DEF WriterExcludesReaders, WritingIsExclusive
  <2>1. ReaderIn /\ WriterIn /\ Settled
    BY DEF ReaderIn, WriterIn, OneThread
  <2>2. \A c \in Calls : rel[c] = "none"
    BY <2>1 DEF Settled, RelSettled
  <2>3. \A c \in Readers : block[c] \notin {"put", "mark", "cas", "first", "rest"}
    BY <2>1 DEF Settled, ReadBlockSettled, Agree, Calm
  <2>4. \A c \in Writers : block[c] \notin {"mark", "cas", "get"}
    BY <2>1 DEF Settled, WriteBlockSettled, Agree, NobodyIn
  <2>5. \A c \in Calls : block[c] = "none"
    BY <2>3, <2>4 DEF Inv, TypeOK, Located, BlockStates, Calls
  <2>6. QED
    BY <2>1, <2>2, <2>5 DEF Settled, Calm, Agree, Idle
<1>2. QED
  BY <1>1, InvHolds, OneThreadHolds, PTL

\* On a loop with one thread no release() leaves a waiter behind: when nothing
\* runs and nobody has the lock, it is unlocked and both queues are empty.
THEOREM NobodyLeftWaiting == Spec => []NoStrandedWaiter
<1>1. Inv /\ OneThread => NoStrandedWaiter
  <2> SUFFICES ASSUME Inv, OneThread, num_threads = 1, Quiet
               PROVE  writer_queue = <<>> /\ reader_queue = <<>> /\ shared_state = "Unlocked"
    BY DEF NoStrandedWaiter
  <2>1. Idle /\ Calm
    BY BusyEmpty DEF Quiet, OneThread, Settled
  <2>2. NobodyIn
    BY DEF Quiet, Granted, NobodyIn, ReaderIn, WriterIn, Calls
  <2>3. QED
    BY <2>1, <2>2 DEF Calm, Agree, NobodyIn, NoReaderWaits, NoWriterWaits, Inv, TypeOK
<1>2. QED
  BY <1>1, InvHolds, OneThreadHolds, PTL
=============================================================================
