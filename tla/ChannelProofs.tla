--------------------------- MODULE ChannelProofs ---------------------------
(***************************************************************************)
(* Theorems about std.event.Channel for any number of calls and threads.   *)
(***************************************************************************)
EXTENDS Channel, FiniteSetTheorems, TLAPS

(* Queues without repetitions: what put() and get() do. *)
InQueue(q, x) == \E i \in 1..Len(q) : q[i] = x

Distinct(q) == \A i, j \in 1..Len(q) : q[i] = q[j] => i = j

\* A new queue holds nothing.
LEMMA EmptyQueue == Distinct(<<>>) /\ \A x : ~InQueue(<<>>, x)
BY DEF Distinct, InQueue

\* put() adds one node behind the others.
LEMMA PutQueue ==
  ASSUME NEW S, NEW q \in Seq(S), NEW e \in S, Distinct(q), ~InQueue(q, e)
  PROVE  /\ Append(q, e) \in Seq(S) /\ Append(q, e) # <<>>
         /\ Distinct(Append(q, e))
         /\ \A x : InQueue(Append(q, e), x) <=> InQueue(q, x) \/ x = e
<1> DEFINE n == Len(q)
           p == Append(q, e)
<1>1. /\ n \in Nat /\ Len(p) = n + 1 /\ p[n + 1] = e /\ p \in Seq(S)
      /\ \A i \in 1..n : p[i] = q[i]
  OBVIOUS
<1>2. \A i \in 1..n : q[i] # e
  BY DEF InQueue
<1>3. \A i, j \in 1..n : q[i] = q[j] => i = j
  BY DEF Distinct
<1> HIDE DEF p, n
<1>4. \A i, j \in 1..(n + 1) : p[i] = p[j] => i = j
  BY <1>1, <1>2, <1>3
<1>5. ASSUME NEW x, \E i \in 1..n : q[i] = x PROVE \E i \in 1..(n + 1) : p[i] = x
  BY <1>1, <1>5
<1>6. ASSUME NEW x, \E i \in 1..(n + 1) : p[i] = x
      PROVE  (\E i \in 1..n : q[i] = x) \/ x = e
  BY <1>1, <1>6
<1>7. \E i \in 1..(n + 1) : p[i] = e
  BY <1>1
<1>8. p # <<>>
  BY <1>1
<1>9. QED
  BY <1>1, <1>4, <1>5, <1>6, <1>7, <1>8 DEF Distinct, InQueue, n, p

\* get() takes the first node and leaves the others.
LEMMA GetQueue ==
  ASSUME NEW S, NEW q \in Seq(S), q # <<>>, Distinct(q)
  PROVE  /\ Head(q) \in S /\ InQueue(q, Head(q))
         /\ Tail(q) \in Seq(S) /\ Len(Tail(q)) = Len(q) - 1
         /\ Distinct(Tail(q))
         /\ \A x : InQueue(Tail(q), x) <=> InQueue(q, x) /\ x # Head(q)
<1> DEFINE n == Len(q)
           p == Tail(q)
<1>1. /\ n \in Nat /\ n >= 1 /\ Len(p) = n - 1 /\ p \in Seq(S)
      /\ Head(q) = q[1] /\ q[1] \in S
      /\ \A i \in 1..(n - 1) : p[i] = q[i + 1]
  OBVIOUS
<1>2. \A i, j \in 1..n : q[i] = q[j] => i = j
  BY DEF Distinct
<1> HIDE DEF p, n
<1>3. \A i, j \in 1..(n - 1) : p[i] = p[j] => i = j
  BY <1>1, <1>2
<1>4. ASSUME NEW x, \E i \in 1..(n - 1) : p[i] = x
      PROVE  (\E i \in 1..n : q[i] = x) /\ x # q[1]
  <2>1. PICK i \in 1..(n - 1) : p[i] = x
    BY <1>4
  <2>2. i + 1 \in 1..n /\ q[i + 1] = x /\ i + 1 # 1
    BY <1>1, <2>1
  <2>3. QED
    BY <1>1, <1>2, <2>2
<1>5. ASSUME NEW x, \E i \in 1..n : q[i] = x, x # q[1]
      PROVE  \E i \in 1..(n - 1) : p[i] = x
  <2>1. PICK i \in 1..n : q[i] = x
    BY <1>5
  <2>2. i - 1 \in 1..(n - 1) /\ p[i - 1] = x
    BY <1>1, <1>5, <2>1
  <2>3. QED
    BY <2>2
<1>6. \E i \in 1..n : q[i] = q[1]
  BY <1>1
<1>7. QED
  BY <1>1, <1>3, <1>4, <1>5, <1>6 DEF Distinct, InQueue, n, p

-----------------------------------------------------------------------------
(* The inductive invariant, part by part. *)

\* The thread in a call's suspend block.
DRec == [pc : PcStates, gets : 0..(UsizeRange - 1), puts : 0..(UsizeRange - 1), removed : Nat]

\* The types; what a call can be at, and that it has not begun.
Typed ==
  /\ getters \in Seq(Getters) /\ putters \in Seq(Puts) /\ or_null_queue \in Seq(OrNulls)
  /\ get_count \in 0..(UsizeRange - 1) /\ put_count \in 0..(UsizeRange - 1)
  /\ dispatch_lock \in {0, 1} /\ need_dispatch \in {0, 1}
  /\ \E n \in Capacities : /\ buffer_nodes \in [0..(n - 1) -> Puts \cup {None}]
                           /\ buffer_index \in 0..n
  /\ buffer_len \in 0..buffer_index
  /\ coro \in [Calls -> {"idle", "waiting", "resumed", "twice", "cancelled"}]
  /\ result \in [Getters -> Puts \cup {None}]
  /\ d \in [Calls -> DRec]
  /\ \A c \in Calls : /\ d[c].pc = "or_null" => c \in OrNulls
                      /\ coro[c] = "idle" => d[c].pc = "none"
  /\ overrun \in BOOLEAN /\ live \in BOOLEAN
  /\ arrivals \in Seq(Calls)
  /\ num_threads \in ThreadCounts

-----------------------------------------------------------------------------
(* Who is where. *)

\* Until it is served, and only until then, a call is in its queue.
Queued ==
  /\ Distinct(getters) /\ Distinct(putters)
  /\ \A c \in Puts : InQueue(putters, c) <=> coro[c] = "waiting"
  /\ \A c \in Getters : InQueue(getters, c) <=> coro[c] = "waiting"

\* A getOrNull() runs on a loop with one thread, so its node is in both queues
\* before anybody serves it.
OrNullsQueued ==
  /\ Distinct(or_null_queue)
  /\ \A n \in OrNulls : coro[n] # "idle" => num_threads = 1
  /\ \A n \in OrNulls : d[n].pc \in {"count", "or_null"}
                          => coro[n] = "waiting" /\ ~InQueue(or_null_queue, n)
  /\ live => \A n \in OrNulls :
       /\ InQueue(or_null_queue, n) => coro[n] = "waiting"
       /\ coro[n] = "waiting" =>
            InQueue(or_null_queue, n) \/ d[n].pc \in {"count", "or_null"}

\* The calls whose suspend block a thread is in.
Busy == {c \in Calls : d[c].pc # "none"}

\* Nobody is resumed twice, the channel outlives its threads, and a loop with
\* one thread is in one block.
Placed ==
  /\ \A c \in Calls : /\ coro[c] # "twice"
                      /\ ~live => d[c].pc = "none"
                      /\ live => coro[c] # "cancelled"
  /\ num_threads = 1 => \A c, e \in Busy : c = e

-----------------------------------------------------------------------------
(* The counts. *)

\* Where the thread inside dispatch() has subtracted a getter, or a put, that
\* it has not taken.
GetClaim == {"sub_put", "from_buffer", "direct", "direct_sub_put", "fill", "fill_sub", "add_get"}
PutClaim == {"from_buffer", "buffer_sub", "direct", "fill", "add_get", "add_put"}

\* What the counts stand for.
G == Len(getters) - Uncounted(Getters)
P == Len(putters) - Uncounted(Puts)

\* Its claim.
Debt(pc, claim) == IF pc \in claim THEN 1 ELSE 0

\* The counts, but for what the thread inside dispatch() has claimed.
Counted ==
  /\ G >= 0 /\ P >= 0
  /\ (\A c \in Calls : ~Inside(c)) => get_count = Usize(G) /\ put_count = Usize(P)
  /\ \A c \in Calls : Inside(c) =>
       /\ get_count = Usize(G - Debt(d[c].pc, GetClaim) + d[c].removed)
       /\ put_count = Usize(P - Debt(d[c].pc, PutClaim))

\* What the thread inside dispatch() knows of the queues.
Local(c) ==
  /\ d[c].pc \in GetClaim /\ d[c].gets # 0 => G >= 1
  /\ d[c].pc \in PutClaim /\ d[c].puts # 0 => P >= 1
  /\ d[c].pc \in {"direct", "direct_sub_get", "direct_sub_put"} => buffer_len = 0
  /\ d[c].pc = "fill" => d[c].gets = 0 \/ (d[c].puts = 0 /\ buffer_len = 0)
  /\ d[c].pc = "fill_sub" => d[c].gets = 0
  /\ d[c].pc # "or_nulls" => d[c].removed = 0
  /\ d[c].removed + Len(or_null_queue) <= Cardinality(OrNulls)

\* The counts of a live channel.
Numbers == live => Counted /\ \A c \in Calls : Local(c)

-----------------------------------------------------------------------------
(* Nobody is stranded. *)

\* Somebody has counted itself and the thread inside will look again.
Announced ==
  \/ \E c \in Calls : d[c].pc \in {"or_null", "need"}
  \/ need_dispatch = 1 /\ \E c \in Calls : d[c].pc \in {"lock", "recheck"} \/ Inside(c)

\* Nobody waits for what is there.
Done ==
  /\ G >= 1 => P = 0 /\ buffer_len = 0
  /\ capacity \in {0, 1} /\ P >= 1 => buffer_len = capacity

\* The copies of the counts are still right, and the queues are empty where
\* dispatch() has found them so.
Known(c) ==
  /\ d[c].pc \in GetClaim => d[c].gets = G
  /\ d[c].pc \in PutClaim => d[c].puts = P
  /\ d[c].pc \in {"add_get", "add_put", "or_nulls", "test", "unlock"} => Done
  /\ d[c].pc \in {"test", "unlock"} => or_null_queue = <<>>

\* Either somebody is on its way to look again, or there is nothing to do but
\* what the thread inside is about to do.
Settled ==
  live /\ ~Announced =>
    /\ \A c \in Calls : Known(c)
    /\ (\A c \in Calls : ~Inside(c)) => Done /\ or_null_queue = <<>>

-----------------------------------------------------------------------------
(* The values. *)

\* The places of the buffer in use.
Window == (buffer_index - buffer_len)..(buffer_index - 1)

\* A value is with one getter or in one place of the buffer, and there once its
\* put() has been resumed.
Given ==
  /\ \A g \in Getters : result[g] # None =>
       /\ coro[g] = "resumed" /\ coro[result[g]] = "resumed"
       /\ \A i \in Window : buffer_nodes[i] # result[g]
       /\ \A h \in Getters : result[h] = result[g] => h = g
  /\ \A g \in Gets : coro[g] = "resumed" => result[g] # None
  /\ \A i \in Window : /\ buffer_nodes[i] \in Puts /\ coro[buffer_nodes[i]] = "resumed"
                       /\ \A j \in Window : buffer_nodes[i] = buffer_nodes[j] => i = j
  /\ \A p \in Puts : coro[p] = "resumed" =>
       (\E g \in Getters : result[g] = p) \/ \E i \in Window : buffer_nodes[i] = p

-----------------------------------------------------------------------------
(* The order. *)

\* The nodes of q are in the order of their arrival.
Sorted(q) == \A i, j \in 1..Len(q) : i < j => Before(q[i], q[j])

\* Not resumed, though it has begun.
Unserved == {"waiting", "cancelled"}

\* The calls served came before those that are not, and the values in the
\* getters' hands before those in the buffer.
Ordered ==
  /\ Distinct(arrivals)
  /\ \A c \in Calls : InQueue(arrivals, c) <=> coro[c] # "idle"
  /\ Sorted(getters) /\ Sorted(putters)
  /\ \A g, h \in Getters : result[g] # None /\ coro[h] \in Unserved => Before(g, h)
  /\ \A p, q \in Puts : coro[p] = "resumed" /\ coro[q] \in Unserved => Before(p, q)
  /\ \A g \in Getters : \A i \in Window : result[g] # None => Before(result[g], buffer_nodes[i])
  /\ \A i, j \in Window : i < j => Before(buffer_nodes[i], buffer_nodes[j])
  /\ \A g, h \in Getters : result[g] # None /\ result[h] # None /\ Before(g, h)
       => Before(result[g], result[h])
-----------------------------------------------------------------------------
(* Arithmetic of usize. *)

\* usize has at least one value.
LEMMA RangeType == UsizeRange \in Nat \ {0}
<1>1. IsFiniteSet(Puts \cup Gets) /\ IsFiniteSet(Puts \cup Gets \cup OrNulls)
  BY ChannelAssumption, FS_Union
<1>2. Cardinality(Puts \cup Gets \cup OrNulls) \in Nat
  BY <1>1, FS_CardinalityType
<1>3. QED
  BY <1>2, ChannelAssumption

\* Quotient and remainder.
LEMMA Division ==
  ASSUME NEW a \in Int, NEW b \in Nat \ {0}
  PROVE  \E q \in Int, r \in 0..(b - 1) : a = q * b + r /\ a % b = r
<1> DEFINE u == a \div b
           v == a % b
<1>1. u \in Int
  OBVIOUS
<1>2. v \in 0..(b - 1)
  OBVIOUS
<1>3. a = b * u + v
  OBVIOUS
<1> SUFFICES \E q \in Int, r \in 0..(b - 1) : a = q * b + r /\ v = r
  OBVIOUS
<1> HIDE DEF u, v
<1>4. a = u * b + v
  BY <1>1, <1>2, <1>3
<1>5. QED
  BY <1>1, <1>2, <1>4

\* There is one remainder.
LEMMA OneRemainder ==
  ASSUME NEW a \in Int, NEW b \in Nat \ {0}, NEW q \in Int, NEW r \in 0..(b - 1), a = q * b + r
  PROVE  a % b = r
<1>1. PICK u \in Int, v \in 0..(b - 1) : a = u * b + v /\ a % b = v
  BY Division
<1> SUFFICES v = r
  BY <1>1
<1>2. CASE q = u
  BY <1>1, <1>2
<1>3. CASE q >= u + 1
  <2>1. q * b >= (u + 1) * b
    BY <1>1, <1>3
  <2>2. (u + 1) * b = u * b + b
    BY <1>1
  <2>3. QED
    BY <1>1, <2>1, <2>2
<1>4. CASE u >= q + 1
  <2>1. u * b >= (q + 1) * b
    BY <1>1, <1>4
  <2>2. (q + 1) * b = q * b + b
    BY <1>1
  <2>3. QED
    BY <1>1, <2>1, <2>2
<1>5. QED
  BY <1>1, <1>2, <1>3, <1>4

\* An atomic addition or subtraction wraps around, and so does the number it
\* is done on.
LEMMA UsizeShift ==
  ASSUME NEW x \in Int, NEW k \in Int
  PROVE  Usize(Usize(x) + k) = Usize(x + k)
<1> DEFINE N == UsizeRange
<1>0. N \in Nat \ {0}
  BY RangeType
<1> HIDE DEF N
<1>1. PICK q \in Int, r \in 0..(N - 1) : x = q * N + r /\ x % N = r
  BY <1>0, Division
<1>r. PICK y \in Int : y = r + k
  BY <1>0, <1>1
<1>s. PICK z \in Int : z = x + k
  OBVIOUS
<1>2. PICK u \in Int, v \in 0..(N - 1) : y = u * N + v /\ y % N = v
  BY <1>0, Division
<1>3. z = (q + u) * N + v /\ q + u \in Int
  <2>1. (q + u) * N = q * N + u * N
    BY <1>0, <1>1, <1>2
  <2>2. q * N \in Int /\ u * N \in Int
    BY <1>0, <1>1, <1>2
  <2>3. QED
    BY <1>0, <1>1, <1>2, <1>r, <1>s, <2>1, <2>2
<1>4. z % N = v
  BY <1>0, <1>2, <1>3, OneRemainder
<1>5. QED
  BY <1>1, <1>2, <1>4, <1>r, <1>s DEF Usize, N

\* usize arithmetic changes no value that fits.
LEMMA UsizeSmall ==
  /\ \A x \in Int : Usize(x) \in 0..(UsizeRange - 1)
  /\ \A x \in 0..(UsizeRange - 1) : Usize(x) = x
<1>1. ASSUME NEW x \in Int PROVE Usize(x) \in 0..(UsizeRange - 1)
  BY <1>1, RangeType, Division DEF Usize
<1>2. ASSUME NEW x \in 0..(UsizeRange - 1) PROVE Usize(x) = x
  <2>1. x = 0 * UsizeRange + x /\ x \in Int
    BY RangeType
  <2>2. QED
    BY <2>1, RangeType, OneRemainder DEF Usize
<1>3. QED
  BY <1>1, <1>2

-----------------------------------------------------------------------------
(* Queues. *)

\* remove() takes one node out.
LEMMA RemoveQueue ==
  ASSUME NEW S, NEW q \in Seq(S), Distinct(q), NEW e, InQueue(q, e)
  PROVE  /\ Without(q, e) \in Seq(S) /\ Len(Without(q, e)) = Len(q) - 1
         /\ Distinct(Without(q, e))
         /\ \A x : InQueue(Without(q, e), x) <=> InQueue(q, x) /\ x # e
         /\ \A i, j \in 1..Len(Without(q, e)) : i < j =>
              \E k, l \in 1..Len(q) : k < l /\ Without(q, e)[i] = q[k] /\ Without(q, e)[j] = q[l]
<1> DEFINE n == Len(q)
           k == CHOOSE k \in 1..Len(q) : q[k] = e
           w == [i \in 1..(n - 1) |-> IF i < k THEN q[i] ELSE q[i + 1]]
<1>1. k \in 1..n /\ q[k] = e
  BY DEF InQueue
<1>2. Without(q, e) = w
  BY DEF InQueue, Without
<1>3. n \in Nat /\ n >= 1 /\ \A i \in 1..n : q[i] \in S
  BY <1>1
<1>4. \A i, j \in 1..n : q[i] = q[j] => i = j
  BY DEF Distinct
<1> HIDE DEF k, n
<1>5. /\ \A i \in 1..(n - 1) : w[i] = IF i < k THEN q[i] ELSE q[i + 1]
      /\ \A i \in 1..(n - 1) : w[i] \in S
  BY <1>1, <1>3
<1>6. w \in Seq(S) /\ Len(w) = n - 1
  BY <1>3, <1>5
<1> HIDE DEF w
<1>7. \A i, j \in 1..(n - 1) : w[i] = w[j] => i = j
  BY <1>1, <1>3, <1>4, <1>5
<1>8. \A i, j \in 1..(n - 1) : i < j =>
        \E a, b \in 1..n : a < b /\ w[i] = q[a] /\ w[j] = q[b]
  <2> TAKE i, j \in 1..(n - 1)
  <2> HAVE i < j
  <2> DEFINE a == IF i < k THEN i ELSE i + 1
             b == IF j < k THEN j ELSE j + 1
  <2>1. a \in 1..n /\ b \in 1..n /\ a < b /\ w[i] = q[a] /\ w[j] = q[b]
    BY <1>1, <1>3, <1>5
  <2>2. QED
    BY <2>1
<1>9. ASSUME NEW x, \E i \in 1..(n - 1) : w[i] = x PROVE (\E i \in 1..n : q[i] = x) /\ x # e
  <2>1. PICK i \in 1..(n - 1) : w[i] = x
    BY <1>9
  <2>2. CASE i < k
    BY <2>1, <2>2, <1>1, <1>3, <1>4, <1>5
  <2>3. CASE ~(i < k)
    <3>1. i + 1 \in 1..n /\ q[i + 1] = x /\ i + 1 # k
      BY <2>1, <2>3, <1>1, <1>3, <1>5
    <3>2. QED
      BY <3>1, <1>1, <1>4
  <2>4. QED
    BY <2>2, <2>3
<1>10. ASSUME NEW x, \E i \in 1..n : q[i] = x, x # e PROVE \E i \in 1..(n - 1) : w[i] = x
  <2>1. PICK i \in 1..n : q[i] = x
    BY <1>10
  <2>2. CASE i < k
    BY <2>1, <2>2, <1>1, <1>3, <1>5
  <2>3. CASE i > k
    <3>1. i - 1 \in 1..(n - 1) /\ w[i - 1] = x
      BY <2>1, <2>3, <1>1, <1>3, <1>5
    <3>2. QED
      BY <3>1
  <2>4. QED
    BY <2>1, <2>2, <2>3, <1>1, <1>3, <1>10
<1>11. Distinct(w) /\ \A x : InQueue(w, x) <=> InQueue(q, x) /\ x # e
  BY <1>6, <1>7, <1>9, <1>10 DEF Distinct, InQueue, n
<1>12. w \in Seq(S) /\ Len(w) = Len(q) - 1
  BY <1>6 DEF n
<1>13. \A i, j \in 1..Len(w) : i < j =>
         \E a, b \in 1..n : a < b /\ w[i] = q[a] /\ w[j] = q[b]
  <2> SUFFICES ASSUME NEW i \in 1..Len(w), NEW j \in 1..Len(w), i < j
               PROVE  \E a, b \in 1..n : a < b /\ w[i] = q[a] /\ w[j] = q[b]
    OBVIOUS
  <2>1. i \in 1..(n - 1) /\ j \in 1..(n - 1)
    BY <1>6
  <2>2. QED
    BY <2>1, <1>8
<1>14. QED
  BY <1>2, <1>11, <1>12, <1>13, Zenon DEF n

\* Removing a node that is not there.
LEMMA RemoveNothing ==
  ASSUME NEW q, NEW e, ~InQueue(q, e)
  PROVE  Without(q, e) = q
BY DEF InQueue, Without

\* Removing a node, there or not.
LEMMA WithoutType ==
  ASSUME NEW S, NEW q \in Seq(S), Distinct(q), NEW e
  PROVE  /\ Without(q, e) \in Seq(S) /\ Distinct(Without(q, e))
         /\ Len(q) - Len(Without(q, e)) \in {0, 1}
         /\ \A x : InQueue(Without(q, e), x) <=> InQueue(q, x) /\ x # e
<1>1. CASE InQueue(q, e)
  BY <1>1, RemoveQueue
<1>2. CASE ~InQueue(q, e)
  BY <1>2, RemoveNothing
<1>3. QED
  BY <1>1, <1>2

\* A queue without repetition is no longer than the set of its nodes.
LEMMA QueueLength ==
  ASSUME NEW S, IsFiniteSet(S), NEW q \in Seq(S), Distinct(q)
  PROVE  Len(q) <= Cardinality(S) /\ Cardinality(S) \in Nat
<1>1. q \in [1..Len(q) -> S] /\ Len(q) \in Nat
  OBVIOUS
<1>2. q \in Injection(1..Len(q), S)
  BY <1>1 DEF Injection, IsInjective, Distinct
<1>3. Cardinality(1..Len(q)) <= Cardinality(S)
  BY <1>2, FS_Injection
<1>4. Cardinality(1..Len(q)) = Len(q)
  <2>1. PICK n \in Nat : n = Len(q)
    BY <1>1
  <2>2. Cardinality(1..n) = n
    BY FS_Interval
  <2>3. QED
    BY <2>1, <2>2
<1>5. QED
  BY <1>3, <1>4, FS_CardinalityType
\* The same of any queue.
LEMMA WithoutSeq ==
  ASSUME NEW S, NEW q \in Seq(S), NEW e
  PROVE  Without(q, e) \in Seq(S) /\ Len(q) - Len(Without(q, e)) \in {0, 1}
<1>1. CASE InQueue(q, e)
  <2> DEFINE n == Len(q)
             k == CHOOSE k \in 1..Len(q) : q[k] = e
             w == [i \in 1..(n - 1) |-> IF i < k THEN q[i] ELSE q[i + 1]]
  <2>1. k \in 1..n /\ n \in Nat /\ \A i \in 1..n : q[i] \in S
    BY <1>1 DEF InQueue
  <2>2. Without(q, e) = w
    BY <1>1 DEF InQueue, Without
  <2> HIDE DEF k, n
  <2>3. n - 1 \in Nat /\ \A i \in 1..(n - 1) : w[i] \in S
    BY <2>1
  <2>4. w \in Seq(S) /\ Len(w) = n - 1
    BY <2>3
  <2>5. QED
    BY <2>1, <2>2, <2>4 DEF n
<1>2. CASE ~InQueue(q, e)
  BY <1>2, RemoveNothing
<1>3. QED
  BY <1>1, <1>2

-----------------------------------------------------------------------------
(* Types. *)

\* put(), get() and getOrNull() are different calls.
LEMMA CallSets ==
  /\ Puts \subseteq Calls /\ Getters \subseteq Calls
  /\ Gets \subseteq Getters /\ OrNulls \subseteq Getters
  /\ Puts \cap Getters = {} /\ Gets \cap OrNulls = {}
  /\ Calls = Puts \cup Getters /\ Getters = Gets \cup OrNulls
BY ChannelAssumption DEF Calls, Getters

\* A new channel is well typed.
LEMMA TypedInit == Init => Typed
<1> SUFFICES ASSUME Init PROVE Typed
  OBVIOUS
<1>1. Out \in DRec
  BY RangeType DEF Out, DRec, PcStates
<1>2. PICK n \in Capacities : buffer_nodes = [i \in 0..(n - 1) |-> None]
  BY DEF Init
<1>3. n \in Nat /\ buffer_nodes \in [0..(n - 1) -> Puts \cup {None}]
  BY <1>2, ChannelAssumption
<1>4. /\ buffer_index \in 0..n /\ buffer_len \in 0..buffer_index
      /\ get_count \in 0..(UsizeRange - 1) /\ put_count \in 0..(UsizeRange - 1)
  BY <1>3, RangeType DEF Init
<1>5. /\ d \in [Calls -> DRec]
      /\ coro \in [Calls -> {"idle", "waiting", "resumed", "twice", "cancelled"}]
      /\ result \in [Getters -> Puts \cup {None}]
  BY <1>1 DEF Init
<1>6. /\ getters \in Seq(Getters) /\ putters \in Seq(Puts) /\ or_null_queue \in Seq(OrNulls)
      /\ arrivals \in Seq(Calls)
      /\ dispatch_lock \in {0, 1} /\ need_dispatch \in {0, 1}
  BY DEF Init
<1>7. overrun \in BOOLEAN /\ live \in BOOLEAN /\ num_threads \in ThreadCounts
  BY Zenon DEF Init
<1>8. \A c \in Calls : d[c].pc = "none"
  BY DEF Init, Out
<1>9. QED
  BY <1>3, <1>4, <1>5, <1>6, <1>7, <1>8 DEF Typed

\* A step of c changes the record of its thread only.
LEMMA ThreadStep ==
  ASSUME Typed, NEW c \in Calls, BlockStep(c) \/ Begin(c)
  PROVE  /\ d' \in [Calls -> DRec] /\ d'[c] \in DRec
         /\ d' = [d EXCEPT ![c] = d'[c]]
<1> USE DEF At, GoTo
<1>0. d \in [Calls -> DRec] /\ d[c] \in DRec
  BY DEF Typed
<1>1. ASSUME NEW r \in DRec, d' = [d EXCEPT ![c] = r]
      PROVE  d' \in [Calls -> DRec] /\ d'[c] \in DRec /\ d' = [d EXCEPT ![c] = d'[c]]
  <2>1. d'[c] = r
    BY <1>0, <1>1
  <2>2. d' \in [Calls -> DRec]
    BY <1>0, <1>1
  <2>3. QED
    BY <1>1, <2>1, <2>2
<1>2. ASSUME NEW pc \in PcStates, d' = [d EXCEPT ![c].pc = pc]
      PROVE  d' \in [Calls -> DRec] /\ d'[c] \in DRec /\ d' = [d EXCEPT ![c] = d'[c]]
  <2>1. [d[c] EXCEPT !.pc = pc] \in DRec
    BY <1>0, <1>2 DEF DRec
  <2>2. QED
    BY <1>1, <1>2, <2>1
<1>3. Out \in DRec
  BY RangeType DEF Out, DRec, PcStates
<1>4. CASE Begin(c) \/ Count(c) \/ QueueOrNull(c) \/ SetNeed(c) \/ ClearNeed(c) \/ TestNeed(c)
           \/ Unlock(c) \/ GiveBuffered(c) \/ BufferDone(c) \/ HandOver(c) \/ DirectDone(c)
           \/ FillDone(c)
  <2>1. PICK pc \in PcStates : d' = [d EXCEPT ![c].pc = pc]
    BY <1>4, Zenon DEF Begin, Count, QueueOrNull, SetNeed, ClearNeed, TestNeed, Unlock, GiveBuffered,
       BufferDone, HandOver, DirectDone, FillDone, PcStates
  <2>2. QED
    BY <2>1, <1>2
<1>5. CASE Lock(c) \/ Recheck(c)
  <2>1. d' = [d EXCEPT ![c] = Out] \/ \E pc \in PcStates : d' = [d EXCEPT ![c].pc = pc]
    BY <1>0, <1>5 DEF Lock, Recheck, PcStates
  <2>2. QED
    BY <2>1, <1>1, <1>2, <1>3
<1>6. CASE Fill(c)
  <2>1. d' = d \/ d' = [d EXCEPT ![c].pc = "fill_sub"]
    BY <1>6 DEF Fill
  <2>2. "fill_sub" \in PcStates
    BY DEF PcStates
  <2>3. CASE d' = d
    BY <2>3, <1>0
  <2>4. QED
    BY <2>1, <2>2, <2>3, <1>2
<1>7. CASE Claim(c)
  <2>1. PICK pc \in PcStates : \/ d' = [d EXCEPT ![c].pc = pc, ![c].gets = get_count]
                               \/ d' = [d EXCEPT ![c].pc = pc, ![c].puts = put_count]
    BY <1>7, Zenon DEF Claim, SubGet, SubPut, PcStates
  <2>2. /\ [d[c] EXCEPT !.pc = pc, !.gets = get_count] \in DRec
        /\ [d[c] EXCEPT !.pc = pc, !.puts = put_count] \in DRec
    <3>1. get_count \in 0..(UsizeRange - 1) /\ put_count \in 0..(UsizeRange - 1)
      BY DEF Typed
    <3>2. QED
      BY <1>0, <3>1 DEF DRec
  <2>3. \/ d' = [d EXCEPT ![c] = [d[c] EXCEPT !.pc = pc, !.gets = get_count]]
        \/ d' = [d EXCEPT ![c] = [d[c] EXCEPT !.pc = pc, !.puts = put_count]]
    BY <1>0, <2>1 DEF DRec
  <2>4. QED
    BY <1>1, <2>2, <2>3
<1>8. CASE UnclaimGet(c) \/ UnclaimPut(c)
  <2>1. PICK pc \in PcStates : \/ d' = [d EXCEPT ![c].pc = pc, ![c].gets = 0]
                               \/ d' = [d EXCEPT ![c].pc = pc, ![c].puts = 0]
    BY <1>8, Zenon DEF UnclaimGet, UnclaimPut, PcStates
  <2>2. /\ [d[c] EXCEPT !.pc = pc, !.gets = 0] \in DRec
        /\ [d[c] EXCEPT !.pc = pc, !.puts = 0] \in DRec
    <3>1. 0 \in 0..(UsizeRange - 1)
      BY RangeType
    <3>2. QED
      BY <1>0, <3>1 DEF DRec
  <2>3. \/ d' = [d EXCEPT ![c] = [d[c] EXCEPT !.pc = pc, !.gets = 0]]
        \/ d' = [d EXCEPT ![c] = [d[c] EXCEPT !.pc = pc, !.puts = 0]]
    BY <1>0, <2>1 DEF DRec
  <2>4. QED
    BY <1>1, <2>2, <2>3
<1>9. CASE ResumeOrNull(c)
  <2>1. PICK r \in Nat : d' = [d EXCEPT ![c].removed = r]
    <3>1. getters' = Without(getters, Head(or_null_queue))
      BY <1>9 DEF ResumeOrNull
    <3>2. getters' \in Seq(Getters) /\ Len(getters) - Len(getters') \in {0, 1}
      BY <3>1, WithoutSeq DEF Typed
    <3>3. d[c].removed + Len(getters) - Len(getters') \in Nat
      <4>1. Len(getters) \in Nat /\ Len(getters') \in Nat /\ d[c].removed \in Nat
        BY <3>2, <1>0 DEF Typed, DRec
      <4>2. QED
        BY <3>2, <4>1
    <3>4. d' = [d EXCEPT ![c].removed = d[c].removed + Len(getters) - Len(getters')]
      BY <1>0, <1>9 DEF ResumeOrNull
    <3>5. QED
      BY <3>3, <3>4
  <2>2. [d[c] EXCEPT !.removed = r] \in DRec
    BY <1>0, <2>1 DEF DRec
  <2>3. d' = [d EXCEPT ![c] = [d[c] EXCEPT !.removed = r]]
    BY <1>0, <2>1 DEF DRec
  <2>4. QED
    BY <1>1, <2>2, <2>3
<1>10. CASE OrNullsDone(c)
  <2>1. [d[c] EXCEPT !.pc = "test", !.removed = 0] \in DRec
    BY <1>0 DEF DRec, PcStates
  <2>2. d' = [d EXCEPT ![c] = [d[c] EXCEPT !.pc = "test", !.removed = 0]]
    BY <1>0, <1>10 DEF OrNullsDone, DRec
  <2>3. QED
    BY <1>1, <2>1, <2>2
<1>11. QED
  BY <1>4, <1>5, <1>6, <1>7, <1>8, <1>9, <1>10 DEF BlockStep, Dispatch
\* The types of put() and get() on a queue.
LEMMA AppendType ==
  ASSUME NEW S, NEW q \in Seq(S), NEW e \in S
  PROVE  Append(q, e) \in Seq(S) /\ Len(Append(q, e)) = Len(q) + 1
OBVIOUS

\* A queue with a node has a first one.
LEMMA HeadTail ==
  ASSUME NEW S, NEW q \in Seq(S), q # <<>>
  PROVE  Head(q) \in S /\ Tail(q) \in Seq(S) /\ Len(Tail(q)) = Len(q) - 1 /\ Len(q) >= 1
OBVIOUS

\* The steps keep the types of the queues,
LEMMA QueuesTyped ==
  ASSUME Typed, NEW c \in Calls, BlockStep(c) \/ Begin(c)
  PROVE  /\ getters' \in Seq(Getters) /\ putters' \in Seq(Puts)
         /\ or_null_queue' \in Seq(OrNulls) /\ arrivals' \in Seq(Calls)
<1>0. /\ getters \in Seq(Getters) /\ putters \in Seq(Puts) /\ or_null_queue \in Seq(OrNulls)
      /\ arrivals \in Seq(Calls)
  BY DEF Typed
<1>1. CASE Begin(c)
  <2>1. arrivals' = Append(arrivals, c) /\ or_null_queue' = or_null_queue
    BY <1>1 DEF Begin
  <2>2. CASE c \in Puts
    <3>1. putters' = Append(putters, c) /\ getters' = getters
      BY <2>2, <1>1 DEF Begin
    <3>2. QED
      BY <2>1, <2>2, <3>1, <1>0, AppendType
  <2>3. CASE c \in Getters
    <3>1. getters' = Append(getters, c) /\ putters' = putters
      BY <2>3, <1>1, CallSets DEF Begin
    <3>2. QED
      BY <2>1, <2>3, <3>1, <1>0, AppendType
  <2>4. QED
    BY <2>2, <2>3, CallSets
<1>2. CASE QueueOrNull(c)
  <2>1. c \in OrNulls
    BY <1>2 DEF Typed, QueueOrNull, At
  <2>2. or_null_queue' = Append(or_null_queue, c) /\ UNCHANGED <<getters, putters, arrivals>>
    BY <1>2 DEF QueueOrNull, calls
  <2>3. QED
    BY <1>0, <2>1, <2>2, AppendType
<1>3. CASE GiveBuffered(c) \/ HandOver(c)
  <2>1. /\ getters # <<>> /\ getters' = Tail(getters)
        /\ or_null_queue' = Without(or_null_queue, Head(getters))
        /\ putters' = putters \/ (putters # <<>> /\ putters' = Tail(putters))
        /\ arrivals' = arrivals
    BY <1>3 DEF GiveBuffered, HandOver, GiveNext
  <2>2. QED
    BY <1>0, <2>1, HeadTail, WithoutSeq
<1>4. CASE Fill(c)
  BY <1>0, <1>4, HeadTail DEF Fill
<1>5. CASE ResumeOrNull(c)
  BY <1>0, <1>5, HeadTail, WithoutSeq DEF ResumeOrNull
<1>6. CASE \/ Count(c) \/ SetNeed(c) \/ Lock(c) \/ ClearNeed(c) \/ TestNeed(c) \/ Unlock(c)
           \/ Recheck(c) \/ Claim(c) \/ UnclaimGet(c) \/ UnclaimPut(c) \/ BufferDone(c)
           \/ DirectDone(c) \/ FillDone(c) \/ OrNullsDone(c)
  <2>1. UNCHANGED <<getters, putters, or_null_queue, arrivals>>
    BY <1>6 DEF Count, SetNeed, Lock, ClearNeed, TestNeed, Unlock, Recheck, Claim, SubGet, SubPut,
       UnclaimGet, UnclaimPut, BufferDone, DirectDone, FillDone, OrNullsDone, queues, calls
  <2>2. QED
    BY <1>0, <2>1
<1>7. QED
  BY <1>1, <1>2, <1>3, <1>4, <1>5, <1>6 DEF BlockStep, Dispatch
\* of the counts and flags,
LEMMA CountsTyped ==
  ASSUME Typed, NEW c \in Calls, BlockStep(c) \/ Begin(c)
  PROVE  /\ get_count' \in 0..(UsizeRange - 1) /\ put_count' \in 0..(UsizeRange - 1)
         /\ dispatch_lock' \in {0, 1} /\ need_dispatch' \in {0, 1}
<1>0. /\ get_count \in 0..(UsizeRange - 1) /\ put_count \in 0..(UsizeRange - 1)
      /\ dispatch_lock \in {0, 1} /\ need_dispatch \in {0, 1} /\ d[c].removed \in Nat
  BY DEF Typed, DRec
<1>1. /\ Usize(get_count + 1) \in 0..(UsizeRange - 1)
      /\ Usize(get_count - 1) \in 0..(UsizeRange - 1)
      /\ Usize(put_count + 1) \in 0..(UsizeRange - 1)
      /\ Usize(put_count - 1) \in 0..(UsizeRange - 1)
      /\ Usize(get_count - d[c].removed) \in 0..(UsizeRange - 1)
  <2>1. /\ get_count + 1 \in Int /\ get_count - 1 \in Int /\ put_count + 1 \in Int
        /\ put_count - 1 \in Int /\ get_count - d[c].removed \in Int
    BY <1>0, RangeType
  <2>2. QED
    BY <2>1, UsizeSmall
<1>2. get_count' \in {get_count, Usize(get_count + 1), Usize(get_count - 1),
                      Usize(get_count - d[c].removed)}
  BY DEF Begin, BlockStep, Dispatch, Count, QueueOrNull, SetNeed, Lock, ClearNeed, TestNeed, Unlock,
     Recheck, Claim, SubGet, SubPut, UnclaimGet, UnclaimPut, GiveBuffered, BufferDone, HandOver,
     DirectDone, Fill, FillDone, ResumeOrNull, OrNullsDone, counts
<1>3. put_count' \in {put_count, Usize(put_count + 1), Usize(put_count - 1)}
  BY DEF Begin, BlockStep, Dispatch, Count, QueueOrNull, SetNeed, Lock, ClearNeed, TestNeed, Unlock,
     Recheck, Claim, SubGet, SubPut, UnclaimGet, UnclaimPut, GiveBuffered, BufferDone, HandOver,
     DirectDone, Fill, FillDone, ResumeOrNull, OrNullsDone, counts
<1>4. dispatch_lock' \in {dispatch_lock, 0, 1} /\ need_dispatch' \in {need_dispatch, 0, 1}
  BY DEF Begin, BlockStep, Dispatch, Count, QueueOrNull, SetNeed, Lock, ClearNeed, TestNeed, Unlock,
     Recheck, Claim, SubGet, SubPut, UnclaimGet, UnclaimPut, GiveBuffered, BufferDone, HandOver,
     DirectDone, Fill, FillDone, ResumeOrNull, OrNullsDone, flags
<1>5. QED
  BY <1>0, <1>1, <1>2, <1>3, <1>4

\* of the buffer
LEMMA BufferTyped ==
  ASSUME Typed, NEW c \in Calls, BlockStep(c) \/ Begin(c)
  PROVE  /\ \E n \in Capacities : /\ buffer_nodes' \in [0..(n - 1) -> Puts \cup {None}]
                                  /\ buffer_index' \in 0..n
         /\ buffer_len' \in 0..buffer_index'
<1>0. PICK n \in Capacities : /\ buffer_nodes \in [0..(n - 1) -> Puts \cup {None}]
                              /\ buffer_index \in 0..n
  BY DEF Typed
<1>n. n \in Nat /\ buffer_len \in 0..buffer_index /\ putters \in Seq(Puts)
  BY ChannelAssumption DEF Typed
<1>1. CASE GiveBuffered(c)
  <2>1. buffer_len # 0 /\ buffer_len' = buffer_len - 1
        /\ UNCHANGED <<buffer_nodes, buffer_index>>
    BY <1>1 DEF GiveBuffered
  <2>2. QED
    BY <2>1, <1>0, <1>n
<1>2. CASE Fill(c)
  <2>1. CASE buffer_index \in DOMAIN buffer_nodes
    <3>1. /\ buffer_nodes' = [buffer_nodes EXCEPT ![buffer_index] = Head(putters)]
          /\ buffer_index' = buffer_index + 1 /\ buffer_len' = buffer_len + 1
          /\ putters # <<>>
      BY <1>2, <2>1 DEF Fill
    <3>2. Head(putters) \in Puts
      BY <3>1, <1>n, HeadTail
    <3>3. buffer_nodes' \in [0..(n - 1) -> Puts \cup {None}]
      BY <3>1, <3>2, <1>0
    <3>4. buffer_index' \in 0..n /\ buffer_len' \in 0..buffer_index'
      BY <3>1, <1>0, <1>n, <2>1
    <3>5. QED
      BY <3>3, <3>4
  <2>2. CASE buffer_index \notin DOMAIN buffer_nodes
    <3>1. UNCHANGED <<buffer_nodes, buffer_index, buffer_len>>
      BY <1>2, <2>2 DEF Fill, buffer
    <3>2. QED
      BY <3>1, <1>0, <1>n
  <2>3. QED
    BY <2>1, <2>2
<1>3. CASE ~GiveBuffered(c) /\ ~Fill(c)
  <2>1. UNCHANGED <<buffer_nodes, buffer_index, buffer_len>>
    BY <1>3 DEF Begin, BlockStep, Dispatch, Count, QueueOrNull, SetNeed, Lock, ClearNeed, TestNeed,
       Unlock, Recheck, Claim, SubGet, SubPut, UnclaimGet, UnclaimPut, BufferDone, HandOver,
       DirectDone, FillDone, ResumeOrNull, OrNullsDone, buffer
  <2>2. QED
    BY <2>1, <1>0, <1>n
<1>4. QED
  BY <1>1, <1>2, <1>3

\* and of the coroutines and results.
LEMMA CallsTyped ==
  ASSUME Typed, NEW c \in Calls, BlockStep(c) \/ Begin(c)
  PROVE  /\ coro' \in [Calls -> {"idle", "waiting", "resumed", "twice", "cancelled"}]
         /\ result' \in [Getters -> Puts \cup {None}]
<1> DEFINE C == {"idle", "waiting", "resumed", "twice", "cancelled"}
<1>0. coro \in [Calls -> C] /\ result \in [Getters -> Puts \cup {None}]
  BY DEF Typed
<1>1. CASE Begin(c)
  BY <1>0, <1>1 DEF Begin
<1>2. ASSUME NEW S, Ticked(S) PROVE coro' \in [Calls -> C]
  BY <1>0, <1>2 DEF Ticked
<1>3. CASE GiveBuffered(c) \/ HandOver(c)
  <2>1. getters # <<>> /\ getters \in Seq(Getters) /\ Head(getters) \in Getters
    BY <1>3, HeadTail DEF Typed, GiveBuffered, HandOver
  <2>2. coro' \in [Calls -> C]
    BY <1>2, <1>3 DEF GiveBuffered, HandOver
  <2>3. PICK v \in Puts \cup {None} : result' = [result EXCEPT ![Head(getters)] = v]
    <3>1. CASE GiveBuffered(c)
      <4>1. buffer_index - buffer_len \in DOMAIN buffer_nodes
        <5>1. PICK n \in Capacities : /\ buffer_nodes \in [0..(n - 1) -> Puts \cup {None}]
                                      /\ buffer_index \in 0..n
          BY DEF Typed
        <5>2. n \in Nat /\ buffer_len \in 0..buffer_index /\ buffer_len # 0
          BY <3>1, ChannelAssumption DEF Typed, GiveBuffered
        <5>3. buffer_index - buffer_len \in 0..(n - 1)
          BY <5>1, <5>2
        <5>4. QED
          BY <5>1, <5>3
      <4>2. buffer_nodes[buffer_index - buffer_len] \in Puts \cup {None}
        BY <4>1 DEF Typed
      <4>3. QED
        BY <3>1, <4>2 DEF GiveBuffered, GiveNext
    <3>2. CASE HandOver(c)
      <4>1. Head(putters) \in Puts
        BY <3>2, HeadTail DEF Typed, HandOver
      <4>2. QED
        BY <3>2, <4>1 DEF HandOver, GiveNext
    <3>3. QED
      BY <1>3, <3>1, <3>2
  <2>4. QED
    BY <2>1, <2>2, <2>3, <1>0
<1>4. CASE Fill(c)
  BY <1>0, <1>2, <1>4 DEF Fill
<1>5. CASE ResumeOrNull(c)
  BY <1>0, <1>2, <1>5 DEF ResumeOrNull
<1>6. CASE \/ Count(c) \/ QueueOrNull(c) \/ SetNeed(c) \/ Lock(c) \/ ClearNeed(c) \/ TestNeed(c)
           \/ Unlock(c) \/ Recheck(c) \/ Claim(c) \/ UnclaimGet(c) \/ UnclaimPut(c)
           \/ BufferDone(c) \/ DirectDone(c) \/ FillDone(c) \/ OrNullsDone(c)
  <2>1. UNCHANGED <<coro, result>>
    BY <1>6 DEF Count, QueueOrNull, SetNeed, Lock, ClearNeed, TestNeed, Unlock, Recheck, Claim,
       SubGet, SubPut, UnclaimGet, UnclaimPut, BufferDone, DirectDone, FillDone, OrNullsDone, calls
  <2>2. QED
    BY <1>0, <2>1
<1>7. QED
  BY <1>1, <1>3, <1>4, <1>5, <1>6 DEF BlockStep, Dispatch

\* Every step keeps the types.
LEMMA TypedStep == Typed /\ [Next]_vars => Typed'
<1> SUFFICES ASSUME Typed, [Next]_vars PROVE Typed'
  OBVIOUS
<1>1. CASE UNCHANGED vars
  BY <1>1 DEF Typed, vars, queues, counts, flags, buffer, calls, env
<1>2. ASSUME NEW c \in Calls, BlockStep(c) \/ Begin(c) PROVE Typed'
  <2>1. overrun' \in BOOLEAN /\ live' \in BOOLEAN /\ num_threads' \in ThreadCounts
    <3>1. overrun' \in {overrun, TRUE} /\ live' = live /\ num_threads' = num_threads
      BY <1>2, Zenon DEF Begin, BlockStep, Dispatch, Count, QueueOrNull, SetNeed, Lock, ClearNeed,
         TestNeed, Unlock, Recheck, Claim, SubGet, SubPut, UnclaimGet, UnclaimPut, GiveBuffered,
         BufferDone, HandOver, DirectDone, Fill, FillDone, ResumeOrNull, OrNullsDone, env
    <3>2. QED
      BY <3>1, Zenon DEF Typed
  <2>2. \A e \in Calls : d'[e].pc = "or_null" => e \in OrNulls
    <3>1. d' = [d EXCEPT ![c] = d'[c]] /\ d \in [Calls -> DRec]
      BY <1>2, ThreadStep DEF Typed
    <3>2. d'[c].pc = "or_null" => c \in OrNulls
      <4> USE DEF At, GoTo
      <4>0. d \in [Calls -> DRec] /\ d[c] \in DRec /\ (d[c].pc = "or_null" => c \in OrNulls)
        BY DEF Typed
      <4>1. CASE Begin(c)
        BY <4>0, <4>1 DEF Begin, DRec
      <4>2. CASE Count(c)
        BY <4>0, <4>2 DEF Count, DRec
      <4>3. CASE \/ QueueOrNull(c) \/ SetNeed(c) \/ ClearNeed(c) \/ TestNeed(c) \/ Unlock(c)
                 \/ GiveBuffered(c) \/ BufferDone(c) \/ HandOver(c) \/ DirectDone(c) \/ FillDone(c)
        BY <4>0, <4>3 DEF QueueOrNull, SetNeed, ClearNeed, TestNeed, Unlock, GiveBuffered,
           BufferDone, HandOver, DirectDone, FillDone, DRec
      <4>4. CASE Lock(c) \/ Recheck(c)
        BY <4>0, <4>4 DEF Lock, Recheck, DRec, Out
      <4>5. CASE Claim(c)
        BY <4>0, <4>5 DEF Claim, SubGet, SubPut, DRec
      <4>6. CASE Fill(c)
        BY <4>0, <4>6 DEF Fill, DRec
      <4>7. CASE UnclaimGet(c) \/ UnclaimPut(c) \/ OrNullsDone(c)
        BY <4>0, <4>7 DEF UnclaimGet, UnclaimPut, OrNullsDone, DRec
      <4>8. CASE ResumeOrNull(c)
        BY <4>0, <4>8 DEF ResumeOrNull, DRec
      <4>9. QED
        BY <1>2, <4>1, <4>2, <4>3, <4>4, <4>5, <4>6, <4>7, <4>8 DEF BlockStep, Dispatch
    <3>3. QED
      BY <3>1, <3>2 DEF Typed
  <2>3. \A e \in Calls : coro'[e] = "idle" => d'[e].pc = "none"
    <3>1. d' = [d EXCEPT ![c] = d'[c]] /\ d \in [Calls -> DRec]
      BY <1>2, ThreadStep DEF Typed
    <3>2. CASE Begin(c)
      BY <3>1, <3>2 DEF Begin, Typed
    <3>3. CASE BlockStep(c)
      <4>1. d[c].pc # "none"
        BY <3>3 DEF BlockStep, Dispatch, Count, QueueOrNull, SetNeed, Lock, ClearNeed, TestNeed,
           Unlock, Recheck, Claim, SubGet, SubPut, UnclaimGet, UnclaimPut, GiveBuffered, BufferDone,
           HandOver, DirectDone, Fill, FillDone, ResumeOrNull, OrNullsDone, At
      <4>2. \A e \in Calls : coro'[e] = "idle" => coro[e] = "idle"
        <5>1. coro' = coro \/ \E S : Ticked(S)
          BY <3>3, Zenon DEF BlockStep, Dispatch, Count, QueueOrNull, SetNeed, Lock, ClearNeed,
             TestNeed, Unlock, Recheck, Claim, SubGet, SubPut, UnclaimGet, UnclaimPut, GiveBuffered,
             BufferDone, HandOver, DirectDone, Fill, FillDone, ResumeOrNull, OrNullsDone, calls
        <5>2. ASSUME NEW S, Ticked(S) PROVE \A e \in Calls : coro'[e] = "idle" => coro[e] = "idle"
          BY <5>2 DEF Ticked
        <5>3. QED
          BY <5>1, <5>2
      <4>3. QED
        BY <3>1, <4>1, <4>2 DEF Typed
    <3>4. QED
      BY <1>2, <3>2, <3>3
  <2>4. QED
    BY <1>2, <2>1, <2>2, <2>3, ThreadStep, QueuesTyped, CountsTyped, BufferTyped, CallsTyped DEF Typed
<1>3. CASE Destroy
  <2>1. live' = FALSE /\ UNCHANGED <<or_null_queue, counts, flags, buffer, result, arrivals, d,
                                     overrun, num_threads>>
        /\ getters' = <<>> /\ putters' = <<>>
    BY <1>3 DEF Destroy
  <2>2. coro' \in [Calls -> {"idle", "waiting", "resumed", "twice", "cancelled"}]
    BY <1>3 DEF Destroy, Typed
  <2>3. getters' \in Seq(Getters) /\ putters' \in Seq(Puts)
    BY <2>1
  <2>4. live' \in BOOLEAN
    BY <2>1
  <2>5. \A c \in Calls : coro'[c] = "idle" => coro[c] = "idle"
    BY <1>3 DEF Destroy
  <2>6. QED
    BY <2>1, <2>2, <2>3, <2>4, <2>5 DEF Typed, counts, flags, buffer
<1>4. QED
  BY <1>1, <1>2, <1>3 DEF Next
-----------------------------------------------------------------------------
(* One thread is inside dispatch(). *)

\* Only Lock and Unlock let a thread in or out.
LEMMA InsideStep ==
  ASSUME Typed, NEW c \in Calls, BlockStep(c) \/ Begin(c)
  PROVE  /\ \A e \in Calls : e # c => d'[e] = d[e]
         /\ ~Lock(c) /\ ~Unlock(c) => dispatch_lock' = dispatch_lock /\ (Inside(c)' <=> Inside(c))
<1>1. \A e \in Calls : e # c => d'[e] = d[e]
  BY ThreadStep DEF Typed
<1>2. ASSUME ~Lock(c), ~Unlock(c) PROVE dispatch_lock' = dispatch_lock
  BY <1>2 DEF Begin, BlockStep, Dispatch, Count, QueueOrNull, SetNeed, ClearNeed, TestNeed,
     Recheck, Claim, SubGet, SubPut, UnclaimGet, UnclaimPut, GiveBuffered, BufferDone, HandOver,
     DirectDone, Fill, FillDone, ResumeOrNull, OrNullsDone, flags
<1>3. ASSUME ~Lock(c), ~Unlock(c) PROVE Inside(c)' <=> Inside(c)
  <2> USE DEF At, GoTo, Inside
  <2>0. d \in [Calls -> DRec] /\ d[c] \in DRec
    BY DEF Typed
  <2>1. CASE Begin(c)
    <3>1. d[c].pc = "none"
      BY <2>1 DEF Typed, Begin
    <3>2. QED
      BY <2>0, <2>1, <3>1 DEF Begin, DRec
  <2>2. CASE Count(c) \/ QueueOrNull(c) \/ SetNeed(c) \/ ClearNeed(c) \/ TestNeed(c)
             \/ GiveBuffered(c) \/ BufferDone(c) \/ HandOver(c) \/ DirectDone(c) \/ FillDone(c)
    BY <2>0, <2>2 DEF Count, QueueOrNull, SetNeed, ClearNeed, TestNeed, GiveBuffered,
       BufferDone, HandOver, DirectDone, FillDone, DRec
  <2>3. CASE Recheck(c)
    BY <2>0, <2>3 DEF Recheck, DRec, Out
  <2>4. CASE Claim(c)
    BY <2>0, <2>4 DEF Claim, SubGet, SubPut, DRec
  <2>5. CASE Fill(c)
    BY <2>0, <2>5 DEF Fill, DRec
  <2>6. CASE UnclaimGet(c) \/ UnclaimPut(c) \/ OrNullsDone(c)
    BY <2>0, <2>6 DEF UnclaimGet, UnclaimPut, OrNullsDone, DRec
  <2>7. CASE ResumeOrNull(c)
    BY <2>0, <2>7 DEF ResumeOrNull, DRec
  <2>8. QED
    BY <1>3, <2>1, <2>2, <2>3, <2>4, <2>5, <2>6, <2>7 DEF BlockStep, Dispatch
<1>4. QED
  BY <1>1, <1>2, <1>3
\* Nobody is inside a new channel.
LEMMA OneDispatcherInit == Init => OneDispatcher
<1> SUFFICES ASSUME Init PROVE OneDispatcher
  OBVIOUS
<1>1. \A c \in Calls : ~Inside(c)
  BY DEF Init, Inside, Out
<1>2. QED
  BY <1>1 DEF Init, OneDispatcher

\* Only the thread that finds dispatch_lock 0 gets inside.
LEMMA OneDispatcherStep == Typed /\ OneDispatcher /\ [Next]_vars => OneDispatcher'
<1> SUFFICES ASSUME Typed, OneDispatcher, [Next]_vars PROVE OneDispatcher'
  OBVIOUS
<1>0. dispatch_lock \in {0, 1} /\ d \in [Calls -> DRec]
  BY DEF Typed
<1>1. ASSUME NEW c \in Calls, BlockStep(c) \/ Begin(c) PROVE OneDispatcher'
  <2>1. \A e \in Calls : e # c => (Inside(e)' <=> Inside(e))
    BY <1>1, InsideStep DEF Inside
  <2>2. CASE Lock(c)
    <3>1. /\ d' = [d EXCEPT ![c] = IF dispatch_lock = 0 THEN [@ EXCEPT !.pc = "clear"] ELSE Out]
          /\ dispatch_lock' = 1 /\ d[c].pc = "lock"
      BY <2>2 DEF Lock, At
    <3>2. ~Inside(c)
      BY <3>1 DEF Inside
    <3>3. CASE dispatch_lock = 0
      <4>1. d'[c].pc = "clear"
        BY <3>1, <3>3, <1>0 DEF DRec
      <4>2. Inside(c)'
        BY <4>1 DEF Inside
      <4>3. \A e \in Calls : e # c => ~Inside(e)'
        BY <2>1, <3>3 DEF OneDispatcher
      <4>4. QED
        BY <3>1, <4>2, <4>3 DEF OneDispatcher
    <3>4. CASE dispatch_lock = 1
      <4>1. d'[c].pc = "none"
        BY <3>1, <3>4, <1>0 DEF Out
      <4>2. ~Inside(c)'
        BY <4>1 DEF Inside
      <4>3. QED
        BY <3>1, <3>2, <3>4, <4>2, <2>1 DEF OneDispatcher
    <3>5. QED
      BY <1>0, <3>3, <3>4
  <2>3. CASE Unlock(c)
    <3>1. d' = [d EXCEPT ![c].pc = "recheck"] /\ dispatch_lock' = 0 /\ d[c].pc = "unlock"
      BY <2>3 DEF Unlock, At, GoTo
    <3>2. Inside(c) /\ d'[c].pc = "recheck"
      BY <3>1, <1>0 DEF Inside, DRec
    <3>3. ~Inside(c)'
      BY <3>2 DEF Inside
    <3>4. \A e \in Calls : ~Inside(e)'
      BY <3>2, <3>3, <2>1 DEF OneDispatcher
    <3>5. QED
      BY <3>1, <3>4 DEF OneDispatcher
  <2>4. CASE ~Lock(c) /\ ~Unlock(c)
    <3>1. dispatch_lock' = dispatch_lock /\ (Inside(c)' <=> Inside(c))
      BY <1>1, <2>4, InsideStep
    <3>2. \A e \in Calls : Inside(e)' <=> Inside(e)
      BY <2>1, <3>1
    <3>3. QED
      BY <3>1, <3>2 DEF OneDispatcher
  <2>5. QED
    BY <2>2, <2>3, <2>4
<1>2. CASE UNCHANGED <<d, dispatch_lock>>
  BY <1>2 DEF OneDispatcher, Inside
<1>3. QED
  BY <1>1, <1>2 DEF Next, Destroy, vars, flags

\* dispatch_lock lets in one thread at a time, for any number of calls and
\* threads.
THEOREM DispatcherAlone == Spec => []OneDispatcher
<1>1. Init => Typed /\ OneDispatcher
  BY TypedInit, OneDispatcherInit
<1>2. Typed /\ OneDispatcher /\ [Next]_vars => Typed' /\ OneDispatcher'
  BY TypedStep, OneDispatcherStep
<1>3. QED
  BY <1>1, <1>2, PTL DEF Spec
-----------------------------------------------------------------------------
(* Who is in which queue. *)

\* The queues and the coroutines agree.
Base == Typed /\ OneDispatcher /\ Queued /\ OrNullsQueued /\ Placed

\* There are finitely many calls.
LEMMA CallsFinite == IsFiniteSet(Calls) /\ IsFiniteSet(Getters) /\ IsFiniteSet(Puts)
<1>1. IsFiniteSet(Getters)
  BY ChannelAssumption, FS_Union DEF Getters
<1>2. QED
  BY <1>1, ChannelAssumption, FS_Union DEF Calls

\* With one thread nothing runs when a call begins.
LEMMA FreeMeansIdle ==
  ASSUME Typed, ThreadFree, num_threads = 1
  PROVE  Busy = {}
<1>1. IsFiniteSet(Busy)
  BY CallsFinite, FS_Subset DEF Busy
<1>2. Cardinality(Busy) \in Nat /\ Cardinality(Busy) < 1
  BY <1>1, FS_CardinalityType DEF ThreadFree, Busy
<1>3. Cardinality(Busy) = 0
  BY <1>2
<1>4. QED
  BY <1>1, <1>3, FS_EmptySet

\* Only the thread of a live channel takes a step.
LEMMA BlockFacts ==
  ASSUME Base, NEW c \in Calls, BlockStep(c)
  PROVE  /\ d[c].pc # "none" /\ live /\ ~overrun /\ c \in Busy
         /\ live' = live /\ num_threads' = num_threads
<1>1. d[c].pc # "none" /\ ~overrun
  BY DEF BlockStep, Dispatch, Count, QueueOrNull, SetNeed, Lock, ClearNeed, TestNeed,
     Unlock, Recheck, Claim, SubGet, SubPut, UnclaimGet, UnclaimPut, GiveBuffered, BufferDone,
     HandOver, DirectDone, Fill, FillDone, ResumeOrNull, OrNullsDone, At
<1>2. live /\ c \in Busy
  BY <1>1 DEF Base, Placed, Busy
<1>3. live' = live /\ num_threads' = num_threads
  BY DEF BlockStep, Dispatch, Count, QueueOrNull, SetNeed, Lock, ClearNeed, TestNeed,
     Unlock, Recheck, Claim, SubGet, SubPut, UnclaimGet, UnclaimPut, GiveBuffered, BufferDone,
     HandOver, DirectDone, Fill, FillDone, ResumeOrNull, OrNullsDone, env
<1>4. QED
  BY <1>1, <1>2, <1>3

\* The first getter waits, and nobody is still putting its node anywhere.
LEMMA FirstGetter ==
  ASSUME Base, NEW c \in Calls, At(c, "from_buffer") \/ At(c, "direct"), getters # <<>>
  PROVE  /\ Head(getters) \in Getters /\ coro[Head(getters)] = "waiting"
         /\ Head(getters) \in OrNulls => d[Head(getters)].pc \notin {"count", "or_null"}
         /\ Tail(getters) \in Seq(Getters) /\ Distinct(Tail(getters))
         /\ \A x : InQueue(Tail(getters), x) <=> InQueue(getters, x) /\ x # Head(getters)
<1> DEFINE g == Head(getters)
<1>1. getters \in Seq(Getters) /\ Distinct(getters)
  BY DEF Base, Typed, Queued
<1>2. /\ g \in Getters /\ InQueue(getters, g) /\ Tail(getters) \in Seq(Getters)
      /\ Distinct(Tail(getters))
      /\ \A x : InQueue(Tail(getters), x) <=> InQueue(getters, x) /\ x # g
  BY <1>1, GetQueue
<1> HIDE DEF g
<1>3. coro[g] = "waiting"
  BY <1>2 DEF Base, Queued
<1>4. ASSUME g \in OrNulls, d[g].pc \in {"count", "or_null"} PROVE FALSE
  <2>1. num_threads = 1
    BY <1>3, <1>4 DEF Base, OrNullsQueued
  <2>2. c \in Busy /\ g \in Busy /\ c # g
    BY <1>2, <1>4, CallSets DEF Busy, At
  <2>3. QED
    BY <2>1, <2>2 DEF Base, Placed
<1>5. QED
  BY <1>2, <1>3, <1>4 DEF g

\* The put that dispatch() takes is waiting.
LEMMA FirstPutter ==
  ASSUME Base, putters # <<>>
  PROVE  /\ Head(putters) \in Puts /\ coro[Head(putters)] = "waiting"
         /\ Tail(putters) \in Seq(Puts) /\ Distinct(Tail(putters))
         /\ \A x : InQueue(Tail(putters), x) <=> InQueue(putters, x) /\ x # Head(putters)
<1>1. putters \in Seq(Puts) /\ Distinct(putters)
  BY DEF Base, Typed, Queued
<1>2. /\ Head(putters) \in Puts /\ InQueue(putters, Head(putters))
      /\ Tail(putters) \in Seq(Puts) /\ Distinct(Tail(putters))
      /\ \A x : InQueue(Tail(putters), x) <=> InQueue(putters, x) /\ x # Head(putters)
  BY <1>1, GetQueue
<1>3. QED
  BY <1>2 DEF Base, Queued

\* So is the getOrNull() it resumes, which is in the other queue too.
LEMMA FirstOrNull ==
  ASSUME Base, live, or_null_queue # <<>>
  PROVE  LET n == Head(or_null_queue) IN
         /\ n \in OrNulls /\ coro[n] = "waiting" /\ InQueue(getters, n)
         /\ d[n].pc \notin {"count", "or_null"} /\ num_threads = 1
         /\ Tail(or_null_queue) \in Seq(OrNulls) /\ Distinct(Tail(or_null_queue))
         /\ Len(Tail(or_null_queue)) = Len(or_null_queue) - 1
         /\ \A x : InQueue(Tail(or_null_queue), x) <=> InQueue(or_null_queue, x) /\ x # n
<1> DEFINE n == Head(or_null_queue)
<1>1. or_null_queue \in Seq(OrNulls) /\ Distinct(or_null_queue)
  BY DEF Base, Typed, OrNullsQueued
<1>2. /\ n \in OrNulls /\ InQueue(or_null_queue, n)
      /\ Tail(or_null_queue) \in Seq(OrNulls) /\ Distinct(Tail(or_null_queue))
      /\ Len(Tail(or_null_queue)) = Len(or_null_queue) - 1
      /\ \A x : InQueue(Tail(or_null_queue), x) <=> InQueue(or_null_queue, x) /\ x # n
  BY <1>1, GetQueue
<1> HIDE DEF n
<1>3. coro[n] = "waiting" /\ num_threads = 1 /\ d[n].pc \notin {"count", "or_null"}
  BY <1>2 DEF Base, OrNullsQueued
<1>4. InQueue(getters, n)
  BY <1>2, <1>3, CallSets DEF Base, Queued
<1>5. QED
  BY <1>2, <1>3, <1>4 DEF n

\* onNextTick() for calls that wait.
LEMMA TickedOnce ==
  ASSUME Typed, NEW S, Ticked(S), \A e \in S : e \in Calls /\ coro[e] = "waiting"
  PROVE  \A e \in Calls : coro'[e] = IF e \in S THEN "resumed" ELSE coro[e]
BY DEF Ticked

\* The steps on counts, flags and program counters.
Still(c) ==
  \/ Count(c) \/ SetNeed(c) \/ Lock(c) \/ ClearNeed(c) \/ TestNeed(c) \/ Unlock(c)
  \/ Recheck(c) \/ Claim(c) \/ UnclaimGet(c) \/ UnclaimPut(c) \/ BufferDone(c)
  \/ DirectDone(c) \/ FillDone(c) \/ OrNullsDone(c)

\* These steps move no node and resume nobody.
LEMMA StillFacts ==
  ASSUME NEW c \in Calls, Still(c)
  PROVE  UNCHANGED <<queues, buffer, calls, overrun, env>>
BY DEF Still, Count, SetNeed, Lock, ClearNeed, TestNeed, Unlock, Recheck, Claim, SubGet, SubPut,
   UnclaimGet, UnclaimPut, BufferDone, DirectDone, FillDone, OrNullsDone

\* The steps that move no node, and the others.
LEMMA StepCases ==
  ASSUME NEW c \in Calls, BlockStep(c)
  PROVE  \/ Still(c) \/ QueueOrNull(c) \/ GiveBuffered(c) \/ HandOver(c) \/ Fill(c)
         \/ ResumeOrNull(c)
BY DEF BlockStep, Dispatch, Still

\* A value goes to the first getter.
LEMMA GiveFacts ==
  ASSUME Base, NEW c \in Calls, GiveBuffered(c) \/ HandOver(c)
  PROVE  /\ getters # <<>> /\ getters' = Tail(getters)
         /\ Head(getters) \in Getters /\ coro[Head(getters)] = "waiting"
         /\ Head(getters) \in OrNulls => d[Head(getters)].pc \notin {"count", "or_null"}
         /\ Distinct(getters')
         /\ \A x : InQueue(getters', x) <=> InQueue(getters, x) /\ x # Head(getters)
         /\ Distinct(or_null_queue')
         /\ \A x : InQueue(or_null_queue', x) <=> InQueue(or_null_queue, x) /\ x # Head(getters)
         /\ \A g \in Getters : coro'[g] = IF g = Head(getters) THEN "resumed" ELSE coro[g]
         /\ UNCHANGED <<arrivals, live, num_threads>>
<1>1. /\ getters # <<>> /\ getters' = Tail(getters)
      /\ or_null_queue' = Without(or_null_queue, Head(getters))
      /\ At(c, "from_buffer") \/ At(c, "direct")
      /\ UNCHANGED <<arrivals, live, num_threads>>
  BY DEF GiveBuffered, HandOver, GiveNext, env
<1>2. /\ Head(getters) \in Getters /\ coro[Head(getters)] = "waiting"
      /\ Head(getters) \in OrNulls => d[Head(getters)].pc \notin {"count", "or_null"}
      /\ Tail(getters) \in Seq(Getters) /\ Distinct(Tail(getters))
      /\ \A x : InQueue(Tail(getters), x) <=> InQueue(getters, x) /\ x # Head(getters)
  BY <1>1, FirstGetter
<1>3. /\ Distinct(or_null_queue')
      /\ \A x : InQueue(or_null_queue', x) <=> InQueue(or_null_queue, x) /\ x # Head(getters)
  BY <1>1, WithoutType DEF Base, Typed, OrNullsQueued
<1>4. \A g \in Getters : coro'[g] = IF g = Head(getters) THEN "resumed" ELSE coro[g]
  <2>1. CASE GiveBuffered(c)
    <3>1. Ticked({Head(getters)})
      BY <2>1 DEF GiveBuffered
    <3>2. QED
      BY <3>1, <1>2, CallSets DEF Ticked
  <2>2. CASE HandOver(c)
    <3>1. Ticked({Head(getters), Head(putters)}) /\ putters # <<>>
      BY <2>2 DEF HandOver
    <3>2. Head(putters) \in Puts
      BY <3>1, FirstPutter
    <3>3. QED
      BY <3>1, <3>2, <1>2, CallSets DEF Ticked
  <2>3. QED
    BY <2>1, <2>2
<1>5. QED
  BY <1>1, <1>2, <1>3, <1>4

\* The value of the first put is taken.
LEMMA TakeFacts ==
  ASSUME Base, NEW c \in Calls, HandOver(c) \/ (Fill(c) /\ buffer_index \in DOMAIN buffer_nodes)
  PROVE  /\ putters # <<>> /\ putters' = Tail(putters)
         /\ Head(putters) \in Puts /\ coro[Head(putters)] = "waiting"
         /\ Distinct(putters')
         /\ \A x : InQueue(putters', x) <=> InQueue(putters, x) /\ x # Head(putters)
         /\ \A p \in Puts : coro'[p] = IF p = Head(putters) THEN "resumed" ELSE coro[p]
         /\ UNCHANGED <<arrivals, live, num_threads>>
<1>1. /\ putters # <<>> /\ putters' = Tail(putters)
      /\ UNCHANGED <<arrivals, live, num_threads>>
  BY DEF HandOver, Fill, env
<1>2. /\ Head(putters) \in Puts /\ coro[Head(putters)] = "waiting"
      /\ Tail(putters) \in Seq(Puts) /\ Distinct(Tail(putters))
      /\ \A x : InQueue(Tail(putters), x) <=> InQueue(putters, x) /\ x # Head(putters)
  BY <1>1, FirstPutter
<1>3. \A p \in Puts : coro'[p] = IF p = Head(putters) THEN "resumed" ELSE coro[p]
  <2>1. CASE Fill(c) /\ buffer_index \in DOMAIN buffer_nodes
    <3>1. Ticked({Head(putters)})
      BY <2>1 DEF Fill
    <3>2. QED
      BY <3>1, <1>2, CallSets DEF Ticked
  <2>2. CASE HandOver(c)
    <3>1. Ticked({Head(getters), Head(putters)})
      BY <2>2 DEF HandOver
    <3>2. Head(getters) \in Getters
      BY <2>2, GiveFacts
    <3>3. QED
      BY <3>1, <3>2, <1>2, CallSets DEF Ticked
  <2>3. QED
    BY <2>1, <2>2
<1>4. QED
  BY <1>1, <1>2, <1>3

\* A getter without a value is resumed.
LEMMA NullFacts ==
  ASSUME Base, NEW c \in Calls, ResumeOrNull(c)
  PROVE  LET n == Head(or_null_queue) IN
         /\ n \in OrNulls /\ coro[n] = "waiting" /\ num_threads = 1
         /\ d[n].pc \notin {"count", "or_null"}
         /\ InQueue(getters, n) /\ getters' = Without(getters, n)
         /\ Distinct(getters') /\ Len(getters') = Len(getters) - 1
         /\ \A x : InQueue(getters', x) <=> InQueue(getters, x) /\ x # n
         /\ or_null_queue # <<>> /\ or_null_queue' = Tail(or_null_queue)
         /\ Distinct(or_null_queue') /\ Len(or_null_queue') = Len(or_null_queue) - 1
         /\ \A x : InQueue(or_null_queue', x) <=> InQueue(or_null_queue, x) /\ x # n
         /\ \A e \in Calls : coro'[e] = IF e = n THEN "resumed" ELSE coro[e]
         /\ UNCHANGED <<putters, result, buffer, arrivals, live, num_threads>>
<1> DEFINE n == Head(or_null_queue)
<1>1. /\ or_null_queue # <<>> /\ or_null_queue' = Tail(or_null_queue)
      /\ getters' = Without(getters, n) /\ Ticked({n})
      /\ UNCHANGED <<putters, result, buffer, arrivals, live, num_threads>>
  BY DEF ResumeOrNull, env
<1>2. live
  BY BlockFacts DEF BlockStep, Dispatch
<1>3. /\ n \in OrNulls /\ coro[n] = "waiting" /\ InQueue(getters, n)
      /\ d[n].pc \notin {"count", "or_null"} /\ num_threads = 1
      /\ Tail(or_null_queue) \in Seq(OrNulls) /\ Distinct(Tail(or_null_queue))
      /\ Len(Tail(or_null_queue)) = Len(or_null_queue) - 1
      /\ \A x : InQueue(Tail(or_null_queue), x) <=> InQueue(or_null_queue, x) /\ x # n
  BY <1>1, <1>2, FirstOrNull
<1> HIDE DEF n
<1>4. getters \in Seq(Getters) /\ Distinct(getters)
  BY DEF Base, Typed, Queued
<1>5. /\ Distinct(getters') /\ Len(getters') = Len(getters) - 1
      /\ \A x : InQueue(getters', x) <=> InQueue(getters, x) /\ x # n
  BY <1>1, <1>3, <1>4, RemoveQueue
<1>6. \A e \in Calls : coro'[e] = IF e = n THEN "resumed" ELSE coro[e]
  BY <1>1, <1>3 DEF Ticked
<1>7. QED
  BY <1>1, <1>3, <1>5, <1>6 DEF n

\* A call enters its queue.
LEMMA BeginFacts ==
  ASSUME Base, NEW c \in Calls, Begin(c)
  PROVE  /\ coro[c] = "idle" /\ d[c].pc = "none" /\ d'[c].pc = "count" /\ live
         /\ coro' = [coro EXCEPT ![c] = "waiting"]
         /\ c \in Puts => /\ putters' = Append(putters, c) /\ getters' = getters
                          /\ Distinct(putters')
                          /\ \A x : InQueue(putters', x) <=> InQueue(putters, x) \/ x = c
         /\ c \in Getters => /\ getters' = Append(getters, c) /\ putters' = putters
                             /\ Distinct(getters')
                             /\ \A x : InQueue(getters', x) <=> InQueue(getters, x) \/ x = c
         /\ UNCHANGED <<or_null_queue, result, buffer, live, num_threads>>
<1>1. /\ coro[c] = "idle" /\ d[c].pc = "none" /\ live
      /\ coro' = [coro EXCEPT ![c] = "waiting"]
      /\ UNCHANGED <<or_null_queue, result, buffer, live, num_threads>>
  BY DEF Begin, Base, Typed, env
<1>2. d'[c].pc = "count"
  BY DEF Begin, Base, Typed, GoTo, DRec
<1>3. ASSUME c \in Puts
      PROVE  /\ putters' = Append(putters, c) /\ getters' = getters /\ Distinct(putters')
             /\ \A x : InQueue(putters', x) <=> InQueue(putters, x) \/ x = c
  <2>1. putters' = Append(putters, c) /\ getters' = getters
    BY <1>3 DEF Begin
  <2>2. putters \in Seq(Puts) /\ Distinct(putters) /\ ~InQueue(putters, c)
    BY <1>1, <1>3 DEF Base, Typed, Queued
  <2>3. QED
    BY <2>1, <2>2, <1>3, PutQueue
<1>4. ASSUME c \in Getters
      PROVE  /\ getters' = Append(getters, c) /\ putters' = putters /\ Distinct(getters')
             /\ \A x : InQueue(getters', x) <=> InQueue(getters, x) \/ x = c
  <2>1. getters' = Append(getters, c) /\ putters' = putters
    BY <1>4, CallSets DEF Begin
  <2>2. getters \in Seq(Getters) /\ Distinct(getters) /\ ~InQueue(getters, c)
    BY <1>1, <1>4 DEF Base, Typed, Queued
  <2>3. QED
    BY <2>1, <2>2, <1>4, PutQueue
<1>5. QED
  BY <1>1, <1>2, <1>3, <1>4
\* Nobody is in the queues of a new channel.
LEMMA BaseInit == Init => Base
<1> SUFFICES ASSUME Init PROVE Base
  OBVIOUS
<1>1. /\ \A c \in Calls : coro[c] = "idle" /\ d[c].pc = "none"
      /\ getters = <<>> /\ putters = <<>> /\ or_null_queue = <<>> /\ live
  BY DEF Init, Out
<1>2. Queued /\ OrNullsQueued
  BY <1>1, EmptyQueue, CallSets DEF Queued, OrNullsQueued
<1>3. Placed
  BY <1>1 DEF Placed, Busy
<1>4. QED
  BY <1>2, <1>3, TypedInit, OneDispatcherInit DEF Base

\* A call leaves its queue when it is resumed and not before.
LEMMA QueuedStep == Base /\ [Next]_vars => Queued'
<1> SUFFICES ASSUME Base, [Next]_vars PROVE Queued'
  OBVIOUS
<1>0. /\ Distinct(getters) /\ Distinct(putters)
      /\ \A c \in Puts : InQueue(putters, c) <=> coro[c] = "waiting"
      /\ \A c \in Getters : InQueue(getters, c) <=> coro[c] = "waiting"
      /\ coro \in [Calls -> {"idle", "waiting", "resumed", "twice", "cancelled"}]
  BY DEF Base, Queued, Typed
<1>1. CASE UNCHANGED <<getters, putters, coro>>
  BY <1>0, <1>1 DEF Queued
<1>2. ASSUME NEW c \in Calls, Begin(c) PROVE Queued'
  <2>1. coro' = [coro EXCEPT ![c] = "waiting"]
    BY <1>2, BeginFacts
  <2>2. CASE c \in Puts
    <3>1. /\ getters' = getters /\ Distinct(putters')
          /\ \A x : InQueue(putters', x) <=> InQueue(putters, x) \/ x = c
      BY <1>2, <2>2, BeginFacts
    <3>2. QED
      BY <2>1, <2>2, <3>1, <1>0, CallSets DEF Queued
  <2>3. CASE c \in Getters
    <3>1. /\ putters' = putters /\ Distinct(getters')
          /\ \A x : InQueue(getters', x) <=> InQueue(getters, x) \/ x = c
      BY <1>2, <2>3, BeginFacts
    <3>2. QED
      BY <2>1, <2>3, <3>1, <1>0, CallSets DEF Queued
  <2>4. QED
    BY <2>2, <2>3, CallSets
<1>3. ASSUME NEW c \in Calls, BlockStep(c) PROVE Queued'
  <2>1. CASE Still(c)
    BY <2>1, <1>1, StillFacts DEF queues, calls
  <2>2. CASE QueueOrNull(c)
    BY <2>2, <1>1 DEF QueueOrNull, calls
  <2>3. CASE GiveBuffered(c)
    <3>1. /\ Distinct(getters')
          /\ \A x : InQueue(getters', x) <=> InQueue(getters, x) /\ x # Head(getters)
          /\ \A g \in Getters : coro'[g] = IF g = Head(getters) THEN "resumed" ELSE coro[g]
          /\ Head(getters) \in Getters
      BY <2>3, GiveFacts
    <3>2. putters' = putters /\ Ticked({Head(getters)})
      BY <2>3 DEF GiveBuffered
    <3>3. \A p \in Puts : coro'[p] = coro[p]
      BY <3>1, <3>2, CallSets DEF Ticked
    <3>4. QED
      BY <3>1, <3>2, <3>3, <1>0 DEF Queued
  <2>4. CASE HandOver(c)
    <3>1. /\ Distinct(getters')
          /\ \A x : InQueue(getters', x) <=> InQueue(getters, x) /\ x # Head(getters)
          /\ \A g \in Getters : coro'[g] = IF g = Head(getters) THEN "resumed" ELSE coro[g]
      BY <2>4, GiveFacts
    <3>2. /\ Distinct(putters')
          /\ \A x : InQueue(putters', x) <=> InQueue(putters, x) /\ x # Head(putters)
          /\ \A p \in Puts : coro'[p] = IF p = Head(putters) THEN "resumed" ELSE coro[p]
      BY <2>4, TakeFacts
    <3>3. QED
      BY <3>1, <3>2, <1>0 DEF Queued
  <2>5. CASE Fill(c) /\ buffer_index \in DOMAIN buffer_nodes
    <3>1. /\ Distinct(putters') /\ Head(putters) \in Puts
          /\ \A x : InQueue(putters', x) <=> InQueue(putters, x) /\ x # Head(putters)
          /\ \A p \in Puts : coro'[p] = IF p = Head(putters) THEN "resumed" ELSE coro[p]
      BY <2>5, TakeFacts
    <3>2. getters' = getters /\ Ticked({Head(putters)})
      BY <2>5 DEF Fill
    <3>3. \A g \in Getters : coro'[g] = coro[g]
      BY <3>1, <3>2, CallSets DEF Ticked
    <3>4. QED
      BY <3>1, <3>2, <3>3, <1>0 DEF Queued
  <2>6. CASE Fill(c) /\ buffer_index \notin DOMAIN buffer_nodes
    BY <2>6, <1>1 DEF Fill
  <2>7. CASE ResumeOrNull(c)
    <3> DEFINE n == Head(or_null_queue)
    <3>1. /\ Distinct(getters') /\ putters' = putters /\ n \in OrNulls
          /\ \A x : InQueue(getters', x) <=> InQueue(getters, x) /\ x # n
          /\ \A e \in Calls : coro'[e] = IF e = n THEN "resumed" ELSE coro[e]
      BY <2>7, NullFacts
    <3> HIDE DEF n
    <3>2. QED
      BY <3>1, <1>0, CallSets DEF Queued
  <2>8. QED
    BY <1>3, <2>1, <2>2, <2>3, <2>4, <2>5, <2>6, <2>7, StepCases
<1>4. CASE Destroy
  <2>1. /\ getters' = <<>> /\ putters' = <<>>
        /\ coro' = [c \in Calls |-> IF coro[c] = "waiting" THEN "cancelled" ELSE coro[c]]
    BY <1>4 DEF Destroy
  <2>2. \A c \in Calls : coro'[c] # "waiting"
    BY <2>1
  <2>3. QED
    BY <2>1, <2>2, EmptyQueue, CallSets DEF Queued
<1>5. QED
  BY <1>1, <1>2, <1>3, <1>4 DEF Next, vars, queues, calls

\* Where a step takes a thread that has not queued its getOrNull() yet.
LEMMA EarlySteps ==
  ASSUME Base, NEW c \in Calls, BlockStep(c)
  PROVE  /\ ~QueueOrNull(c) /\ c \in OrNulls =>
              (d'[c].pc \in {"count", "or_null"} <=> d[c].pc \in {"count", "or_null"})
         /\ QueueOrNull(c) => c \in OrNulls /\ d[c].pc = "or_null" /\ d'[c].pc = "need"
<1> USE DEF At, GoTo
<1>0. d \in [Calls -> DRec] /\ d[c] \in DRec /\ (d[c].pc = "or_null" => c \in OrNulls)
  BY DEF Base, Typed
<1>1. CASE QueueOrNull(c)
  BY <1>0, <1>1 DEF QueueOrNull, DRec
<1>2. CASE Count(c)
  <2>1. d[c].pc = "count" /\ d'[c].pc = IF c \in OrNulls THEN "or_null" ELSE "need"
    BY <1>0, <1>2 DEF Count, DRec
  <2>2. ~QueueOrNull(c)
    BY <2>1 DEF QueueOrNull
  <2>3. QED
    BY <2>1, <2>2
<1>3. CASE ~QueueOrNull(c) /\ ~Count(c)
  <2> SUFFICES d[c].pc \notin {"count", "or_null"} /\ d'[c].pc \notin {"count", "or_null"}
    BY <1>3
  <2>1. CASE \/ SetNeed(c) \/ ClearNeed(c) \/ TestNeed(c) \/ Unlock(c)
             \/ GiveBuffered(c) \/ BufferDone(c) \/ HandOver(c) \/ DirectDone(c) \/ FillDone(c)
    BY <1>0, <2>1 DEF SetNeed, ClearNeed, TestNeed, Unlock, GiveBuffered,
       BufferDone, HandOver, DirectDone, FillDone, DRec
  <2>2. CASE Lock(c) \/ Recheck(c)
    BY <1>0, <2>2 DEF Lock, Recheck, DRec, Out
  <2>3. CASE Claim(c)
    BY <1>0, <2>3 DEF Claim, SubGet, SubPut, DRec
  <2>4. CASE Fill(c)
    BY <1>0, <2>4 DEF Fill, DRec
  <2>5. CASE UnclaimGet(c) \/ UnclaimPut(c) \/ OrNullsDone(c)
    BY <1>0, <2>5 DEF UnclaimGet, UnclaimPut, OrNullsDone, DRec
  <2>6. CASE ResumeOrNull(c)
    BY <1>0, <2>6 DEF ResumeOrNull, DRec
  <2>7. QED
    BY <1>3, <2>1, <2>2, <2>3, <2>4, <2>5, <2>6 DEF BlockStep, Dispatch
<1>4. QED
  BY <1>1, <1>2, <1>3
\* A node of getOrNull() leaves both queues together.
LEMMA OrNullsStep ==
  OrNullThreadCounts \subseteq {1} /\ Base /\ [Next]_vars => OrNullsQueued'
<1> SUFFICES ASSUME OrNullThreadCounts \subseteq {1}, Base, [Next]_vars PROVE OrNullsQueued'
  OBVIOUS
<1> DEFINE Early(n) == d[n].pc \in {"count", "or_null"}
<1>0. /\ Distinct(or_null_queue)
      /\ \A n \in OrNulls : coro[n] # "idle" => num_threads = 1
      /\ \A n \in OrNulls : Early(n) => coro[n] = "waiting" /\ ~InQueue(or_null_queue, n)
      /\ live => \A n \in OrNulls :
           /\ InQueue(or_null_queue, n) => coro[n] = "waiting"
           /\ coro[n] = "waiting" => InQueue(or_null_queue, n) \/ Early(n)
      /\ coro \in [Calls -> {"idle", "waiting", "resumed", "twice", "cancelled"}]
  BY DEF Base, OrNullsQueued, Typed
<1>1. ASSUME UNCHANGED <<or_null_queue, live, num_threads>>,
             \A n \in OrNulls : coro'[n] = coro[n] /\ (Early(n)' <=> Early(n))
      PROVE  OrNullsQueued'
  BY <1>0, <1>1 DEF OrNullsQueued
<1>2. CASE UNCHANGED vars
  BY <1>1, <1>2 DEF vars, queues, calls, env
<1>3. ASSUME NEW c \in Calls, Begin(c) PROVE OrNullsQueued'
  <2>1. /\ coro[c] = "idle" /\ d'[c].pc = "count" /\ live
        /\ coro' = [coro EXCEPT ![c] = "waiting"]
        /\ UNCHANGED <<or_null_queue, live, num_threads>>
    BY <1>3, BeginFacts
  <2>2. \A e \in Calls : e # c => d'[e] = d[e]
    BY <1>3, InsideStep DEF Base
  <2>3. c \in OrNulls => num_threads = 1
    BY <1>3 DEF Begin
  <2>4. c \in OrNulls => ~InQueue(or_null_queue, c)
    BY <1>0, <2>1
  <2>5. QED
    BY <1>0, <2>1, <2>2, <2>3, <2>4, CallSets DEF OrNullsQueued
<1>4. ASSUME NEW c \in Calls, BlockStep(c) PROVE OrNullsQueued'
  <2>0. /\ live /\ UNCHANGED <<live, num_threads>>
        /\ \A e \in Calls : e # c => d'[e] = d[e]
    BY <1>4, BlockFacts, InsideStep DEF Base
  <2>1. CASE QueueOrNull(c)
    <3>1. c \in OrNulls /\ d[c].pc = "or_null" /\ d'[c].pc = "need"
      BY <1>4, <2>1, EarlySteps
    <3>2. or_null_queue' = Append(or_null_queue, c) /\ coro' = coro
      BY <2>1 DEF QueueOrNull, calls
    <3>3. or_null_queue \in Seq(OrNulls) /\ ~InQueue(or_null_queue, c)
      BY <1>0, <3>1 DEF Base, Typed
    <3>4. /\ Distinct(or_null_queue')
          /\ \A x : InQueue(or_null_queue', x) <=> InQueue(or_null_queue, x) \/ x = c
      BY <1>0, <3>1, <3>2, <3>3, PutQueue
    <3>5. QED
      BY <1>0, <2>0, <3>1, <3>2, <3>4, CallSets DEF OrNullsQueued
  <2>2. CASE ~QueueOrNull(c)
    <3>0. \A n \in OrNulls : Early(n)' <=> Early(n)
      BY <1>4, <2>0, <2>2, EarlySteps, CallSets
    <3>1. CASE Still(c)
      BY <3>0, <3>1, <2>0, <1>1, StillFacts DEF queues, calls
    <3>2. CASE GiveBuffered(c) \/ HandOver(c)
      <4>1. /\ Head(getters) \in OrNulls => ~Early(Head(getters))
            /\ Distinct(or_null_queue')
            /\ \A x : InQueue(or_null_queue', x) <=> InQueue(or_null_queue, x) /\ x # Head(getters)
            /\ \A g \in Getters : coro'[g] = IF g = Head(getters) THEN "resumed" ELSE coro[g]
            /\ coro[Head(getters)] = "waiting"
        BY <3>2, GiveFacts
      <4>2. QED
        BY <1>0, <2>0, <3>0, <4>1, CallSets DEF OrNullsQueued
    <3>3. CASE Fill(c)
      <4>1. or_null_queue' = or_null_queue
        BY <3>3 DEF Fill
      <4>2. \A g \in Getters : coro'[g] = coro[g]
        <5>1. CASE coro' = coro
          BY <5>1
        <5>2. CASE Ticked({Head(putters)})
          <6>1. Head(putters) \in Puts
            BY <3>3, FirstPutter DEF Fill
          <6>2. QED
            BY <5>2, <6>1, CallSets DEF Ticked
        <5>3. QED
          BY <3>3, <5>1, <5>2 DEF Fill
      <4>3. QED
        BY <4>1, <4>2, <2>0, <3>0, <1>1, CallSets
    <3>4. CASE ResumeOrNull(c)
      <4> DEFINE n == Head(or_null_queue)
      <4>1. /\ n \in OrNulls /\ ~Early(n) /\ num_threads = 1
            /\ Distinct(or_null_queue')
            /\ \A x : InQueue(or_null_queue', x) <=> InQueue(or_null_queue, x) /\ x # n
            /\ \A e \in Calls : coro'[e] = IF e = n THEN "resumed" ELSE coro[e]
        BY <3>4, NullFacts
      <4> HIDE DEF n
      <4>2. QED
        BY <1>0, <2>0, <3>0, <4>1, CallSets DEF OrNullsQueued
    <3>5. QED
      BY <1>4, <2>2, <3>1, <3>2, <3>3, <3>4, StepCases
  <2>3. QED
    BY <2>1, <2>2
<1>5. CASE Destroy
  <2>1. /\ coro' = [c \in Calls |-> IF coro[c] = "waiting" THEN "cancelled" ELSE coro[c]]
        /\ UNCHANGED <<or_null_queue, d, num_threads>> /\ ~live'
        /\ \A c \in Calls : d[c].pc = "none"
    BY <1>5 DEF Destroy, Quiet
  <2>2. \A n \in OrNulls : coro'[n] # "idle" => coro[n] # "idle"
    BY <2>1, CallSets
  <2>3. \A n \in OrNulls : ~Early(n)'
    BY <2>1, CallSets
  <2>4. QED
    BY <1>0, <2>1, <2>2, <2>3 DEF OrNullsQueued
<1>6. QED
  BY <1>2, <1>3, <1>4, <1>5 DEF Next

\* Nobody is resumed twice, and one thread runs one block at a time.
LEMMA PlacedStep == Base /\ [Next]_vars => Placed'
<1> SUFFICES ASSUME Base, [Next]_vars PROVE Placed'
  OBVIOUS
<1>0. /\ \A c \in Calls : /\ coro[c] # "twice" /\ (live => coro[c] # "cancelled")
                          /\ ~live => d[c].pc = "none"
      /\ num_threads = 1 => \A c, e \in Busy : c = e
  BY DEF Base, Placed
<1>1. CASE UNCHANGED vars
  BY <1>0, <1>1 DEF Placed, Busy, vars, calls, env
<1>2. ASSUME NEW c \in Calls, Begin(c) PROVE Placed'
  <2>1. /\ live /\ UNCHANGED <<live, num_threads>> /\ coro' = [coro EXCEPT ![c] = "waiting"]
        /\ coro \in [Calls -> {"idle", "waiting", "resumed", "twice", "cancelled"}]
    BY <1>2, BeginFacts DEF Base, Typed
  <2>2. \A e \in Calls : e # c => d'[e] = d[e]
    BY <1>2, InsideStep DEF Base
  <2>3. num_threads = 1 => Busy = {}
    BY <1>2, FreeMeansIdle DEF Base, Begin
  <2>4. Busy' \subseteq Busy \cup {c}
    BY <2>2 DEF Busy
  <2>5. \A e \in Calls : coro'[e] # "twice" /\ coro'[e] # "cancelled"
    BY <1>0, <2>1
  <2>6. QED
    BY <2>1, <2>3, <2>4, <2>5 DEF Placed
<1>3. ASSUME NEW c \in Calls, BlockStep(c) PROVE Placed'
  <2>0. /\ live /\ c \in Busy /\ UNCHANGED <<live, num_threads>>
        /\ \A e \in Calls : e # c => d'[e] = d[e]
    BY <1>3, BlockFacts, InsideStep DEF Base
  <2>1. Busy' \subseteq Busy
    BY <2>0 DEF Busy
  <2>2. \A e \in Calls : coro'[e] \in {coro[e], "resumed"}
    <3>1. CASE Still(c) \/ QueueOrNull(c)
      BY <3>1, StillFacts DEF QueueOrNull, calls
    <3>2. CASE GiveBuffered(c)
      <4>1. Ticked({Head(getters)}) /\ Head(getters) \in Getters /\ coro[Head(getters)] = "waiting"
        BY <3>2, GiveFacts DEF GiveBuffered
      <4>2. QED
        BY <4>1 DEF Ticked
    <3>3. CASE HandOver(c)
      <4>1. /\ Ticked({Head(getters), Head(putters)})
            /\ coro[Head(getters)] = "waiting" /\ coro[Head(putters)] = "waiting"
        BY <3>3, GiveFacts, TakeFacts DEF HandOver
      <4>2. QED
        BY <4>1 DEF Ticked
    <3>4. CASE Fill(c)
      <4>1. coro' = coro \/ Ticked({Head(putters)})
        BY <3>4 DEF Fill
      <4>2. coro[Head(putters)] = "waiting"
        BY <3>4, FirstPutter DEF Fill
      <4>3. QED
        BY <4>1, <4>2 DEF Ticked
    <3>5. CASE ResumeOrNull(c)
      BY <3>5, NullFacts
    <3>6. QED
      BY <1>3, <3>1, <3>2, <3>3, <3>4, <3>5, StepCases
  <2>3. \A e \in Calls : coro'[e] # "twice" /\ coro'[e] # "cancelled"
    BY <1>0, <2>0, <2>2
  <2>4. QED
    BY <1>0, <2>0, <2>1, <2>3 DEF Placed
<1>4. CASE Destroy
  <2>1. /\ coro' = [c \in Calls |-> IF coro[c] = "waiting" THEN "cancelled" ELSE coro[c]]
        /\ UNCHANGED <<d, num_threads>> /\ ~live' /\ \A c \in Calls : d[c].pc = "none"
    BY <1>4 DEF Destroy, Quiet
  <2>2. \A c \in Calls : coro'[c] # "twice"
    BY <1>0, <2>1
  <2>3. QED
    BY <1>0, <2>1, <2>2 DEF Placed, Busy
<1>5. QED
  BY <1>1, <1>2, <1>3, <1>4 DEF Next

\* Every step keeps the queues and the coroutines in agreement.
LEMMA BaseStep == OrNullThreadCounts \subseteq {1} /\ Base /\ [Next]_vars => Base'
BY TypedStep, OneDispatcherStep, QueuedStep, OrNullsStep, PlacedStep DEF Base
-----------------------------------------------------------------------------
(* The counts are exact. *)

\* The queues hold fewer nodes than usize can count.
LEMMA QueueSizes ==
  ASSUME Base
  PROVE  /\ Len(getters) \in Nat /\ Len(putters) \in Nat /\ Len(or_null_queue) \in Nat
         /\ Uncounted(Getters) \in Nat /\ Uncounted(Puts) \in Nat
         /\ G \in Int /\ P \in Int /\ G <= UsizeRange - 1 /\ P <= UsizeRange - 1
         /\ G <= Len(getters) /\ P <= Len(putters)
         /\ Cardinality(OrNulls) \in Nat /\ Len(or_null_queue) <= Cardinality(OrNulls)
<1>1. /\ getters \in Seq(Getters) /\ putters \in Seq(Puts) /\ or_null_queue \in Seq(OrNulls)
      /\ Distinct(getters) /\ Distinct(putters) /\ Distinct(or_null_queue)
  BY DEF Base, Typed, Queued, OrNullsQueued
<1>2. Len(getters) \in Nat /\ Len(putters) \in Nat /\ Len(or_null_queue) \in Nat
  BY <1>1
<1>3. Len(getters) <= Cardinality(Getters) /\ Len(putters) <= Cardinality(Puts)
  BY <1>1, CallsFinite, QueueLength
<1>4. Cardinality(OrNulls) \in Nat /\ Len(or_null_queue) <= Cardinality(OrNulls)
  BY <1>1, QueueLength, ChannelAssumption
<1>5. /\ Cardinality(Getters) <= Cardinality(Calls) /\ Cardinality(Puts) <= Cardinality(Calls)
      /\ Cardinality(Calls) \in Nat /\ Cardinality(Getters) \in Nat /\ Cardinality(Puts) \in Nat
  BY CallsFinite, CallSets, FS_Subset, FS_CardinalityType
<1>6. Cardinality(Calls) + 1 < UsizeRange /\ UsizeRange \in Nat
  <2>1. Calls = Puts \cup Gets \cup OrNulls
    BY DEF Calls, Getters
  <2>2. QED
    BY <2>1, ChannelAssumption
<1>7. Uncounted(Getters) \in Nat /\ Uncounted(Puts) \in Nat
  <2>1. /\ IsFiniteSet({c \in Getters : d[c].pc = "count"})
        /\ IsFiniteSet({c \in Puts : d[c].pc = "count"})
    BY CallsFinite, FS_Subset
  <2>2. QED
    BY <2>1, FS_CardinalityType DEF Uncounted
<1>8. QED
  BY <1>2, <1>3, <1>4, <1>5, <1>6, <1>7, SMTT(30) DEF G, P

\* How a step changes the number of calls that have not counted themselves.
LEMMA UncountedSame ==
  ASSUME NEW S, \A e \in S : d'[e].pc = "count" <=> d[e].pc = "count"
  PROVE  Uncounted(S)' = Uncounted(S)
<1>1. {e \in S : d'[e].pc = "count"} = {e \in S : d[e].pc = "count"}
  OBVIOUS
<1>2. QED
  BY <1>1 DEF Uncounted

\* One more when a call begins,
LEMMA UncountedMore ==
  ASSUME NEW S, IsFiniteSet(S), NEW c \in S, d[c].pc # "count", d'[c].pc = "count",
         \A e \in S : e # c => d'[e] = d[e]
  PROVE  Uncounted(S)' = Uncounted(S) + 1
<1> DEFINE U == {e \in S : d[e].pc = "count"}
           V == {e \in S : d'[e].pc = "count"}
<1>1. V = U \cup {c} /\ c \notin U
  OBVIOUS
<1>2. IsFiniteSet(U)
  BY FS_Subset
<1>3. Cardinality(V) = Cardinality(U) + 1
  BY <1>1, <1>2, FS_AddElement
<1>4. QED
  BY <1>3 DEF Uncounted

\* one fewer when it has counted itself.
LEMMA UncountedLess ==
  ASSUME NEW S, IsFiniteSet(S), NEW c \in S, d[c].pc = "count", d'[c].pc # "count",
         \A e \in S : e # c => d'[e] = d[e]
  PROVE  Uncounted(S)' = Uncounted(S) - 1
<1> DEFINE U == {e \in S : d[e].pc = "count"}
           V == {e \in S : d'[e].pc = "count"}
<1>1. V = U \ {c} /\ c \in U
  OBVIOUS
<1>2. IsFiniteSet(U)
  BY FS_Subset
<1>3. Cardinality(V) = Cardinality(U) - 1
  BY <1>1, <1>2, FS_RemoveElement
<1>4. QED
  BY <1>3 DEF Uncounted

\* Only Begin and Count lead to or from "count".
LEMMA CountPc ==
  ASSUME Base, NEW c \in Calls, BlockStep(c), ~Count(c)
  PROVE  d[c].pc # "count" /\ d'[c].pc # "count"
<1> USE DEF At, GoTo
<1>0. d \in [Calls -> DRec] /\ d[c] \in DRec
  BY DEF Base, Typed
<1>1. CASE \/ QueueOrNull(c) \/ SetNeed(c) \/ ClearNeed(c) \/ TestNeed(c) \/ Unlock(c)
           \/ GiveBuffered(c) \/ BufferDone(c) \/ HandOver(c) \/ DirectDone(c) \/ FillDone(c)
  BY <1>0, <1>1 DEF QueueOrNull, SetNeed, ClearNeed, TestNeed, Unlock, GiveBuffered,
     BufferDone, HandOver, DirectDone, FillDone, DRec
<1>2. CASE Lock(c) \/ Recheck(c)
  BY <1>0, <1>2 DEF Lock, Recheck, DRec, Out
<1>3. CASE Claim(c)
  BY <1>0, <1>3 DEF Claim, SubGet, SubPut, DRec
<1>4. CASE Fill(c)
  BY <1>0, <1>4 DEF Fill, DRec
<1>5. CASE UnclaimGet(c) \/ UnclaimPut(c) \/ OrNullsDone(c)
  BY <1>0, <1>5 DEF UnclaimGet, UnclaimPut, OrNullsDone, DRec
<1>6. CASE ResumeOrNull(c)
  BY <1>0, <1>6 DEF ResumeOrNull, DRec
<1>7. QED
  BY <1>1, <1>2, <1>3, <1>4, <1>5, <1>6 DEF BlockStep, Dispatch

\* What each step does to the numbers that the counts stand for.
LEMMA BeginNumbers ==
  ASSUME Base, NEW c \in Calls, Begin(c)
  PROVE  G' = G /\ P' = P
<1>0. /\ d[c].pc = "none" /\ d'[c].pc = "count" /\ \A e \in Calls : e # c => d'[e] = d[e]
  BY BeginFacts, InsideStep DEF Base
<1>1. getters \in Seq(Getters) /\ putters \in Seq(Puts)
  BY DEF Base, Typed
<1>2. CASE c \in Puts
  <2>1. putters' = Append(putters, c) /\ getters' = getters
    BY <1>2, BeginFacts
  <2>2. Uncounted(Puts)' = Uncounted(Puts) + 1
    BY <1>0, <1>2, CallsFinite, CallSets, UncountedMore
  <2>3. Uncounted(Getters)' = Uncounted(Getters)
    BY <1>0, <1>2, CallSets, UncountedSame
  <2>4. Len(putters') = Len(putters) + 1
    BY <1>1, <1>2, <2>1, AppendType
  <2>5. QED
    BY <2>1, <2>2, <2>3, <2>4, QueueSizes DEF G, P
<1>3. CASE c \in Getters
  <2>1. getters' = Append(getters, c) /\ putters' = putters
    BY <1>3, BeginFacts
  <2>2. Uncounted(Getters)' = Uncounted(Getters) + 1
    BY <1>0, <1>3, CallsFinite, CallSets, UncountedMore
  <2>3. Uncounted(Puts)' = Uncounted(Puts)
    BY <1>0, <1>3, CallSets, UncountedSame
  <2>4. Len(getters') = Len(getters) + 1
    BY <1>1, <1>3, <2>1, AppendType
  <2>5. QED
    BY <2>1, <2>2, <2>3, <2>4, QueueSizes DEF G, P
<1>4. QED
  BY <1>2, <1>3, CallSets

\* A call that counts itself is one more to serve.
LEMMA CountNumbers ==
  ASSUME Base, NEW c \in Calls, Count(c)
  PROVE  IF c \in Puts THEN G' = G /\ P' = P + 1 ELSE G' = G + 1 /\ P' = P
<1>0. /\ d[c].pc = "count" /\ d'[c].pc # "count" /\ \A e \in Calls : e # c => d'[e] = d[e]
      /\ getters' = getters /\ putters' = putters
  <2>1. d[c].pc = "count" /\ d'[c].pc # "count"
    BY DEF Count, At, GoTo, Base, Typed, DRec
  <2>2. \A e \in Calls : e # c => d'[e] = d[e]
    BY InsideStep DEF Base, BlockStep
  <2>3. getters' = getters /\ putters' = putters
    BY DEF Count, queues
  <2>4. QED
    BY <2>1, <2>2, <2>3
<1>2. CASE c \in Puts
  <2>2. Uncounted(Puts)' = Uncounted(Puts) - 1
    BY <1>0, <1>2, CallsFinite, CallSets, UncountedLess
  <2>3. Uncounted(Getters)' = Uncounted(Getters)
    BY <1>0, <1>2, CallSets, UncountedSame
  <2>5. QED
    BY <1>0, <1>2, <2>2, <2>3, QueueSizes DEF G, P
<1>3. CASE c \in Getters
  <2>2. Uncounted(Getters)' = Uncounted(Getters) - 1
    BY <1>0, <1>3, CallsFinite, CallSets, UncountedLess
  <2>3. Uncounted(Puts)' = Uncounted(Puts)
    BY <1>0, <1>3, CallSets, UncountedSame
  <2>5. QED
    BY <1>0, <1>3, <2>2, <2>3, QueueSizes, CallSets DEF G, P
<1>4. QED
  BY <1>2, <1>3, CallSets

\* Every other step changes the numbers by the nodes it takes.
LEMMA MoveNumbers ==
  ASSUME Base, NEW c \in Calls, BlockStep(c), ~Count(c)
  PROVE  /\ G' = G + Len(getters') - Len(getters)
         /\ P' = P + Len(putters') - Len(putters)
<1>1. \A e \in Calls : d'[e].pc = "count" <=> d[e].pc = "count"
  BY CountPc, InsideStep DEF Base
<1>2. Uncounted(Getters)' = Uncounted(Getters) /\ Uncounted(Puts)' = Uncounted(Puts)
  BY <1>1, CallSets, UncountedSame
<1>3. getters' \in Seq(Getters) /\ putters' \in Seq(Puts)
  BY QueuesTyped DEF Base
<1>4. Len(getters') \in Nat /\ Len(putters') \in Nat
  BY <1>3
<1>5. QED
  BY <1>2, <1>4, QueueSizes DEF G, P
\* What is left to show when the thread inside dispatch(), or one on its way in
\* or out, takes a step.
LEMMA NumbersFrom ==
  ASSUME Base, Numbers, live, NEW c \in Calls,
         \A e \in Calls : e # c => d'[e] = d[e] /\ ~Inside(e),
         Len(or_null_queue') \in Nat, Len(or_null_queue') <= Len(or_null_queue),
         G' \in Int, P' \in Int, G' >= 0, P' >= 0, d'[c] \in DRec,
         get_count' = Usize(G' - Debt(d'[c].pc, GetClaim) + d'[c].removed),
         put_count' = Usize(P' - Debt(d'[c].pc, PutClaim)),
         Local(c)'
  PROVE  Numbers'
<1>1. ASSUME NEW e \in Calls PROVE Local(e)'
  <2>1. CASE e = c
    BY <2>1
  <2>2. CASE e # c
    <3>1. d'[e] = d[e] /\ ~Inside(e) /\ Local(e) /\ d[e].removed \in Nat
      BY <2>2 DEF Numbers, Base, Typed, DRec
    <3>2. d[e].pc \in {"none", "count", "or_null", "need", "lock", "recheck"}
      BY <3>1 DEF Inside
    <3>3. d'[e].removed = 0 /\ d'[e].removed + Len(or_null_queue') <= Cardinality(OrNulls)
      BY <3>1, <3>2, QueueSizes, SMTT(30) DEF Local
    <3>4. QED
      BY <3>1, <3>2, <3>3 DEF Local, GetClaim, PutClaim
  <2>3. QED
    BY <2>1, <2>2
<1>2. \A e \in Calls : Inside(e)' => e = c
  BY DEF Inside
<1>3. ASSUME \A e \in Calls : ~Inside(e)'
      PROVE  get_count' = Usize(G') /\ put_count' = Usize(P')
  <2>1. d'[c].pc \in {"none", "count", "or_null", "need", "lock", "recheck"}
    BY <1>3 DEF Inside
  <2>2. /\ Debt(d'[c].pc, GetClaim) = 0 /\ Debt(d'[c].pc, PutClaim) = 0
        /\ d'[c].removed = 0
    BY <2>1 DEF Debt, GetClaim, PutClaim, Local
  <2>3. QED
    BY <2>2
<1>4. Counted'
  BY <1>2, <1>3 DEF Counted
<1>5. QED
  BY <1>1, <1>4 DEF Numbers

\* A step outside dispatch() that counts j getters and k puts.
LEMMA NumbersOutside ==
  ASSUME Base, Numbers, live, NEW c \in Calls, ~Inside(c), ~Inside(c)',
         \A e \in Calls : e # c => d'[e] = d[e],
         d'[c].removed = 0, buffer_len' = buffer_len,
         NEW j \in {0, 1}, NEW k \in {0, 1}, G' = G + j, P' = P + k,
         get_count' = Usize(get_count + j), put_count' = Usize(put_count + k),
         Len(or_null_queue') \in Nat,
         \A e \in Calls : d[e].removed + Len(or_null_queue') <= Cardinality(OrNulls)
  PROVE  Numbers'
<1>0. G \in Int /\ P \in Int /\ G >= 0 /\ P >= 0 /\ Counted
  BY QueueSizes DEF Numbers, Counted
<1>c. d'[c].pc \in {"none", "count", "or_null", "need", "lock", "recheck"}
  BY DEF Inside
<1>d. d[c].pc \in {"none", "count", "or_null", "need", "lock", "recheck"}
  BY DEF Inside
<1>1. ASSUME NEW e \in Calls PROVE Local(e)'
  <2>0. Local(e) /\ d[e].removed \in Nat
    BY DEF Numbers, Base, Typed, DRec
  <2>1. CASE e = c
    <3>1. d[c].removed = 0
      BY <1>d, <2>0, <2>1 DEF Local
    <3>2. d'[e].removed + Len(or_null_queue') <= Cardinality(OrNulls)
      BY <2>1, <3>1
    <3>3. QED
      BY <1>c, <2>1, <3>2 DEF Local, GetClaim, PutClaim
  <2>2. CASE e # c
    <3>1. d'[e] = d[e]
      BY <2>2
    <3>2. d[e].removed + Len(or_null_queue') <= Cardinality(OrNulls)
      OBVIOUS
    <3>3. (G >= 1 => G' >= 1) /\ (P >= 1 => P' >= 1)
      BY <1>0
    <3>4. QED
      BY <2>0, <3>1, <3>2, <3>3 DEF Local
  <2>3. QED
    BY <2>1, <2>2
<1>2. \A e \in Calls : Inside(e)' <=> Inside(e)
  BY DEF Inside
<1>3. ASSUME NEW x \in Int, get_count = Usize(x) PROVE get_count' = Usize(x + j)
  BY <1>3, UsizeShift
<1>4. ASSUME NEW x \in Int, put_count = Usize(x) PROVE put_count' = Usize(x + k)
  BY <1>4, UsizeShift
<1>5. ASSUME \A e \in Calls : ~Inside(e)'
      PROVE  get_count' = Usize(G') /\ put_count' = Usize(P')
  BY <1>0, <1>2, <1>3, <1>4, <1>5 DEF Counted
<1>6. ASSUME NEW e \in Calls, Inside(e)'
      PROVE  /\ get_count' = Usize(G' - Debt(d'[e].pc, GetClaim) + d'[e].removed)
             /\ put_count' = Usize(P' - Debt(d'[e].pc, PutClaim))
  <2>1. e # c /\ Inside(e) /\ d'[e] = d[e] /\ d[e].removed \in Nat
    BY <1>2, <1>6 DEF Base, Typed, DRec
  <2> DEFINE x == G - Debt(d[e].pc, GetClaim) + d[e].removed
             y == P - Debt(d[e].pc, PutClaim)
  <2>2. get_count = Usize(x) /\ put_count = Usize(y)
    BY <1>0, <2>1 DEF Counted
  <2>3. x \in Int /\ y \in Int
    BY <1>0, <2>1, SMTT(30) DEF Debt
  <2>4. /\ G' - Debt(d[e].pc, GetClaim) + d[e].removed = x + j
        /\ P' - Debt(d[e].pc, PutClaim) = y + k
    <3>1. Debt(d[e].pc, GetClaim) \in Int /\ Debt(d[e].pc, PutClaim) \in Int
      BY DEF Debt
    <3>2. j \in Int /\ k \in Int /\ G' = G + j /\ P' = P + k
      OBVIOUS
    <3>3. PICK a \in Int, b \in Int, r \in Int :
               a = Debt(d[e].pc, GetClaim) /\ b = Debt(d[e].pc, PutClaim) /\ r = d[e].removed
      BY <2>1, <3>1
    <3>4. x = G - a + r /\ y = P - b
      BY <3>3
    <3> HIDE DEF x, y
    <3>5. G' - a + r = (G + j) - a + r /\ P' - b = (P + k) - b
      BY <3>2
    <3>7. (G + j) - a + r = (G - a + r) + j /\ (P + k) - b = (P - b) + k
      <4>1. PICK g \in Int, h \in Int : g = G /\ h = P
        BY <1>0
      <4>2. (g + j) - a + r = (g - a + r) + j /\ (h + k) - b = (h - b) + k
        BY <3>2
      <4>3. QED
        BY <4>1, <4>2
    <3>6. QED
      BY <3>3, <3>4, <3>5, <3>7
  <2> HIDE DEF x, y
  <2>5. get_count' = Usize(x + j) /\ put_count' = Usize(y + k)
    BY <1>3, <1>4, <2>2, <2>3
  <2>6. QED
    BY <2>1, <2>4, <2>5
<1>7. Counted'
  BY <1>0, <1>5, <1>6 DEF Counted
<1>8. QED
  BY <1>1, <1>7 DEF Numbers

\* What is claimed and what is taken cancel out.
LEMMA Balance ==
  ASSUME NEW g \in Int, NEW a \in Int, NEW r \in Int, NEW m \in Int,
         NEW i \in Int, NEW a2 \in Int, NEW r2 \in Int, m - a + r = r2 - i - a2
  PROVE  (g - a + r) + m = (g - i) - a2 + r2
OBVIOUS

\* A step of the thread inside dispatch() that takes i getters and j puts, and
\* adds m and n to the counts.
LEMMA NumbersInside ==
  ASSUME Base, Numbers, NEW c \in Calls, BlockStep(c), ~Count(c), Inside(c),
         NEW m \in Int, NEW n \in Int, NEW i \in Nat, NEW j \in Nat,
         get_count' = Usize(get_count + m), put_count' = Usize(put_count + n),
         Len(getters') = Len(getters) - i, Len(putters') = Len(putters) - j,
         m - Debt(d[c].pc, GetClaim) + d[c].removed
           = d'[c].removed - i - Debt(d'[c].pc, GetClaim),
         n - Debt(d[c].pc, PutClaim) = 0 - j - Debt(d'[c].pc, PutClaim),
         i <= G, j <= P,
         Len(or_null_queue') <= Len(or_null_queue),
         Local(c)'
  PROVE  Numbers'
<1>1. /\ G \in Int /\ P \in Int /\ Len(getters) \in Nat /\ Len(putters) \in Nat
      /\ get_count = Usize(G - Debt(d[c].pc, GetClaim) + d[c].removed)
      /\ put_count = Usize(P - Debt(d[c].pc, PutClaim))
      /\ live
  BY QueueSizes, BlockFacts DEF Numbers, Counted
<1>2. /\ d'[c] \in DRec /\ d[c] \in DRec /\ d[c].removed \in Nat /\ d'[c].removed \in Nat
  BY ThreadStep DEF Base, Typed, DRec
<1>3. \A e \in Calls : e # c => d'[e] = d[e] /\ ~Inside(e)
  BY InsideStep DEF Base, OneDispatcher
<1>4. Len(or_null_queue') \in Nat
  BY QueuesTyped DEF Base
<1>5. G' = G + Len(getters') - Len(getters) /\ P' = P + Len(putters') - Len(putters)
  BY MoveNumbers
<1>6. G' = G - i /\ P' = P - j
  BY <1>1, <1>5
<1>7. G' \in Int /\ P' \in Int /\ G' >= 0 /\ P' >= 0
  BY <1>1, <1>6
<1>8. PICK a \in Int, b \in Int, a2 \in Int, b2 \in Int :
           /\ a = Debt(d[c].pc, GetClaim) /\ b = Debt(d[c].pc, PutClaim)
           /\ a2 = Debt(d'[c].pc, GetClaim) /\ b2 = Debt(d'[c].pc, PutClaim)
  BY DEF Debt
<1>9. PICK g \in Int, p \in Int, r \in Int, r2 \in Int :
           g = G /\ p = P /\ r = d[c].removed /\ r2 = d'[c].removed
  <2>1. G \in Int /\ P \in Int
    BY <1>1
  <2>2. d[c].removed \in Int /\ d'[c].removed \in Int
    BY <1>2, SMTT(30)
  <2>3. QED
    BY <2>1, <2>2, Zenon
<1>10. get_count' = Usize((g - i) - a2 + r2)
  <2>1. get_count = Usize(g - a + r)
    BY <1>1, <1>8, <1>9
  <2>2. g - a + r \in Int
    OBVIOUS
  <2>3. get_count' = Usize((g - a + r) + m)
    BY <2>1, <2>2, UsizeShift
  <2>4. m - a + r = r2 - i - a2
    BY <1>8, <1>9
  <2>5. (g - a + r) + m = (g - i) - a2 + r2
    BY <2>4, Balance
  <2>6. QED
    BY <2>3, <2>5
<1>11. put_count' = Usize((p - j) - b2)
  <2>1. put_count = Usize(p - b)
    BY <1>1, <1>8, <1>9
  <2>2. p - b \in Int
    OBVIOUS
  <2>3. put_count' = Usize((p - b) + n)
    BY <2>1, <2>2, UsizeShift
  <2>4. n - b = 0 - j - b2
    BY <1>8
  <2>5. (p - b) + n = (p - j) - b2
    BY <2>4
  <2>6. QED
    BY <2>3, <2>5
<1>12. /\ get_count' = Usize(G' - Debt(d'[c].pc, GetClaim) + d'[c].removed)
       /\ put_count' = Usize(P' - Debt(d'[c].pc, PutClaim))
  BY <1>6, <1>8, <1>9, <1>10, <1>11
<1>13. QED
  BY <1>1, <1>2, <1>3, <1>4, <1>7, <1>12, NumbersFrom

\* Adding nothing changes nothing.
LEMMA UsizeSame ==
  ASSUME Typed
  PROVE  get_count = Usize(get_count + 0) /\ put_count = Usize(put_count + 0)
<1>1. get_count + 0 = get_count /\ put_count + 0 = put_count
  BY DEF Typed
<1>2. QED
  BY <1>1, UsizeSmall DEF Typed

\* Before the step, the thread inside dispatch().
LEMMA InsideFacts ==
  ASSUME Base, Numbers, live, NEW c \in Calls, Inside(c)
  PROVE  /\ d[c] \in DRec /\ Local(c) /\ G \in Int /\ P \in Int /\ G >= 0 /\ P >= 0
         /\ d[c].gets \in Nat /\ d[c].puts \in Nat /\ d[c].removed \in Nat
         /\ (d[c].pc \notin GetClaim /\ d[c].pc # "or_nulls") => get_count = G
         /\ d[c].pc \notin PutClaim => put_count = P
<1>1. /\ d[c] \in DRec /\ Local(c) /\ G \in Int /\ P \in Int /\ G >= 0 /\ P >= 0
      /\ d[c].gets \in Nat /\ d[c].puts \in Nat /\ d[c].removed \in Nat
      /\ G <= UsizeRange - 1 /\ P <= UsizeRange - 1
  BY QueueSizes, RangeType DEF Numbers, Counted, Base, Typed, DRec
<1>2. G \in 0..(UsizeRange - 1) /\ P \in 0..(UsizeRange - 1)
  BY <1>1, RangeType
<1>3. Usize(G) = G /\ Usize(P) = P
  BY <1>2, UsizeSmall
<1>4. ASSUME d[c].pc \notin GetClaim, d[c].pc # "or_nulls" PROVE get_count = G
  <2>1. Debt(d[c].pc, GetClaim) = 0 /\ d[c].removed = 0
    BY <1>1, <1>4 DEF Debt, Local
  <2>2. get_count = Usize(G - 0 + 0)
    BY <2>1 DEF Numbers, Counted
  <2>3. G - 0 + 0 = G
    BY <1>1
  <2>4. QED
    BY <1>3, <2>2, <2>3
<1>5. ASSUME d[c].pc \notin PutClaim PROVE put_count = P
  <2>1. Debt(d[c].pc, PutClaim) = 0
    BY <1>5 DEF Debt
  <2>2. put_count = Usize(P - 0)
    BY <2>1 DEF Numbers, Counted
  <2>3. P - 0 = P
    BY <1>1
  <2>4. QED
    BY <1>3, <2>2, <2>3
<1>6. QED
  BY <1>1, <1>4, <1>5

\* A step inside dispatch() that leaves the queues and the buffer alone.
LEMMA NumbersAlone ==
  ASSUME Base, Numbers, NEW c \in Calls, BlockStep(c), ~Count(c), Inside(c),
         UNCHANGED queues, UNCHANGED buffer_len,
         NEW m \in Int, NEW n \in Int,
         get_count' = Usize(get_count + m), put_count' = Usize(put_count + n),
         m - Debt(d[c].pc, GetClaim) + d[c].removed
           = d'[c].removed - Debt(d'[c].pc, GetClaim),
         n - Debt(d[c].pc, PutClaim) = 0 - Debt(d'[c].pc, PutClaim),
         G' = G /\ P' = P => Local(c)'
  PROVE  Numbers'
<1>1. /\ getters' = getters /\ putters' = putters /\ or_null_queue' = or_null_queue
      /\ Len(getters) \in Nat /\ Len(putters) \in Nat /\ Len(or_null_queue) \in Nat
      /\ G \in Int /\ P \in Int /\ G >= 0 /\ P >= 0
  BY QueueSizes, BlockFacts DEF queues, Numbers, Counted
<1>2. G' = G /\ P' = P
  <2>1. G' = G + Len(getters') - Len(getters) /\ P' = P + Len(putters') - Len(putters)
    BY MoveNumbers
  <2>2. QED
    BY <1>1, <2>1
<1>3. /\ Len(getters') = Len(getters) - 0 /\ Len(putters') = Len(putters) - 0
      /\ 0 <= G /\ 0 <= P /\ Len(or_null_queue') <= Len(or_null_queue)
  BY <1>1
<1>4. d[c].removed \in Nat /\ d'[c].removed \in Nat
  BY ThreadStep DEF Base, Typed, DRec
<1>5. /\ m - Debt(d[c].pc, GetClaim) + d[c].removed
           = d'[c].removed - 0 - Debt(d'[c].pc, GetClaim)
      /\ n - Debt(d[c].pc, PutClaim) = 0 - 0 - Debt(d'[c].pc, PutClaim)
  BY <1>4 DEF Debt
<1>6. QED
  BY <1>2, <1>3, <1>5, NumbersInside

\* The steps of the thread inside dispatch(), one by one.
LEMMA ClaimNumbers ==
  ASSUME Base, Numbers, NEW c \in Calls, Claim(c)
  PROVE  Numbers'
<1>1. BlockStep(c)
  BY DEF BlockStep, Dispatch
<1>2. /\ d[c].pc \in {"sub_get", "sub_put", "buffer_sub", "direct_sub_get",
                      "direct_sub_put", "fill_sub"}
  BY DEF Claim, SubGet, SubPut, At
<1>3. Inside(c) /\ ~Count(c)
  BY <1>2 DEF Inside, Count, At
<1>4. live
  BY <1>1, BlockFacts
<1>5. /\ d[c] \in DRec /\ Local(c) /\ G \in Int /\ P \in Int /\ G >= 0 /\ P >= 0
      /\ d[c].gets \in Nat /\ d[c].puts \in Nat /\ d[c].removed \in Nat
      /\ (d[c].pc \notin GetClaim /\ d[c].pc # "or_nulls") => get_count = G
      /\ d[c].pc \notin PutClaim => put_count = P
  BY <1>3, <1>4, InsideFacts
<1>6. d \in [Calls -> DRec] /\ get_count \in Int /\ put_count \in Int
  BY RangeType DEF Base, Typed
<1>7. get_count = Usize(get_count + 0) /\ put_count = Usize(put_count + 0)
  BY UsizeSame DEF Base
<1>8. CASE \/ SubGet(c, "sub_get", "sub_put") \/ SubGet(c, "buffer_sub", "from_buffer")
           \/ SubGet(c, "direct_sub_get", "direct_sub_put")
  <2>1. /\ UNCHANGED queues /\ UNCHANGED buffer_len /\ UNCHANGED or_null_queue
        /\ get_count' = Usize(get_count - 1) /\ put_count' = put_count
    BY <1>8 DEF SubGet, buffer, queues
  <2>2. /\ d'[c].gets = get_count /\ d'[c].puts = d[c].puts /\ d'[c].removed = d[c].removed
        /\ \/ d[c].pc = "sub_get" /\ d'[c].pc = "sub_put"
           \/ d[c].pc = "buffer_sub" /\ d'[c].pc = "from_buffer"
           \/ d[c].pc = "direct_sub_get" /\ d'[c].pc = "direct_sub_put"
    BY <1>6, <1>8 DEF SubGet, At, DRec
  <2>3. get_count' = Usize(get_count + (-1)) /\ put_count' = Usize(put_count + 0)
    BY <1>6, <1>7, <2>1
  <2>4. /\ -1 - Debt(d[c].pc, GetClaim) + d[c].removed
             = d'[c].removed - Debt(d'[c].pc, GetClaim)
        /\ 0 - Debt(d[c].pc, PutClaim) = 0 - Debt(d'[c].pc, PutClaim)
    BY <1>5, <2>2 DEF Debt, GetClaim, PutClaim
  <2>5. get_count = G
    BY <1>5, <2>2 DEF GetClaim
  <2>6. ASSUME G' = G, P' = P PROVE Local(c)'
    BY <1>5, <2>1, <2>2, <2>5, <2>6 DEF Local, GetClaim, PutClaim
  <2>7. QED
    BY <1>1, <1>3, <2>1, <2>3, <2>4, <2>6, NumbersAlone
<1>9. CASE \/ SubPut(c, "sub_put", "from_buffer") \/ SubPut(c, "direct_sub_put", "direct")
           \/ SubPut(c, "fill_sub", "fill")
  <2>1. /\ UNCHANGED queues /\ UNCHANGED buffer_len /\ UNCHANGED or_null_queue
        /\ put_count' = Usize(put_count - 1) /\ get_count' = get_count
    BY <1>9 DEF SubPut, buffer, queues
  <2>2. /\ d'[c].puts = put_count /\ d'[c].gets = d[c].gets /\ d'[c].removed = d[c].removed
        /\ \/ d[c].pc = "sub_put" /\ d'[c].pc = "from_buffer"
           \/ d[c].pc = "direct_sub_put" /\ d'[c].pc = "direct"
           \/ d[c].pc = "fill_sub" /\ d'[c].pc = "fill"
    BY <1>6, <1>9 DEF SubPut, At, DRec
  <2>3. put_count' = Usize(put_count + (-1)) /\ get_count' = Usize(get_count + 0)
    BY <1>6, <1>7, <2>1
  <2>4. /\ 0 - Debt(d[c].pc, GetClaim) + d[c].removed
             = d'[c].removed - Debt(d'[c].pc, GetClaim)
        /\ -1 - Debt(d[c].pc, PutClaim) = 0 - Debt(d'[c].pc, PutClaim)
    BY <1>5, <2>2 DEF Debt, GetClaim, PutClaim
  <2>5. put_count = P
    BY <1>5, <2>2 DEF PutClaim
  <2>6. ASSUME G' = G, P' = P PROVE Local(c)'
    BY <1>5, <2>1, <2>2, <2>5, <2>6 DEF Local, GetClaim, PutClaim
  <2>7. QED
    BY <1>1, <1>3, <2>1, <2>3, <2>4, <2>6, NumbersAlone
<1>10. QED
  BY <1>8, <1>9 DEF Claim

\* Lines 293-294 undo the two last claims.
LEMMA UnclaimNumbers ==
  ASSUME Base, Numbers, NEW c \in Calls, UnclaimGet(c) \/ UnclaimPut(c)
  PROVE  Numbers'
<1>1. BlockStep(c)
  BY DEF BlockStep, Dispatch
<1>2. d[c].pc \in {"add_get", "add_put"}
  BY DEF UnclaimGet, UnclaimPut, At
<1>3. Inside(c) /\ ~Count(c)
  BY <1>2 DEF Inside, Count, At
<1>4. live
  BY <1>1, BlockFacts
<1>5. /\ d[c] \in DRec /\ Local(c)
      /\ d[c].gets \in Nat /\ d[c].puts \in Nat /\ d[c].removed \in Nat
  BY <1>3, <1>4, InsideFacts
<1>6. d \in [Calls -> DRec] /\ get_count \in Int /\ put_count \in Int
  BY RangeType DEF Base, Typed
<1>7. get_count = Usize(get_count + 0) /\ put_count = Usize(put_count + 0)
  BY UsizeSame DEF Base
<1>8. CASE UnclaimGet(c)
  <2>1. /\ UNCHANGED queues /\ UNCHANGED buffer_len /\ UNCHANGED or_null_queue
        /\ get_count' = Usize(get_count + 1) /\ put_count' = Usize(put_count + 0)
    BY <1>7, <1>8 DEF UnclaimGet, buffer, queues
  <2>2. /\ d'[c].gets = 0 /\ d'[c].puts = d[c].puts /\ d'[c].removed = d[c].removed
        /\ d[c].pc = "add_get" /\ d'[c].pc = "add_put"
    BY <1>6, <1>8 DEF UnclaimGet, At, DRec
  <2>3. /\ 1 - Debt(d[c].pc, GetClaim) + d[c].removed
             = d'[c].removed - Debt(d'[c].pc, GetClaim)
        /\ 0 - Debt(d[c].pc, PutClaim) = 0 - Debt(d'[c].pc, PutClaim)
    BY <1>5, <2>2 DEF Debt, GetClaim, PutClaim
  <2>4. ASSUME G' = G, P' = P PROVE Local(c)'
    BY <1>5, <2>1, <2>2, <2>4 DEF Local, GetClaim, PutClaim
  <2>5. QED
    BY <1>1, <1>3, <2>1, <2>3, <2>4, NumbersAlone
<1>9. CASE UnclaimPut(c)
  <2>1. /\ UNCHANGED queues /\ UNCHANGED buffer_len /\ UNCHANGED or_null_queue
        /\ get_count' = Usize(get_count + 0) /\ put_count' = Usize(put_count + 1)
    BY <1>7, <1>9 DEF UnclaimPut, buffer, queues
  <2>2. /\ d'[c].puts = 0 /\ d'[c].gets = d[c].gets /\ d'[c].removed = d[c].removed
        /\ d[c].pc = "add_put" /\ d'[c].pc = "or_nulls"
    BY <1>6, <1>9 DEF UnclaimPut, At, DRec
  <2>3. /\ 0 - Debt(d[c].pc, GetClaim) + d[c].removed
             = d'[c].removed - Debt(d'[c].pc, GetClaim)
        /\ 1 - Debt(d[c].pc, PutClaim) = 0 - Debt(d'[c].pc, PutClaim)
    BY <1>5, <2>2 DEF Debt, GetClaim, PutClaim
  <2>4. ASSUME G' = G, P' = P PROVE Local(c)'
    BY <1>5, <2>1, <2>2, <2>4 DEF Local, GetClaim, PutClaim
  <2>5. QED
    BY <1>1, <1>3, <2>1, <2>3, <2>4, NumbersAlone
<1>10. QED
  BY <1>8, <1>9

\* One thread moves values and nobody else is at "count".
LEMMA AllCounted ==
  ASSUME Base, num_threads = 1, NEW c \in Calls, Inside(c)
  PROVE  G = Len(getters) /\ P = Len(putters)
<1>1. \A e \in Calls : d[e].pc # "count"
  BY DEF Base, Placed, Busy, Inside
<1>2. {e \in Getters : d[e].pc = "count"} = {} /\ {e \in Puts : d[e].pc = "count"} = {}
  BY <1>1, CallSets
<1>3. Uncounted(Getters) = 0 /\ Uncounted(Puts) = 0
  BY <1>2, FS_EmptySet DEF Uncounted
<1>4. QED
  BY <1>3, QueueSizes DEF G, P

\* The steps that only go on.
Passing(c) == ClearNeed(c) \/ TestNeed(c) \/ Unlock(c) \/ BufferDone(c) \/ DirectDone(c) \/ FillDone(c)

\* Ending a loop keeps the claims.
LEMMA PassingNumbers ==
  ASSUME Base, Numbers, NEW c \in Calls, Passing(c)
  PROVE  Numbers'
<1> USE DEF At, GoTo
<1>1. BlockStep(c)
  BY DEF BlockStep, Dispatch, Passing
<1>2. d[c].pc \in {"clear", "test", "unlock", "from_buffer", "direct", "fill"}
  BY DEF Passing, ClearNeed, TestNeed, Unlock, BufferDone, DirectDone, FillDone
<1>3. Inside(c) /\ ~Count(c)
  BY <1>2 DEF Inside, Count
<1>4. live
  BY <1>1, BlockFacts
<1>5. /\ d[c] \in DRec /\ Local(c)
      /\ d[c].gets \in Nat /\ d[c].puts \in Nat /\ d[c].removed \in Nat
  BY <1>3, <1>4, InsideFacts
<1>6. d \in [Calls -> DRec]
  BY DEF Base, Typed
<1>7. get_count = Usize(get_count + 0) /\ put_count = Usize(put_count + 0)
  BY UsizeSame DEF Base
<1>8. UNCHANGED queues /\ UNCHANGED counts /\ UNCHANGED buffer
  BY DEF Passing, ClearNeed, TestNeed, Unlock, BufferDone, DirectDone, FillDone
<1>9. /\ UNCHANGED queues /\ UNCHANGED buffer_len /\ UNCHANGED or_null_queue
      /\ get_count' = Usize(get_count + 0) /\ put_count' = Usize(put_count + 0)
  BY <1>7, <1>8 DEF queues, counts, buffer
<1>10. /\ d'[c].gets = d[c].gets /\ d'[c].puts = d[c].puts /\ d'[c].removed = d[c].removed
       /\ \/ d[c].pc = "clear" /\ d'[c].pc = "sub_get"
          \/ d[c].pc = "test" /\ d'[c].pc \in {"sub_get", "unlock"}
          \/ d[c].pc = "unlock" /\ d'[c].pc = "recheck"
          \/ d[c].pc = "from_buffer" /\ d'[c].pc = "add_get"
          \/ d[c].pc = "from_buffer" /\ d'[c].pc = "direct" /\ buffer_len = 0
          \/ d[c].pc = "direct" /\ d'[c].pc = "fill" /\ (d[c].gets = 0 \/ d[c].puts = 0)
          \/ d[c].pc = "fill" /\ d'[c].pc = "add_get"
  <2>1. CASE ClearNeed(c) \/ TestNeed(c) \/ Unlock(c)
    BY <1>6, <2>1 DEF ClearNeed, TestNeed, Unlock, DRec
  <2>2. CASE BufferDone(c) \/ DirectDone(c) \/ FillDone(c)
    BY <1>6, <2>2 DEF BufferDone, DirectDone, FillDone, DRec
  <2>3. QED
    BY <2>1, <2>2 DEF Passing
<1>11. /\ 0 - Debt(d[c].pc, GetClaim) + d[c].removed
            = d'[c].removed - Debt(d'[c].pc, GetClaim)
       /\ 0 - Debt(d[c].pc, PutClaim) = 0 - Debt(d'[c].pc, PutClaim)
  BY <1>5, <1>10 DEF Debt, GetClaim, PutClaim
<1>12. ASSUME G' = G, P' = P PROVE Local(c)'
  BY <1>5, <1>9, <1>10, <1>12 DEF Local, GetClaim, PutClaim
<1>13. QED
  BY <1>1, <1>3, <1>9, <1>11, <1>12, NumbersAlone

\* remove_count is what has been taken.
LEMMA OrNullsDoneNumbers ==
  ASSUME Base, Numbers, NEW c \in Calls, OrNullsDone(c)
  PROVE  Numbers'
<1>1. BlockStep(c)
  BY DEF BlockStep, Dispatch
<1>2. d[c].pc = "or_nulls"
  BY DEF OrNullsDone, At
<1>3. Inside(c) /\ ~Count(c)
  BY <1>2 DEF Inside, Count, At
<1>4. live
  BY <1>1, BlockFacts
<1>5. /\ d[c] \in DRec /\ Local(c)
      /\ d[c].gets \in Nat /\ d[c].puts \in Nat /\ d[c].removed \in Nat
  BY <1>3, <1>4, InsideFacts
<1>6. d \in [Calls -> DRec] /\ get_count \in Int /\ put_count \in Int
  BY RangeType DEF Base, Typed
<1>7. get_count = Usize(get_count + 0) /\ put_count = Usize(put_count + 0)
  BY UsizeSame DEF Base
<1>8. /\ UNCHANGED queues /\ UNCHANGED buffer_len /\ UNCHANGED or_null_queue
      /\ get_count' = Usize(get_count - d[c].removed) /\ put_count' = Usize(put_count + 0)
  BY <1>7 DEF OrNullsDone, buffer, queues
<1>9. get_count' = Usize(get_count + (-d[c].removed)) /\ -d[c].removed \in Int
  BY <1>5, <1>6, <1>8
<1>10. d'[c].removed = 0 /\ d'[c].pc = "test"
  BY <1>6 DEF OrNullsDone, DRec
<1>11. /\ -d[c].removed - Debt(d[c].pc, GetClaim) + d[c].removed
            = d'[c].removed - Debt(d'[c].pc, GetClaim)
       /\ 0 - Debt(d[c].pc, PutClaim) = 0 - Debt(d'[c].pc, PutClaim)
  BY <1>2, <1>5, <1>10 DEF Debt, GetClaim, PutClaim
<1>12. ASSUME G' = G, P' = P PROVE Local(c)'
  BY <1>5, <1>8, <1>10, QueueSizes DEF Local, GetClaim, PutClaim
<1>13. QED
  BY <1>1, <1>3, <1>8, <1>9, <1>11, <1>12, NumbersAlone

\* The getter given a value is the one claimed.
LEMMA GiveNumbers ==
  ASSUME Base, Numbers, NEW c \in Calls, GiveBuffered(c) \/ HandOver(c)
  PROVE  Numbers'
<1>1. BlockStep(c)
  BY DEF BlockStep, Dispatch
<1>2. d[c].pc \in {"from_buffer", "direct"}
  BY DEF GiveBuffered, HandOver, At
<1>3. Inside(c) /\ ~Count(c)
  BY <1>2 DEF Inside, Count, At
<1>4. live
  BY <1>1, BlockFacts
<1>5. /\ d[c] \in DRec /\ Local(c) /\ G \in Int /\ P \in Int /\ G >= 0 /\ P >= 0
      /\ d[c].gets \in Nat /\ d[c].puts \in Nat /\ d[c].removed \in Nat
  BY <1>3, <1>4, InsideFacts
<1>6. d \in [Calls -> DRec]
  BY DEF Base, Typed
<1>7. get_count = Usize(get_count + 0) /\ put_count = Usize(put_count + 0)
  BY UsizeSame DEF Base
<1>8. /\ Len(getters) \in Nat /\ Len(putters) \in Nat /\ Len(or_null_queue) \in Nat
      /\ Cardinality(OrNulls) \in Nat
  BY QueueSizes
<1>9. getters # <<>> /\ getters' = Tail(getters) /\ getters \in Seq(Getters)
  BY GiveFacts DEF Base, Typed
<1>10. Len(getters') = Len(getters) - 1
  BY <1>9, HeadTail
<1>11. Len(or_null_queue') <= Len(or_null_queue) /\ Len(or_null_queue') \in Nat
  <2>1. or_null_queue' = Without(or_null_queue, Head(getters)) /\ or_null_queue \in Seq(OrNulls)
    BY DEF GiveBuffered, HandOver, GiveNext, Base, Typed
  <2>2. or_null_queue' \in Seq(OrNulls) /\ Len(or_null_queue) - Len(or_null_queue') \in {0, 1}
    BY <2>1, WithoutSeq
  <2>3. Len(or_null_queue') \in Nat
    BY <2>2
  <2>4. QED
    BY <1>8, <2>2, <2>3
<1>12. counts' = counts /\ get_count' = get_count /\ put_count' = put_count
  BY DEF GiveBuffered, HandOver, counts
<1>13. /\ get_count' = Usize(get_count + 0) /\ put_count' = Usize(put_count + 0)
  BY <1>7, <1>12
<1>14. G' = G + Len(getters') - Len(getters) /\ P' = P + Len(putters') - Len(putters)
  BY <1>1, <1>3, MoveNumbers
<1>15. CASE GiveBuffered(c)
  <2>1. /\ d'[c].gets = d[c].gets /\ d'[c].puts = d[c].puts /\ d'[c].removed = d[c].removed
        /\ d[c].pc = "from_buffer" /\ d'[c].pc = "buffer_sub" /\ d[c].gets # 0
    BY <1>6, <1>15 DEF GiveBuffered, At, GoTo, DRec
  <2>2. putters' = putters
    BY <1>15 DEF GiveBuffered
  <2>3. G >= 1 /\ P' = P /\ d[c].removed = 0
    BY <1>5, <1>8, <1>14, <2>1, <2>2 DEF Local, GetClaim
  <2>4. Local(c)'
    BY <1>5, <1>8, <1>11, <2>1, <2>3 DEF Local, GetClaim, PutClaim
  <2>5. /\ 0 - Debt(d[c].pc, GetClaim) + d[c].removed
             = d'[c].removed - 1 - Debt(d'[c].pc, GetClaim)
        /\ 0 - Debt(d[c].pc, PutClaim) = 0 - 0 - Debt(d'[c].pc, PutClaim)
    BY <1>5, <2>1 DEF Debt, GetClaim, PutClaim
  <2>6. Len(putters') = Len(putters) - 0 /\ 1 <= G /\ 0 <= P
    BY <1>5, <1>8, <2>2, <2>3
  <2>7. QED
    BY <1>1, <1>3, <1>10, <1>11, <1>13, <2>4, <2>5, <2>6, NumbersInside
<1>16. CASE HandOver(c)
  <2>1. /\ d'[c].gets = d[c].gets /\ d'[c].puts = d[c].puts /\ d'[c].removed = d[c].removed
        /\ d[c].pc = "direct" /\ d'[c].pc = "direct_sub_get" /\ d[c].gets # 0 /\ d[c].puts # 0
    BY <1>6, <1>16 DEF HandOver, At, GoTo, DRec
  <2>2. putters # <<>> /\ putters' = Tail(putters) /\ putters \in Seq(Puts)
        /\ buffer_len' = buffer_len
    BY <1>16 DEF HandOver, Base, Typed, buffer
  <2>3. Len(putters') = Len(putters) - 1
    BY <2>2, HeadTail
  <2>4. G >= 1 /\ P >= 1 /\ d[c].removed = 0 /\ buffer_len = 0
    BY <1>5, <2>1 DEF Local, GetClaim, PutClaim
  <2>5. Local(c)'
    BY <1>5, <1>8, <1>11, <2>1, <2>2, <2>4 DEF Local, GetClaim, PutClaim
  <2>6. /\ 0 - Debt(d[c].pc, GetClaim) + d[c].removed
             = d'[c].removed - 1 - Debt(d'[c].pc, GetClaim)
        /\ 0 - Debt(d[c].pc, PutClaim) = 0 - 1 - Debt(d'[c].pc, PutClaim)
    BY <1>5, <2>1 DEF Debt, GetClaim, PutClaim
  <2>7. 1 <= G /\ 1 <= P
    BY <1>5, <2>4
  <2>8. PICK z \in Int, o \in Nat : z = 0 /\ o = 1
    OBVIOUS
  <2>9. /\ get_count' = Usize(get_count + z) /\ put_count' = Usize(put_count + z)
        /\ Len(getters') = Len(getters) - o /\ Len(putters') = Len(putters) - o
        /\ z - Debt(d[c].pc, GetClaim) + d[c].removed
             = d'[c].removed - o - Debt(d'[c].pc, GetClaim)
        /\ z - Debt(d[c].pc, PutClaim) = 0 - o - Debt(d'[c].pc, PutClaim)
        /\ o <= G /\ o <= P
    BY <1>10, <1>13, <2>3, <2>6, <2>7, <2>8
  <2>10. QED
    BY <1>1, <1>3, <1>11, <2>5, <2>9, NumbersInside
<1>17. QED
  BY <1>15, <1>16

\* The put taken into the buffer is the one claimed.
LEMMA FillNumbers ==
  ASSUME Base, Numbers, NEW c \in Calls, Fill(c)
  PROVE  Numbers'
<1>1. BlockStep(c)
  BY DEF BlockStep, Dispatch
<1>2. d[c].pc = "fill" /\ d[c].puts # 0
  BY DEF Fill, At
<1>3. Inside(c) /\ ~Count(c)
  BY <1>2 DEF Inside, Count, At
<1>4. live
  BY <1>1, BlockFacts
<1>5. /\ d[c] \in DRec /\ Local(c) /\ G \in Int /\ P \in Int /\ G >= 0 /\ P >= 0
      /\ d[c].gets \in Nat /\ d[c].puts \in Nat /\ d[c].removed \in Nat
  BY <1>3, <1>4, InsideFacts
<1>6. d \in [Calls -> DRec]
  BY DEF Base, Typed
<1>7. get_count = Usize(get_count + 0) /\ put_count = Usize(put_count + 0)
  BY UsizeSame DEF Base
<1>8. /\ Len(getters) \in Nat /\ Len(putters) \in Nat /\ Len(or_null_queue) \in Nat
      /\ Cardinality(OrNulls) \in Nat
  BY QueueSizes
<1>9. /\ getters' = getters /\ or_null_queue' = or_null_queue
      /\ get_count' = get_count /\ put_count' = put_count
  BY DEF Fill, counts
<1>10. /\ get_count' = Usize(get_count + 0) /\ put_count' = Usize(put_count + 0)
       /\ Len(getters') = Len(getters) - 0 /\ 0 <= G /\ Len(or_null_queue') <= Len(or_null_queue)
  BY <1>5, <1>7, <1>8, <1>9
<1>11. d[c].gets = 0 /\ P >= 1 /\ d[c].removed = 0
  BY <1>2, <1>5 DEF Local, PutClaim
<1>12. CASE buffer_index \in DOMAIN buffer_nodes
  <2>1. /\ d'[c].gets = d[c].gets /\ d'[c].puts = d[c].puts /\ d'[c].removed = d[c].removed
        /\ d'[c].pc = "fill_sub"
    BY <1>6, <1>12 DEF Fill, At, GoTo, DRec
  <2>2. putters # <<>> /\ putters' = Tail(putters) /\ putters \in Seq(Puts)
    BY <1>12 DEF Fill, Base, Typed
  <2>3. Len(putters') = Len(putters) - 1
    BY <2>2, HeadTail
  <2>4. Local(c)'
    BY <1>5, <1>9, <1>11, <2>1 DEF Local, GetClaim, PutClaim
  <2>5. /\ 0 - Debt(d[c].pc, GetClaim) + d[c].removed
             = d'[c].removed - 0 - Debt(d'[c].pc, GetClaim)
        /\ 0 - Debt(d[c].pc, PutClaim) = 0 - 1 - Debt(d'[c].pc, PutClaim)
    BY <1>2, <1>5, <2>1 DEF Debt, GetClaim, PutClaim
  <2>6. 1 <= P
    BY <1>5, <1>11
  <2>7. QED
    BY <1>1, <1>3, <1>10, <2>3, <2>4, <2>5, <2>6, NumbersInside
<1>13. CASE buffer_index \notin DOMAIN buffer_nodes
  <2>1. d' = d /\ UNCHANGED queues /\ buffer_len' = buffer_len
    BY <1>9, <1>13 DEF Fill, queues, buffer
  <2>2. /\ 0 - Debt(d[c].pc, GetClaim) + d[c].removed
             = d'[c].removed - Debt(d'[c].pc, GetClaim)
        /\ 0 - Debt(d[c].pc, PutClaim) = 0 - Debt(d'[c].pc, PutClaim)
    BY <1>5, <2>1 DEF Debt
  <2>3. ASSUME G' = G, P' = P PROVE Local(c)'
    BY <1>5, <1>9, <2>1, <2>3 DEF Local
  <2>4. QED
    BY <1>1, <1>3, <1>10, <2>1, <2>2, <2>3, NumbersAlone
<1>14. QED
  BY <1>12, <1>13

\* A getOrNull() resumed with null goes into remove_count.
LEMMA ResumeNumbers ==
  ASSUME Base, Numbers, NEW c \in Calls, ResumeOrNull(c)
  PROVE  Numbers'
<1>1. BlockStep(c)
  BY DEF BlockStep, Dispatch
<1>2. d[c].pc = "or_nulls"
  BY DEF ResumeOrNull, At
<1>3. Inside(c) /\ ~Count(c)
  BY <1>2 DEF Inside, Count, At
<1>4. live
  BY <1>1, BlockFacts
<1>5. /\ d[c] \in DRec /\ Local(c) /\ G \in Int /\ P \in Int /\ G >= 0 /\ P >= 0
      /\ d[c].gets \in Nat /\ d[c].puts \in Nat /\ d[c].removed \in Nat
  BY <1>3, <1>4, InsideFacts
<1>6. d \in [Calls -> DRec]
  BY DEF Base, Typed
<1>7. get_count = Usize(get_count + 0) /\ put_count = Usize(put_count + 0)
  BY UsizeSame DEF Base
<1>8. /\ Len(getters) \in Nat /\ Len(putters) \in Nat /\ Len(or_null_queue) \in Nat
      /\ Cardinality(OrNulls) \in Nat
  BY QueueSizes
<1>9. /\ Len(getters') = Len(getters) - 1 /\ Len(or_null_queue') = Len(or_null_queue) - 1
      /\ num_threads = 1 /\ UNCHANGED putters
  BY NullFacts
<1>10. /\ get_count' = get_count /\ put_count' = put_count
  BY DEF ResumeOrNull, counts
<1>11. d'[c].removed = d[c].removed + Len(getters) - Len(getters') /\ d'[c].pc = "or_nulls"
  BY <1>2, <1>6 DEF ResumeOrNull, DRec
<1>12. d'[c].removed = d[c].removed + 1
  BY <1>5, <1>8, <1>9, <1>11
<1>13. G = Len(getters)
  BY <1>3, <1>9, AllCounted
<1>14. Len(getters') \in Nat /\ Len(or_null_queue') \in Nat
  BY <1>1, QueuesTyped DEF Base
<1>15. 1 <= G /\ 0 <= P /\ Len(or_null_queue') <= Len(or_null_queue)
       /\ Len(putters') = Len(putters) - 0
  BY <1>5, <1>8, <1>9, <1>13, <1>14
<1>16. d'[c].removed + Len(or_null_queue') = d[c].removed + Len(or_null_queue)
  BY <1>5, <1>8, <1>9, <1>12
<1>17. Local(c)'
  BY <1>2, <1>5, <1>11, <1>16 DEF Local, GetClaim, PutClaim
<1>18. /\ 0 - Debt(d[c].pc, GetClaim) + d[c].removed
             = d'[c].removed - 1 - Debt(d'[c].pc, GetClaim)
       /\ 0 - Debt(d[c].pc, PutClaim) = 0 - 0 - Debt(d'[c].pc, PutClaim)
  BY <1>2, <1>5, <1>11, <1>12 DEF Debt, GetClaim, PutClaim
<1>19. get_count' = Usize(get_count + 0) /\ put_count' = Usize(put_count + 0)
  BY <1>7, <1>10
<1>20. PICK z \in Nat, o \in Nat : z = 0 /\ o = 1
  OBVIOUS
<1>21. /\ get_count' = Usize(get_count + z) /\ put_count' = Usize(put_count + z)
       /\ Len(getters') = Len(getters) - o /\ Len(putters') = Len(putters) - z
       /\ z - Debt(d[c].pc, GetClaim) + d[c].removed
            = d'[c].removed - o - Debt(d'[c].pc, GetClaim)
       /\ z - Debt(d[c].pc, PutClaim) = 0 - z - Debt(d'[c].pc, PutClaim)
       /\ o <= G /\ z <= P /\ z \in Int
  BY <1>9, <1>15, <1>18, <1>19, <1>20
<1>22. QED
  BY <1>1, <1>3, <1>15, <1>17, <1>21, NumbersInside

\* The steps of the threads outside dispatch().
LEMMA OutsideNumbers ==
  ASSUME Base, Base', Numbers, NEW c \in Calls,
         Begin(c) \/ Count(c) \/ QueueOrNull(c) \/ SetNeed(c) \/ Recheck(c)
           \/ (Lock(c) /\ dispatch_lock # 0)
  PROVE  Numbers'
<1> USE DEF At, GoTo
<1>0. d \in [Calls -> DRec] /\ d[c] \in DRec
  BY DEF Base, Typed
<1>1. /\ d[c].pc \in {"none", "count", "or_null", "need", "lock", "recheck"}
      /\ d'[c].pc \in {"none", "count", "or_null", "need", "lock", "recheck"}
      /\ d'[c].removed \in {0, d[c].removed}
      /\ UNCHANGED <<buffer, live>> /\ live
  <2>1. CASE Begin(c)
    <3>1. d[c].pc = "none" /\ live /\ UNCHANGED <<buffer, live>>
      BY <2>1, BeginFacts
    <3>2. d'[c].pc = "count" /\ d'[c].removed = d[c].removed
      BY <1>0, <2>1 DEF Begin, DRec
    <3>3. QED
      BY <3>1, <3>2
  <2>2. CASE BlockStep(c)
    <3>1. live /\ live' = live
      BY <2>2, BlockFacts
    <3>2. UNCHANGED buffer
      <4>1. CASE Begin(c)
        BY <4>1 DEF Begin
      <4>2. CASE Count(c) \/ QueueOrNull(c) \/ SetNeed(c) \/ Recheck(c) \/ Lock(c)
        BY <4>2, Zenon DEF Count, QueueOrNull, SetNeed, Recheck, Lock
      <4>3. QED
        BY <4>1, <4>2
    <3>3. CASE (Lock(c) /\ dispatch_lock # 0) \/ Recheck(c)
      BY <1>0, <3>1, <3>2, <3>3 DEF Lock, Recheck, Out, DRec
    <3>4. CASE Count(c) \/ QueueOrNull(c) \/ SetNeed(c)
      BY <1>0, <3>1, <3>2, <3>4 DEF Count, QueueOrNull, SetNeed, DRec
    <3>5. CASE Begin(c)
      BY <2>1, <3>5
    <3>6. QED
      BY <3>3, <3>4, <3>5
  <2>3. QED
    BY <2>1, <2>2 DEF BlockStep, Dispatch
<1>2. ~Inside(c) /\ ~Inside(c)' /\ Local(c)
  BY <1>1 DEF Inside, Numbers
<1>3. d[c].removed = 0 /\ d'[c].removed = 0
  BY <1>1, <1>2 DEF Local
<1>4. /\ buffer_len' = buffer_len /\ live
      /\ \A e \in Calls : e # c => d'[e] = d[e]
      /\ get_count = Usize(get_count + 0) /\ put_count = Usize(put_count + 0)
  BY <1>1, InsideStep, UsizeSame DEF Base, buffer, BlockStep, Dispatch
<1>5. /\ Len(or_null_queue') \in Nat /\ Len(or_null_queue') <= Cardinality(OrNulls)
      /\ Len(or_null_queue) \in Nat /\ Cardinality(OrNulls) \in Nat
  <2>1. or_null_queue' \in Seq(OrNulls) /\ Distinct(or_null_queue')
    BY DEF Base, Typed, OrNullsQueued
  <2>2. Len(or_null_queue') <= Cardinality(OrNulls)
    BY <2>1, QueueLength, ChannelAssumption
  <2>3. QED
    BY <2>1, <2>2, QueueSizes
<1>6. \A e \in Calls : d[e].removed + Len(or_null_queue') <= Cardinality(OrNulls)
  <2>1. CASE or_null_queue' = or_null_queue
    BY <1>1, <2>1 DEF Numbers, Local
  <2>2. CASE QueueOrNull(c)
    <3>1. num_threads = 1
      BY <2>2, <1>0, EarlySteps DEF QueueOrNull, Base, OrNullsQueued, BlockStep, Typed
    <3>2. c \in Busy
      BY <2>2 DEF QueueOrNull, Busy
    <3>3. ASSUME NEW e \in Calls PROVE d[e].removed = 0
      <4>1. CASE e = c
        BY <1>3, <4>1
      <4>2. CASE e # c
        <5>1. d[e].pc = "none"
          BY <3>1, <3>2, <4>2 DEF Base, Placed, Busy
        <5>2. QED
          BY <1>1, <5>1 DEF Numbers, Local
      <4>3. QED
        BY <4>1, <4>2
    <3>4. QED
      BY <1>5, <3>3
  <2>3. QED
    BY <2>1, <2>2 DEF Begin, Count, SetNeed, Recheck, Lock, queues
<1>7. CASE Begin(c)
  <2>1. G' = G + 0 /\ P' = P + 0
    BY <1>7, BeginNumbers, QueueSizes
  <2>2. get_count' = Usize(get_count + 0) /\ put_count' = Usize(put_count + 0)
    BY <1>4, <1>7 DEF Begin, counts
  <2>3. QED
    BY <1>2, <1>3, <1>4, <1>5, <1>6, <2>1, <2>2, NumbersOutside
<1>8. CASE Count(c)
  <2>1. CASE c \in Puts
    <3>1. G' = G + 0 /\ P' = P + 1
      BY <1>8, <2>1, CountNumbers, QueueSizes
    <3>2. get_count' = Usize(get_count + 0) /\ put_count' = Usize(put_count + 1)
      BY <1>4, <1>8, <2>1 DEF Count
    <3>3. QED
      BY <1>2, <1>3, <1>4, <1>5, <1>6, <3>1, <3>2, NumbersOutside
  <2>2. CASE c \notin Puts
    <3>1. G' = G + 1 /\ P' = P + 0
      BY <1>8, <2>2, CountNumbers, QueueSizes
    <3>2. get_count' = Usize(get_count + 1) /\ put_count' = Usize(put_count + 0)
      BY <1>4, <1>8, <2>2 DEF Count
    <3>3. QED
      BY <1>2, <1>3, <1>4, <1>5, <1>6, <3>1, <3>2, NumbersOutside
  <2>3. QED
    BY <2>1, <2>2
<1>9. CASE QueueOrNull(c) \/ SetNeed(c) \/ Recheck(c) \/ Lock(c)
  <2>1. BlockStep(c) /\ ~Count(c)
    BY <1>9 DEF BlockStep, Dispatch, QueueOrNull, SetNeed, Recheck, Lock, Count
  <2>2. getters' = getters /\ putters' = putters /\ get_count' = get_count /\ put_count' = put_count
    BY <1>9 DEF QueueOrNull, SetNeed, Recheck, Lock, queues, counts
  <2>3. G' = G + Len(getters') - Len(getters) /\ P' = P + Len(putters') - Len(putters)
    BY <2>1, MoveNumbers
  <2>4. G' = G + 0 /\ P' = P + 0
    BY <2>2, <2>3, QueueSizes
  <2>5. get_count' = Usize(get_count + 0) /\ put_count' = Usize(put_count + 0)
    BY <1>4, <2>2
  <2>6. QED
    BY <1>2, <1>3, <1>4, <1>5, <1>6, <2>4, <2>5, NumbersOutside
<1>10. QED
  BY <1>7, <1>8, <1>9

\* The thread that gets inside has claimed nothing.
LEMMA EnterNumbers ==
  ASSUME Base, Numbers, NEW c \in Calls, Lock(c), dispatch_lock = 0
  PROVE  Numbers'
<1>1. BlockStep(c) /\ ~Count(c)
  BY DEF BlockStep, Dispatch, Lock, Count, At
<1>2. live
  BY <1>1, BlockFacts
<1>3. \A e \in Calls : ~Inside(e)
  BY DEF Base, OneDispatcher
<1>4. /\ d'[c].pc = "clear" /\ d'[c].removed = d[c].removed /\ d[c].pc = "lock"
      /\ d[c] \in DRec
  BY DEF Lock, At, Base, Typed, DRec
<1>5. d'[c] \in DRec /\ \A e \in Calls : e # c => d'[e] = d[e]
  BY <1>1, ThreadStep, InsideStep DEF Base
<1>6. /\ getters' = getters /\ putters' = putters /\ or_null_queue' = or_null_queue
      /\ get_count' = get_count /\ put_count' = put_count
  BY DEF Lock, queues, counts
<1>7. /\ Len(getters) \in Nat /\ Len(putters) \in Nat /\ Len(or_null_queue) \in Nat
      /\ G \in Int /\ P \in Int
  BY QueueSizes
<1>8. G' = G /\ P' = P
  <2>1. G' = G + Len(getters') - Len(getters) /\ P' = P + Len(putters') - Len(putters)
    BY <1>1, MoveNumbers
  <2>2. QED
    BY <1>6, <1>7, <2>1
<1>9. G >= 0 /\ P >= 0 /\ get_count = Usize(G) /\ put_count = Usize(P) /\ Local(c)
  BY <1>2, <1>3 DEF Numbers, Counted
<1>10. d'[c].removed = 0
  BY <1>4, <1>9 DEF Local
<1>11. G' - Debt(d'[c].pc, GetClaim) + d'[c].removed = G /\ P' - Debt(d'[c].pc, PutClaim) = P
  BY <1>4, <1>7, <1>8, <1>10 DEF Debt, GetClaim, PutClaim
<1>12. Local(c)'
  BY <1>4, <1>6, <1>9 DEF Local, GetClaim, PutClaim
<1>13. /\ get_count' = Usize(G' - Debt(d'[c].pc, GetClaim) + d'[c].removed)
       /\ put_count' = Usize(P' - Debt(d'[c].pc, PutClaim))
  BY <1>6, <1>9, <1>11
<1>14. /\ Len(or_null_queue') \in Nat /\ Len(or_null_queue') <= Len(or_null_queue)
       /\ G' \in Int /\ P' \in Int /\ G' >= 0 /\ P' >= 0
  BY <1>6, <1>7, <1>8, <1>9
<1>15. \A e \in Calls : e # c => d'[e] = d[e] /\ ~Inside(e)
  BY <1>3, <1>5
<1>16. QED
  BY <1>2, <1>5, <1>12, <1>13, <1>14, <1>15, NumbersFrom

\* A new channel counts nothing.
LEMMA NumbersInit == Init => Numbers
<1> SUFFICES ASSUME Init PROVE Counted /\ \A c \in Calls : Local(c)
  BY DEF Numbers
<1>1. Base
  BY BaseInit
<1>2. d = [c \in Calls |-> Out] /\ getters = <<>> /\ putters = <<>> /\ or_null_queue = <<>>
      /\ get_count = 0 /\ put_count = 0
  BY DEF Init
<1>3. \A c \in Calls : d[c].pc = "none" /\ d[c].removed = 0 /\ ~Inside(c)
  BY <1>2 DEF Out, Inside
<1>4. Uncounted(Getters) = 0 /\ Uncounted(Puts) = 0
  <2>1. {e \in Getters : d[e].pc = "count"} = {} /\ {e \in Puts : d[e].pc = "count"} = {}
    BY <1>3, CallSets
  <2>2. QED
    BY <2>1, FS_EmptySet DEF Uncounted
<1>5. Len(getters) = 0 /\ Len(putters) = 0 /\ Len(or_null_queue) = 0
  BY <1>2
<1>6. G = 0 /\ P = 0
  BY <1>4, <1>5 DEF G, P
<1>7. Usize(0) = 0
  <2>1. 0 \in 0..(UsizeRange - 1)
    BY RangeType
  <2>2. QED
    BY <2>1, UsizeSmall
<1>8. Counted
  BY <1>2, <1>3, <1>6, <1>7 DEF Counted
<1>9. \A c \in Calls : Local(c)
  <2>1. Cardinality(OrNulls) \in Nat
    BY <1>1, QueueSizes
  <2>2. QED
    BY <1>3, <1>5, <2>1 DEF Local, GetClaim, PutClaim
<1>10. QED
  BY <1>8, <1>9

\* Once the channel is destroyed nobody is in the middle of anything.
Returned == ~live => \A c \in Calls : d[c].removed = 0

\* destroy() is called when nobody is inside.
LEMMA ReturnedStep == Base /\ Numbers /\ Returned /\ [Next]_vars => Returned'
<1> SUFFICES ASSUME Base, Numbers, Returned, [Next]_vars PROVE Returned'
  OBVIOUS
<1>1. CASE UNCHANGED vars
  BY <1>1 DEF Returned, vars, env
<1>2. ASSUME NEW c \in Calls, Begin(c) \/ BlockStep(c) PROVE Returned'
  <2>1. live' = live /\ live
    BY <1>2, BeginFacts, BlockFacts
  <2>2. QED
    BY <2>1 DEF Returned
<1>3. CASE Destroy
  <2>1. live /\ d' = d /\ \A c \in Calls : d[c].pc = "none"
    BY <1>3 DEF Destroy, Quiet
  <2>2. \A c \in Calls : d[c].removed = 0
    BY <2>1 DEF Numbers, Local
  <2>3. QED
    BY <2>1, <2>2 DEF Returned
<1>4. QED
  BY <1>1, <1>2, <1>3 DEF Next

\* Every step keeps the counts exact.
LEMMA NumbersStep ==
  OrNullThreadCounts \subseteq {1} /\ Base /\ Numbers /\ [Next]_vars => Numbers'
<1> SUFFICES ASSUME OrNullThreadCounts \subseteq {1}, Base, Numbers, [Next]_vars
             PROVE  Numbers'
  OBVIOUS
<1>0. Base'
  BY BaseStep
<1>1. CASE UNCHANGED vars
  <2>1. UNCHANGED <<d, getters, putters, or_null_queue, get_count, put_count, buffer_len, live>>
    BY <1>1 DEF vars, queues, counts, buffer, env
  <2>2. G' = G /\ P' = P
    BY <2>1 DEF G, P, Uncounted
  <2>3. \A c \in Calls : Inside(c)' <=> Inside(c)
    BY <2>1 DEF Inside
  <2>4. Counted => Counted'
    BY <2>1, <2>2, <2>3 DEF Counted
  <2>5. \A c \in Calls : Local(c) => Local(c)'
    BY <2>1, <2>2 DEF Local
  <2>6. QED
    BY <2>1, <2>4, <2>5 DEF Numbers
<1>2. ASSUME NEW c \in Calls, Begin(c) \/ BlockStep(c) PROVE Numbers'
  <2>1. CASE \/ Begin(c) \/ Count(c) \/ QueueOrNull(c) \/ SetNeed(c) \/ Recheck(c)
             \/ (Lock(c) /\ dispatch_lock # 0)
    BY <1>0, <2>1, OutsideNumbers
  <2>2. CASE Lock(c) /\ dispatch_lock = 0
    BY <2>2, EnterNumbers
  <2>3. CASE Passing(c)
    BY <2>3, PassingNumbers
  <2>4. CASE Claim(c) \/ UnclaimGet(c) \/ UnclaimPut(c)
    BY <2>4, ClaimNumbers, UnclaimNumbers
  <2>5. CASE GiveBuffered(c) \/ HandOver(c) \/ Fill(c)
    BY <2>5, GiveNumbers, FillNumbers
  <2>6. CASE ResumeOrNull(c) \/ OrNullsDone(c)
    BY <2>6, ResumeNumbers, OrNullsDoneNumbers
  <2>7. QED
    BY <1>2, <2>1, <2>2, <2>3, <2>4, <2>5, <2>6 DEF BlockStep, Dispatch, Passing
<1>3. CASE Destroy
  BY <1>3 DEF Destroy, Numbers
<1>4. QED
  BY <1>1, <1>2, <1>3 DEF Next

\* The claims of all threads are those of the one inside.
LEMMA ClaimedDebt ==
  ASSUME Base, NEW pcs,
         pcs \cap {"none", "count", "or_null", "need", "lock", "recheck"} = {}
  PROVE  /\ \A c \in Calls : Inside(c) => Claimed(pcs) = Debt(d[c].pc, pcs)
         /\ (\A c \in Calls : ~Inside(c)) => Claimed(pcs) = 0
<1> DEFINE S == {c \in Calls : d[c].pc \in pcs}
<1>1. \A c \in S : Inside(c)
  BY DEF Inside
<1>2. \A c, e \in Calls : Inside(c) /\ Inside(e) => c = e
  BY DEF Base, OneDispatcher
<1>3. ASSUME NEW c \in Calls, Inside(c) PROVE Claimed(pcs) = Debt(d[c].pc, pcs)
  <2>1. CASE d[c].pc \in pcs
    <3>1. S = {c}
      BY <1>1, <1>2, <1>3, <2>1
    <3>2. QED
      BY <2>1, <3>1, FS_Singleton DEF Claimed, Debt
  <2>2. CASE d[c].pc \notin pcs
    <3>1. S = {}
      BY <1>1, <1>2, <1>3, <2>2
    <3>2. QED
      BY <2>2, <3>1, FS_EmptySet DEF Claimed, Debt
  <2>3. QED
    BY <2>1, <2>2
<1>4. ASSUME \A c \in Calls : ~Inside(c) PROVE Claimed(pcs) = 0
  <2>1. S = {}
    BY <1>1, <1>4
  <2>2. QED
    BY <2>1, FS_EmptySet DEF Claimed
<1>5. QED
  BY <1>3, <1>4

\* So are the getters that have not been subtracted yet.
LEMMA RemovedOne ==
  ASSUME Base, Numbers, live
  PROVE  /\ \A c \in Calls : Inside(c) => Removed = d[c].removed
         /\ (\A c \in Calls : ~Inside(c)) => Removed = 0
<1> DEFINE N == Cardinality(OrNulls)
           S == {x \in Calls \X (1..N) : x[2] <= d[x[1]].removed}
<1>0. N \in Nat /\ \A c \in Calls : d[c].removed \in Nat
  BY QueueSizes DEF Base, Typed, DRec
<1>1. \A c \in Calls : ~Inside(c) => d[c].removed = 0
  BY DEF Numbers, Local, Inside
<1>2. \A c, e \in Calls : Inside(c) /\ Inside(e) => c = e
  BY DEF Base, OneDispatcher
<1>3. ASSUME NEW c \in Calls, \A e \in Calls : e # c => ~Inside(e)
      PROVE  Removed = d[c].removed
  <2>1. PICK r \in Nat : r = d[c].removed
    BY <1>0
  <2>2. r <= N
    <3>1. Local(c) /\ Len(or_null_queue) \in Nat
      BY QueueSizes DEF Numbers
    <3>2. r + Len(or_null_queue) <= N
      BY <2>1, <3>1 DEF Local
    <3>3. QED
      BY <1>0, <3>1, <3>2
  <2> HIDE DEF N
  <2>3. ASSUME NEW x \in S PROVE x \in {c} \X (1..r)
    <3>1. PICK e \in Calls, i \in 1..N : x = <<e, i>> /\ i <= d[e].removed
      OBVIOUS
    <3>2. e = c
      BY <1>0, <1>1, <1>3, <3>1
    <3>3. QED
      BY <1>0, <2>1, <3>1, <3>2
  <2>4. ASSUME NEW x \in {c} \X (1..r) PROVE x \in S
    <3>1. PICK i \in 1..r : x = <<c, i>>
      OBVIOUS
    <3>2. i \in 1..N /\ i <= d[c].removed
      BY <1>0, <2>1, <2>2
    <3>3. QED
      BY <3>1, <3>2
  <2>5. S = {c} \X (1..r)
    BY <2>3, <2>4
  <2>6. IsFiniteSet(1..r) /\ Cardinality(1..r) = r
    BY FS_Interval
  <2>7. IsFiniteSet({c}) /\ Cardinality({c}) = 1
    BY FS_Singleton
  <2>8. Cardinality({c} \X (1..r)) = 1 * r
    BY <2>6, <2>7, FS_Product
  <2>9. Removed = Cardinality(S)
    BY DEF Removed, N
  <2>10. 1 * r = r
    OBVIOUS
  <2> HIDE DEF S
  <2>11. QED
    BY <2>1, <2>5, <2>8, <2>9, <2>10
<1>4. ASSUME NEW c \in Calls, Inside(c) PROVE Removed = d[c].removed
  BY <1>2, <1>3, <1>4
<1>5. ASSUME \A c \in Calls : ~Inside(c) PROVE Removed = 0
  <2>1. CASE \E c \in Calls : TRUE
    BY <1>1, <1>3, <1>5, <2>1
  <2>2. CASE Calls = {}
    <3>1. S = {}
      BY <2>2
    <3>2. QED
      BY <3>1, FS_EmptySet DEF Removed
  <2>3. QED
    BY <2>1, <2>2
<1>6. QED
  BY <1>4, <1>5

\* The type invariant of the channel follows,
LEMMA TypeHolds ==
  ASSUME Base, Numbers, Returned
  PROVE  TypeOK
<1>1. PICK n \in Capacities : /\ buffer_nodes \in [0..(n - 1) -> Puts \cup {None}]
                              /\ buffer_index \in 0..n
  BY DEF Base, Typed
<1>2. n \in Nat /\ DOMAIN buffer_nodes = 0..(n - 1)
  BY <1>1, ChannelAssumption
<1>3. Cardinality(0..(n - 1)) = n
  BY <1>2, FS_Interval
<1>4. capacity = n
  BY <1>2, <1>3 DEF capacity
<1>5. \A i \in DOMAIN buffer_nodes : buffer_nodes[i] \in Puts \cup {None}
  BY <1>1
<1>6. ASSUME NEW c \in Calls PROVE d[c].removed \in 0..Cardinality(OrNulls)
  <2>1. d[c].removed \in Nat /\ Cardinality(OrNulls) \in Nat /\ Len(or_null_queue) \in Nat
    BY QueueSizes DEF Base, Typed, DRec
  <2>2. CASE live
    <3>1. d[c].removed + Len(or_null_queue) <= Cardinality(OrNulls)
      BY <2>2 DEF Numbers, Local
    <3>2. QED
      BY <2>1, <3>1
  <2>3. CASE ~live
    BY <2>1, <2>3 DEF Returned
  <2>4. QED
    BY <2>2, <2>3
<1>7. d \in [Calls -> [pc : PcStates, gets : 0..(UsizeRange - 1),
                       puts : 0..(UsizeRange - 1), removed : 0..Cardinality(OrNulls)]]
  <2>1. d \in [Calls -> DRec]
    BY DEF Base, Typed
  <2>2. \A c \in Calls : d[c] \in [pc : PcStates, gets : 0..(UsizeRange - 1),
                       puts : 0..(UsizeRange - 1), removed : 0..Cardinality(OrNulls)]
    BY <1>6, <2>1 DEF DRec
  <2>3. QED
    BY <2>1, <2>2
<1>8. Typed
  BY DEF Base
<1>9. QED
  BY <1>1, <1>4, <1>5, <1>7, <1>8 DEF TypeOK, Typed

\* and so do the counts.
LEMMA CountsFollow ==
  ASSUME Base, Numbers, Returned
  PROVE  CountsExact
<1>1. TypeOK
  BY TypeHolds
<1>2. /\ Len(getters) \in Nat /\ Len(putters) \in Nat /\ G \in Int /\ P \in Int
      /\ G <= Len(getters) /\ P <= Len(putters)
  BY QueueSizes
<1>3. /\ G >= 1 => getters # <<>>
      /\ P >= 1 => putters # <<>>
  <2>1. ASSUME getters = <<>> PROVE ~(G >= 1)
    <3>1. Len(getters) = 0
      BY <2>1
    <3>2. QED
      BY <1>2, <3>1
  <2>2. ASSUME putters = <<>> PROVE ~(P >= 1)
    <3>1. Len(putters) = 0
      BY <2>2
    <3>2. QED
      BY <1>2, <3>1
  <2>3. QED
    BY <2>1, <2>2
<1>4. ASSUME NEW c \in Calls
      PROVE  /\ d[c].pc = "from_buffer" /\ buffer_len # 0 /\ d[c].gets # 0 => getters # <<>>
             /\ d[c].pc = "direct" /\ d[c].gets # 0 /\ d[c].puts # 0
                  => getters # <<>> /\ putters # <<>>
             /\ d[c].pc = "fill" /\ d[c].puts # 0 => putters # <<>>
  <2>1. CASE live
    <3>1. Local(c)
      BY <2>1 DEF Numbers
    <3>2. QED
      BY <1>3, <3>1 DEF Local, GetClaim, PutClaim
  <2>2. CASE ~live
    BY <2>2 DEF Base, Placed
  <2>3. QED
    BY <2>1, <2>2
<1>5. ASSUME live
      PROVE  /\ get_count = Usize(G - Claimed(GetClaim) + Removed)
             /\ put_count = Usize(P - Claimed(PutClaim))
  <2>1. Counted
    BY <1>5 DEF Numbers
  <2>2. /\ GetClaim \cap {"none", "count", "or_null", "need", "lock", "recheck"} = {}
        /\ PutClaim \cap {"none", "count", "or_null", "need", "lock", "recheck"} = {}
    BY DEF GetClaim, PutClaim
  <2>3. CASE \A c \in Calls : ~Inside(c)
    <3>1. get_count = Usize(G) /\ put_count = Usize(P)
      BY <2>1, <2>3 DEF Counted
    <3>2. Claimed(GetClaim) = 0 /\ Claimed(PutClaim) = 0
      BY <2>2, <2>3, ClaimedDebt
    <3>3. Removed = 0
      BY <1>5, <2>3, RemovedOne
    <3>4. G - 0 + 0 = G /\ P - 0 = P
      BY <1>2
    <3>5. QED
      BY <3>1, <3>2, <3>3, <3>4
  <2>4. ASSUME NEW c \in Calls, Inside(c)
        PROVE  /\ get_count = Usize(G - Claimed(GetClaim) + Removed)
               /\ put_count = Usize(P - Claimed(PutClaim))
    <3>1. /\ get_count = Usize(G - Debt(d[c].pc, GetClaim) + d[c].removed)
          /\ put_count = Usize(P - Debt(d[c].pc, PutClaim))
      BY <2>1, <2>4 DEF Counted
    <3>2. Claimed(GetClaim) = Debt(d[c].pc, GetClaim) /\ Claimed(PutClaim) = Debt(d[c].pc, PutClaim)
      BY <2>2, <2>4, ClaimedDebt
    <3>3. Removed = d[c].removed
      BY <1>5, <2>4, RemovedOne
    <3>4. QED
      BY <3>1, <3>2, <3>3
  <2>5. QED
    BY <2>3, <2>4
<1>6. QED
  BY <1>1, <1>4, <1>5 DEF CountsExact, G, P, GetClaim, PutClaim

\* The counts are exact, and the values dispatch() unwraps are there, for any
\* number of calls, threads and places in the buffer, if getOrNull() is called
\* only on a loop with one thread, as NullMeansEmpty asks too.
THEOREM CountsCorrect ==
  OrNullThreadCounts \subseteq {1} => (Spec => []CountsExact)
<1> SUFFICES ASSUME OrNullThreadCounts \subseteq {1} PROVE Spec => []CountsExact
  OBVIOUS
<1>1. Init => Base /\ Numbers /\ Returned
  BY BaseInit, NumbersInit DEF Init, Returned
<1>2. Base /\ Numbers /\ Returned /\ [Next]_vars => Base' /\ Numbers' /\ Returned'
  BY BaseStep, NumbersStep, ReturnedStep
<1>3. Base /\ Numbers /\ Returned => CountsExact
  BY CountsFollow
<1>4. QED
  BY <1>1, <1>2, <1>3, PTL DEF Spec
-----------------------------------------------------------------------------
(* The values: what each step does to the results and the buffer. *)

\* A step that gives nobody a value and puts none into the buffer.
Calm ==
  /\ result' = result /\ Window' = Window /\ \A i \in Window : buffer_nodes'[i] = buffer_nodes[i]
  /\ \A e \in Calls : coro[e] = "resumed" => coro'[e] = "resumed"
  /\ \A e \in Puts \cup Gets : coro'[e] = "resumed" => coro[e] = "resumed"

\* Such are the steps that change no coroutine,
LEMMA CalmUnchanged ==
  ASSUME UNCHANGED <<buffer, result, coro>>
  PROVE  Calm
<1>1. UNCHANGED <<buffer_nodes, buffer_index, buffer_len, result, coro>>
  BY DEF buffer
<1>2. Window' = Window
  BY <1>1 DEF Window
<1>3. QED
  BY <1>1, <1>2 DEF Calm

\* the start of a call,
LEMMA CalmBegin ==
  ASSUME Base, NEW c \in Calls, Begin(c)
  PROVE  Calm
<1>1. /\ coro[c] = "idle" /\ coro' = [coro EXCEPT ![c] = "waiting"]
      /\ UNCHANGED <<result, buffer_nodes, buffer_index, buffer_len>>
      /\ coro \in [Calls -> {"idle", "waiting", "resumed", "twice", "cancelled"}]
  BY BeginFacts DEF Base, Typed, buffer
<1>2. Window' = Window
  BY <1>1 DEF Window
<1>3. QED
  BY <1>1, <1>2, CallSets DEF Calm

\* destroy()
LEMMA CalmDestroy ==
  ASSUME Base, Destroy
  PROVE  Calm
<1>1. /\ coro' = [c \in Calls |-> IF coro[c] = "waiting" THEN "cancelled" ELSE coro[c]]
      /\ UNCHANGED <<result, buffer_nodes, buffer_index, buffer_len>>
  BY DEF Destroy, buffer
<1>2. Window' = Window
  BY <1>1 DEF Window
<1>3. QED
  BY <1>1, <1>2, CallSets DEF Calm

\* and returning null.
LEMMA CalmResume ==
  ASSUME Base, NEW c \in Calls, ResumeOrNull(c)
  PROVE  Calm
<1>1. /\ Head(or_null_queue) \in OrNulls
      /\ \A e \in Calls : coro'[e] = IF e = Head(or_null_queue) THEN "resumed" ELSE coro[e]
      /\ UNCHANGED <<result, buffer_nodes, buffer_index, buffer_len>>
  BY NullFacts DEF buffer
<1>2. Window' = Window
  BY <1>1 DEF Window
<1>3. Puts \cap OrNulls = {} /\ Gets \cap OrNulls = {} /\ Puts \cup Gets \subseteq Calls
  BY CallSets
<1>4. QED
  BY <1>1, <1>2, <1>3 DEF Calm

\* The value leaves the buffer for the first getter.
LEMMA BufferedFacts ==
  ASSUME Base, NEW c \in Calls, GiveBuffered(c)
  PROVE  LET w == buffer_index - buffer_len IN
         /\ w \in Window /\ Window' = Window \ {w} /\ \A i \in Window : i # w => w < i
         /\ buffer_nodes' = buffer_nodes
         /\ result' = [result EXCEPT ![Head(getters)] = buffer_nodes[w]]
         /\ \A e \in Calls : coro'[e] = IF e = Head(getters) THEN "resumed" ELSE coro[e]
<1>1. /\ buffer_len # 0 /\ buffer_len' = buffer_len - 1
      /\ buffer_index' = buffer_index /\ buffer_nodes' = buffer_nodes
      /\ result' = [result EXCEPT ![Head(getters)] = buffer_nodes[buffer_index - buffer_len]]
      /\ Ticked({Head(getters)})
  BY DEF GiveBuffered, GiveNext
<1>2. Head(getters) \in Calls /\ coro[Head(getters)] = "waiting"
  BY GiveFacts, CallSets
<1>3. \A e \in Calls : coro'[e] = IF e \in {Head(getters)} THEN "resumed" ELSE coro[e]
  BY <1>1, <1>2, TickedOnce DEF Base
<1>4. PICK b \in Nat, l \in Nat : b = buffer_index /\ l = buffer_len /\ l <= b
  <2>1. \E n \in Capacities : buffer_index \in 0..n
    BY DEF Base, Typed
  <2>2. buffer_index \in Nat
    BY <2>1, ChannelAssumption
  <2>3. QED
    BY <2>2 DEF Base, Typed
<1>5. Window = (b - l)..(b - 1) /\ Window' = (b - (l - 1))..(b - 1) /\ l >= 1
  BY <1>1, <1>4 DEF Window
<1>6. /\ b - l \in (b - l)..(b - 1)
      /\ (b - (l - 1))..(b - 1) = ((b - l)..(b - 1)) \ {b - l}
      /\ \A i \in (b - l)..(b - 1) : i # b - l => b - l < i
  BY <1>5
<1>7. QED
  BY <1>1, <1>3, <1>4, <1>5, <1>6

\* The value goes from the first put to the first getter.
LEMMA HandOverFacts ==
  ASSUME Base, NEW c \in Calls, HandOver(c)
  PROVE  /\ Window' = Window /\ buffer_nodes' = buffer_nodes
         /\ result' = [result EXCEPT ![Head(getters)] = Head(putters)]
         /\ \A e \in Calls : coro'[e] = IF e \in {Head(getters), Head(putters)}
                                         THEN "resumed" ELSE coro[e]
<1>1. /\ UNCHANGED <<buffer_nodes, buffer_index, buffer_len>>
      /\ result' = [result EXCEPT ![Head(getters)] = Head(putters)]
      /\ Ticked({Head(getters), Head(putters)})
  BY DEF HandOver, GiveNext, buffer
<1>2. \A e \in {Head(getters), Head(putters)} : e \in Calls /\ coro[e] = "waiting"
  BY GiveFacts, TakeFacts, CallSets
<1>3. QED
  BY <1>1, <1>2, TickedOnce DEF Base, Window

\* The value goes from the first put to the end of the buffer.
LEMMA FillFacts ==
  ASSUME Base, NEW c \in Calls, Fill(c), buffer_index \in DOMAIN buffer_nodes
  PROVE  /\ buffer_index \notin Window /\ Window' = Window \cup {buffer_index}
         /\ \A i \in Window : i < buffer_index /\ buffer_nodes'[i] = buffer_nodes[i]
         /\ \A i \in Window : i <= buffer_index
         /\ buffer_nodes'[buffer_index] = Head(putters)
         /\ result' = result
         /\ \A e \in Calls : coro'[e] = IF e = Head(putters) THEN "resumed" ELSE coro[e]
<1>1. /\ buffer_nodes' = [buffer_nodes EXCEPT ![buffer_index] = Head(putters)]
      /\ buffer_index' = buffer_index + 1 /\ buffer_len' = buffer_len + 1
      /\ result' = result /\ Ticked({Head(putters)})
  BY DEF Fill
<1>2. Head(putters) \in Calls /\ coro[Head(putters)] = "waiting"
  BY TakeFacts, CallSets
<1>3. \A e \in Calls : coro'[e] = IF e \in {Head(putters)} THEN "resumed" ELSE coro[e]
  BY <1>1, <1>2, TickedOnce DEF Base
<1>4. PICK b \in Nat, l \in Nat : b = buffer_index /\ l = buffer_len /\ l <= b
  <2>1. \E n \in Capacities : buffer_index \in 0..n
    BY DEF Base, Typed
  <2>2. buffer_index \in Nat
    BY <2>1, ChannelAssumption
  <2>3. QED
    BY <2>2 DEF Base, Typed
<1>5. Window = (b - l)..(b - 1) /\ Window' = ((b + 1) - (l + 1))..((b + 1) - 1)
  BY <1>1, <1>4 DEF Window
<1>6. /\ b \notin (b - l)..(b - 1)
      /\ ((b + 1) - (l + 1))..((b + 1) - 1) = ((b - l)..(b - 1)) \cup {b}
      /\ \A i \in (b - l)..(b - 1) : i < b /\ i <= b /\ i # b
  BY <1>4
<1>7. \E S, T : buffer_nodes \in [S -> T]
  BY DEF Base, Typed
<1>8. \A i \in Window : buffer_nodes'[i] = buffer_nodes[i]
  BY <1>1, <1>4, <1>5, <1>6, <1>7
<1>9. buffer_nodes'[buffer_index] = Head(putters)
  BY <1>1, <1>7
<1>10. QED
  BY <1>1, <1>3, <1>4, <1>5, <1>6, <1>8, <1>9

\* A new channel holds no value.
LEMMA GivenInit == Init => Given
<1> SUFFICES ASSUME Init PROVE Given
  OBVIOUS
<1>1. /\ \A g \in Getters : result[g] = None
      /\ \A e \in Calls : coro[e] = "idle"
  BY DEF Init
<1>2. Window = {}
  BY DEF Init, Window
<1>3. QED
  BY <1>1, <1>2, CallSets DEF Given

\* The values that a step leaves where they are.
LEMMA CalmGiven ==
  ASSUME Base, Given, Calm
  PROVE  Given'
<1>1. /\ result' = result /\ Window' = Window
      /\ \A i \in Window : buffer_nodes'[i] = buffer_nodes[i]
      /\ \A e \in Calls : coro[e] = "resumed" => coro'[e] = "resumed"
      /\ \A e \in Puts \cup Gets : coro'[e] = "resumed" => coro[e] = "resumed"
  BY DEF Calm
<1>2. result \in [Getters -> Puts \cup {None}]
  BY DEF Base, Typed
<1>3. ASSUME NEW g \in Getters, result'[g] # None
      PROVE  /\ coro'[g] = "resumed" /\ coro'[result'[g]] = "resumed"
             /\ \A i \in Window' : buffer_nodes'[i] # result'[g]
             /\ \A h \in Getters : result'[h] = result'[g] => h = g
  BY <1>1, <1>2, <1>3, CallSets DEF Given
<1>4. \A g \in Gets : coro'[g] = "resumed" => result'[g] # None
  BY <1>1 DEF Given
<1>5. \A i \in Window' : /\ buffer_nodes'[i] \in Puts /\ coro'[buffer_nodes'[i]] = "resumed"
                         /\ \A j \in Window' : buffer_nodes'[i] = buffer_nodes'[j] => i = j
  BY <1>1, CallSets DEF Given
<1>6. ASSUME NEW p \in Puts, coro'[p] = "resumed"
      PROVE  (\E g \in Getters : result'[g] = p) \/ \E i \in Window' : buffer_nodes'[i] = p
  <2>1. (\E g \in Getters : result[g] = p) \/ \E i \in Window : buffer_nodes[i] = p
    BY <1>1, <1>6 DEF Given
  <2>2. QED
    BY <1>1, <2>1
<1>7. QED
  BY <1>3, <1>4, <1>5, <1>6 DEF Given

\* A value taken from the buffer is with one getter and no longer there.
LEMMA BufferedGiven ==
  ASSUME Base, Given, NEW c \in Calls, GiveBuffered(c)
  PROVE  Given'
<1> DEFINE w == buffer_index - buffer_len
           h0 == Head(getters)
           v == buffer_nodes[w]
<1>1. /\ w \in Window /\ Window' = Window \ {w} /\ buffer_nodes' = buffer_nodes
      /\ result' = [result EXCEPT ![h0] = v]
      /\ \A e \in Calls : coro'[e] = IF e = h0 THEN "resumed" ELSE coro[e]
  BY BufferedFacts
<1>2. h0 \in Getters /\ coro[h0] = "waiting"
  BY GiveFacts
<1>3. result \in [Getters -> Puts \cup {None}] /\ None \notin Puts
  BY ChannelAssumption DEF Base, Typed
<1> HIDE DEF w, h0
<1>4. /\ v \in Puts /\ coro[v] = "resumed"
      /\ \A g \in Getters : result[g] # v
      /\ \A j \in Window : buffer_nodes[j] = v => j = w
  BY <1>1, <1>3 DEF Given
<1>5. result[h0] = None
  BY <1>2, <1>3 DEF Given
<1> HIDE DEF v
<1>6. /\ result'[h0] = v /\ \A g \in Getters : g # h0 => result'[g] = result[g]
      /\ v # None
  BY <1>1, <1>2, <1>3, <1>4
<1>7. \A e \in Calls : coro[e] = "resumed" => coro'[e] = "resumed"
  BY <1>1
<1>8. ASSUME NEW g \in Getters, result'[g] # None
      PROVE  /\ coro'[g] = "resumed" /\ coro'[result'[g]] = "resumed"
             /\ \A i \in Window' : buffer_nodes'[i] # result'[g]
             /\ \A h \in Getters : result'[h] = result'[g] => h = g
  <2>1. CASE g = h0
    <3>1. coro'[g] = "resumed" /\ coro'[v] = "resumed"
      BY <1>1, <1>2, <1>4, <1>7, <2>1, CallSets
    <3>2. \A i \in Window' : buffer_nodes'[i] # v
      BY <1>1, <1>4
    <3>3. QED
      BY <1>4, <1>6, <2>1, <3>1, <3>2
  <2>2. CASE g # h0
    <3>1. /\ result'[g] = result[g] /\ result[g] # None /\ result[g] \in Puts
          /\ coro[g] = "resumed" /\ coro[result[g]] = "resumed"
          /\ \A i \in Window : buffer_nodes[i] # result[g]
          /\ \A h \in Getters : result[h] = result[g] => h = g
      BY <1>3, <1>6, <1>8, <2>2 DEF Given
    <3>2. result[g] # v
      BY <1>4
    <3>3. coro'[g] = "resumed" /\ coro'[result[g]] = "resumed"
      BY <1>7, <3>1, CallSets
    <3>4. QED
      BY <1>1, <1>6, <3>1, <3>2, <3>3
  <2>3. QED
    BY <2>1, <2>2
<1>9. ASSUME NEW g \in Gets, coro'[g] = "resumed" PROVE result'[g] # None
  BY <1>1, <1>6, <1>9, CallSets DEF Given
<1>10. \A i \in Window' : /\ buffer_nodes'[i] \in Puts /\ coro'[buffer_nodes'[i]] = "resumed"
                          /\ \A j \in Window' : buffer_nodes'[i] = buffer_nodes'[j] => i = j
  BY <1>1, <1>7, CallSets DEF Given
<1>11. ASSUME NEW p \in Puts, coro'[p] = "resumed"
       PROVE  (\E g \in Getters : result'[g] = p) \/ \E i \in Window' : buffer_nodes'[i] = p
  <2>1. coro[p] = "resumed"
    BY <1>1, <1>2, <1>11, CallSets
  <2>2. CASE p = v
    BY <1>2, <1>6, <2>2
  <2>3. ASSUME NEW g \in Getters, result[g] = p
        PROVE  \E h \in Getters : result'[h] = p
    BY <1>3, <1>5, <1>6, <2>3
  <2>4. ASSUME p # v, NEW i \in Window, buffer_nodes[i] = p
        PROVE  \E j \in Window' : buffer_nodes'[j] = p
    BY <1>1, <2>4 DEF v
  <2>5. (\E g \in Getters : result[g] = p) \/ \E i \in Window : buffer_nodes[i] = p
    BY <2>1 DEF Given
  <2>6. QED
    BY <2>2, <2>3, <2>4, <2>5
<1>12. QED
  BY <1>8, <1>9, <1>10, <1>11 DEF Given

\* A value handed over is with one getter and never in the buffer.
LEMMA HandOverGiven ==
  ASSUME Base, Given, NEW c \in Calls, HandOver(c)
  PROVE  Given'
<1> DEFINE h0 == Head(getters)
           v == Head(putters)
<1>1. /\ Window' = Window /\ buffer_nodes' = buffer_nodes
      /\ result' = [result EXCEPT ![h0] = v]
      /\ \A e \in Calls : coro'[e] = IF e \in {h0, v} THEN "resumed" ELSE coro[e]
  BY HandOverFacts
<1>2. h0 \in Getters /\ coro[h0] = "waiting" /\ v \in Puts /\ coro[v] = "waiting"
  BY GiveFacts, TakeFacts
<1>3. result \in [Getters -> Puts \cup {None}] /\ None \notin Puts
  BY ChannelAssumption DEF Base, Typed
<1> HIDE DEF v, h0
<1>4. /\ \A g \in Getters : result[g] # v
      /\ \A j \in Window : buffer_nodes[j] # v
  BY <1>2, <1>3 DEF Given
<1>5. result[h0] = None
  BY <1>2, <1>3 DEF Given
<1>6. /\ result'[h0] = v /\ \A g \in Getters : g # h0 => result'[g] = result[g]
      /\ v # None
  BY <1>1, <1>2, <1>3, <1>4
<1>7. /\ \A e \in Calls : coro[e] = "resumed" => coro'[e] = "resumed"
      /\ coro'[v] = "resumed" /\ coro'[h0] = "resumed"
  BY <1>1, <1>2, CallSets
<1>8. ASSUME NEW g \in Getters, result'[g] # None
      PROVE  /\ coro'[g] = "resumed" /\ coro'[result'[g]] = "resumed"
             /\ \A i \in Window' : buffer_nodes'[i] # result'[g]
             /\ \A h \in Getters : result'[h] = result'[g] => h = g
  <2>1. CASE g = h0
    BY <1>1, <1>4, <1>6, <1>7, <2>1
  <2>2. CASE g # h0
    <3>1. /\ result'[g] = result[g] /\ result[g] # None /\ result[g] \in Puts
          /\ coro[g] = "resumed" /\ coro[result[g]] = "resumed"
          /\ \A i \in Window : buffer_nodes[i] # result[g]
          /\ \A h \in Getters : result[h] = result[g] => h = g
      BY <1>3, <1>6, <1>8, <2>2 DEF Given
    <3>2. result[g] # v
      BY <1>4
    <3>3. coro'[g] = "resumed" /\ coro'[result[g]] = "resumed"
      BY <1>7, <3>1, CallSets
    <3>4. QED
      BY <1>1, <1>6, <3>1, <3>2, <3>3
  <2>3. QED
    BY <2>1, <2>2
<1>9. ASSUME NEW g \in Gets, coro'[g] = "resumed" PROVE result'[g] # None
  <2>1. CASE g = h0
    BY <1>6, <2>1
  <2>2. CASE g # h0
    <3>1. g \in Calls /\ g \in Getters /\ g # v
      BY <1>2, CallSets
    <3>2. coro[g] = "resumed"
      BY <1>1, <1>9, <2>2, <3>1
    <3>3. QED
      BY <1>6, <2>2, <3>1, <3>2 DEF Given
  <2>3. QED
    BY <2>1, <2>2
<1>10. \A i \in Window' : /\ buffer_nodes'[i] \in Puts /\ coro'[buffer_nodes'[i]] = "resumed"
                          /\ \A j \in Window' : buffer_nodes'[i] = buffer_nodes'[j] => i = j
  BY <1>1, <1>7, CallSets DEF Given
<1>11. ASSUME NEW p \in Puts, coro'[p] = "resumed"
       PROVE  (\E g \in Getters : result'[g] = p) \/ \E i \in Window' : buffer_nodes'[i] = p
  <2>1. CASE p = v
    BY <1>2, <1>6, <2>1
  <2>2. CASE p # v
    <3>1. coro[p] = "resumed"
      BY <1>1, <1>2, <1>11, <2>2, CallSets
    <3>2. ASSUME NEW g \in Getters, result[g] = p
          PROVE  \E h \in Getters : result'[h] = p
      BY <1>3, <1>5, <1>6, <3>2
    <3>3. (\E g \in Getters : result[g] = p) \/ \E i \in Window : buffer_nodes[i] = p
      BY <3>1 DEF Given
    <3>4. QED
      BY <1>1, <3>2, <3>3
  <2>3. QED
    BY <2>1, <2>2
<1>12. QED
  BY <1>8, <1>9, <1>10, <1>11 DEF Given

\* A value put into the buffer is with nobody yet.
LEMMA FillGiven ==
  ASSUME Base, Given, NEW c \in Calls, Fill(c), buffer_index \in DOMAIN buffer_nodes
  PROVE  Given'
<1> DEFINE b == buffer_index
           v == Head(putters)
<1>1. /\ b \notin Window /\ Window' = Window \cup {b}
      /\ \A i \in Window : buffer_nodes'[i] = buffer_nodes[i]
      /\ buffer_nodes'[b] = v /\ result' = result
      /\ \A e \in Calls : coro'[e] = IF e = v THEN "resumed" ELSE coro[e]
  BY FillFacts
<1>2. v \in Puts /\ coro[v] = "waiting"
  BY TakeFacts
<1>3. result \in [Getters -> Puts \cup {None}] /\ None \notin Puts
  BY ChannelAssumption DEF Base, Typed
<1> HIDE DEF v, b
<1>4. /\ \A g \in Getters : result[g] # v
      /\ \A j \in Window : buffer_nodes[j] # v
  BY <1>2, <1>3 DEF Given
<1>7. /\ \A e \in Calls : coro[e] = "resumed" => coro'[e] = "resumed"
      /\ coro'[v] = "resumed"
  BY <1>1, <1>2, CallSets
<1>8. ASSUME NEW g \in Getters, result'[g] # None
      PROVE  /\ coro'[g] = "resumed" /\ coro'[result'[g]] = "resumed"
             /\ \A i \in Window' : buffer_nodes'[i] # result'[g]
             /\ \A h \in Getters : result'[h] = result'[g] => h = g
  <2>1. /\ result'[g] = result[g] /\ result[g] # None /\ result[g] \in Puts
        /\ coro[g] = "resumed" /\ coro[result[g]] = "resumed"
        /\ \A i \in Window : buffer_nodes[i] # result[g]
        /\ \A h \in Getters : result[h] = result[g] => h = g
    BY <1>1, <1>3, <1>8 DEF Given
  <2>2. coro'[g] = "resumed" /\ coro'[result[g]] = "resumed"
    BY <1>7, <2>1, CallSets
  <2>3. QED
    BY <1>1, <1>4, <2>1, <2>2
<1>9. \A g \in Gets : coro'[g] = "resumed" => result'[g] # None
  BY <1>1, <1>2, CallSets DEF Given
<1>10. \A i \in Window' : /\ buffer_nodes'[i] \in Puts /\ coro'[buffer_nodes'[i]] = "resumed"
                          /\ \A j \in Window' : buffer_nodes'[i] = buffer_nodes'[j] => i = j
  <2>1. \A i \in Window : buffer_nodes[i] \in Puts /\ coro'[buffer_nodes[i]] = "resumed"
    BY <1>7, CallSets DEF Given
  <2>2. \A i, j \in Window : buffer_nodes[i] = buffer_nodes[j] => i = j
    BY DEF Given
  <2>3. QED
    BY <1>1, <1>2, <1>4, <1>7, <2>1, <2>2
<1>11. ASSUME NEW p \in Puts, coro'[p] = "resumed"
       PROVE  (\E g \in Getters : result'[g] = p) \/ \E i \in Window' : buffer_nodes'[i] = p
  <2>1. CASE p = v
    BY <1>1, <2>1
  <2>2. CASE p # v
    <3>1. coro[p] = "resumed"
      BY <1>1, <1>11, <2>2, CallSets
    <3>2. (\E g \in Getters : result[g] = p) \/ \E i \in Window : buffer_nodes[i] = p
      BY <3>1 DEF Given
    <3>3. QED
      BY <1>1, <3>2
  <2>3. QED
    BY <2>1, <2>2
<1>12. QED
  BY <1>8, <1>9, <1>10, <1>11 DEF Given

\* Every step keeps each value in one place.
LEMMA GivenStep == Base /\ Given /\ [Next]_vars => Given'
<1> SUFFICES ASSUME Base, Given, [Next]_vars PROVE Given'
  OBVIOUS
<1>1. CASE UNCHANGED vars
  BY <1>1, CalmUnchanged, CalmGiven DEF vars, calls
<1>2. CASE Destroy
  BY <1>2, CalmDestroy, CalmGiven
<1>3. ASSUME NEW c \in Calls, Begin(c) PROVE Given'
  BY <1>3, CalmBegin, CalmGiven
<1>4. ASSUME NEW c \in Calls, BlockStep(c) PROVE Given'
  <2>1. CASE Still(c)
    BY <2>1, StillFacts, CalmUnchanged, CalmGiven DEF calls
  <2>2. CASE QueueOrNull(c)
    BY <2>2, CalmUnchanged, CalmGiven DEF QueueOrNull, calls
  <2>3. CASE ResumeOrNull(c)
    BY <2>3, CalmResume, CalmGiven
  <2>4. CASE GiveBuffered(c) \/ HandOver(c)
    BY <2>4, BufferedGiven, HandOverGiven
  <2>5. CASE Fill(c)
    <3>1. CASE buffer_index \in DOMAIN buffer_nodes
      BY <2>5, <3>1, FillGiven
    <3>2. CASE buffer_index \notin DOMAIN buffer_nodes
      BY <2>5, <3>2, CalmUnchanged, CalmGiven DEF Fill
    <3>3. QED
      BY <3>1, <3>2
  <2>6. QED
    BY <1>4, <2>1, <2>2, <2>3, <2>4, <2>5, StepCases
<1>5. QED
  BY <1>1, <1>2, <1>3, <1>4 DEF Next

\* Each value in one place is each value once.
LEMMA ValuesFollow ==
  ASSUME Base, Given
  PROVE  ValuesKept
<1>1. Buffered = {buffer_nodes[i] : i \in Window}
  BY DEF Buffered, Window
<1>2. \A c \in Calls : coro[c] # "twice"
  BY DEF Base, Placed
<1>3. result \in [Getters -> Puts \cup {None}] /\ None \notin Puts
  BY ChannelAssumption DEF Base, Typed
<1>4. ASSUME NEW p \in Puts
      PROVE  Cardinality({g \in Getters : result[g] = p}) + Cardinality({p} \cap Buffered)
               = IF coro[p] = "resumed" THEN 1 ELSE 0
  <2> DEFINE Has == {g \in Getters : result[g] = p}
             Held == {p} \cap Buffered
  <2>1. CASE coro[p] # "resumed"
    <3>1. Has = {} /\ Held = {}
      BY <1>1, <1>3, <2>1 DEF Given
    <3>2. Cardinality(Has) = 0 /\ Cardinality(Held) = 0
      BY <3>1, FS_EmptySet
    <3>3. QED
      BY <2>1, <3>2
  <2>2. ASSUME NEW g \in Getters, result[g] = p, coro[p] = "resumed"
        PROVE  Cardinality(Has) + Cardinality(Held) = 1
    <3>1. Has = {g} /\ Held = {}
      BY <1>1, <1>3, <2>2 DEF Given
    <3>2. Cardinality(Has) = 1 /\ Cardinality(Held) = 0
      BY <3>1, FS_EmptySet, FS_Singleton
    <3>3. QED
      BY <3>2
  <2>3. ASSUME NEW i \in Window, buffer_nodes[i] = p
        PROVE  Cardinality(Has) + Cardinality(Held) = 1
    <3>1. Has = {} /\ Held = {p}
      BY <1>1, <1>3, <2>3 DEF Given
    <3>2. Cardinality(Has) = 0 /\ Cardinality(Held) = 1
      BY <3>1, FS_EmptySet, FS_Singleton
    <3>3. QED
      BY <3>2
  <2>4. CASE coro[p] = "resumed"
    <3>1. (\E g \in Getters : result[g] = p) \/ \E i \in Window : buffer_nodes[i] = p
      BY <2>4 DEF Given
    <3>2. Cardinality(Has) + Cardinality(Held) = 1
      BY <2>2, <2>3, <2>4, <3>1
    <3>3. QED
      BY <2>4, <3>2
  <2>5. QED
    BY <2>1, <2>4
<1>5. QED
  BY <1>2, <1>4 DEF ValuesKept

\* No value is lost, delivered twice or made up, and no coroutine is resumed
\* twice, for any number of calls, threads and places in the buffer.
THEOREM ValuesNotLost ==
  OrNullThreadCounts \subseteq {1} => (Spec => []ValuesKept)
<1> SUFFICES ASSUME OrNullThreadCounts \subseteq {1} PROVE Spec => []ValuesKept
  OBVIOUS
<1>1. Init => Base /\ Given
  BY BaseInit, GivenInit
<1>2. Base /\ Given /\ [Next]_vars => Base' /\ Given'
  BY BaseStep, GivenStep
<1>3. Base /\ Given => ValuesKept
  BY ValuesFollow
<1>4. QED
  BY <1>1, <1>2, <1>3, PTL DEF Spec
-----------------------------------------------------------------------------
(* The order. *)

\* Calls that arrive once arrive in one order.
LEMMA BeforeOrder ==
  ASSUME Distinct(arrivals)
  PROVE  /\ \A a, b : Before(a, b) => ~Before(b, a)
         /\ \A a, b : Before(a, b) => InQueue(arrivals, a) /\ InQueue(arrivals, b)
<1>1. ASSUME NEW a, NEW b, Before(a, b), Before(b, a) PROVE FALSE
  <2>1. PICK i, j \in 1..Len(arrivals) : i < j /\ arrivals[i] = a /\ arrivals[j] = b
    BY <1>1 DEF Before
  <2>2. PICK k, l \in 1..Len(arrivals) : k < l /\ arrivals[k] = b /\ arrivals[l] = a
    BY <1>1 DEF Before
  <2>3. i = l /\ j = k
    BY <2>1, <2>2 DEF Distinct
  <2>4. QED
    BY <2>1, <2>2, <2>3
<1>2. QED
  BY <1>1 DEF Before, InQueue

\* A call that arrives is behind all the others.
LEMMA Arrival ==
  ASSUME arrivals \in Seq(Calls), NEW c \in Calls, arrivals' = Append(arrivals, c),
         Distinct(arrivals), ~InQueue(arrivals, c)
  PROVE  /\ \A a, b : Before(a, b) => Before(a, b)'
         /\ \A a : InQueue(arrivals, a) => Before(a, c)'
         /\ \A a, b : Before(a, b)' /\ b # c => Before(a, b)
         /\ Distinct(arrivals')
         /\ \A x : InQueue(arrivals', x) <=> InQueue(arrivals, x) \/ x = c
<1> DEFINE n == Len(arrivals)
           q == Append(arrivals, c)
<1>1. /\ n \in Nat /\ Len(q) = n + 1 /\ q[n + 1] = c
      /\ \A i \in 1..n : q[i] = arrivals[i]
  OBVIOUS
<1>2. /\ Distinct(q) /\ \A x : InQueue(q, x) <=> InQueue(arrivals, x) \/ x = c
  BY PutQueue
<1> HIDE DEF n, q
<1>3. ASSUME NEW a, NEW b, Before(a, b)
      PROVE  \E i, j \in 1..(n + 1) : i < j /\ q[i] = a /\ q[j] = b
  <2>1. PICK i, j \in 1..n : i < j /\ arrivals[i] = a /\ arrivals[j] = b
    BY <1>3 DEF Before, n
  <2>2. i \in 1..(n + 1) /\ j \in 1..(n + 1) /\ q[i] = a /\ q[j] = b
    BY <1>1, <2>1
  <2>3. QED
    BY <2>1, <2>2
<1>4. ASSUME NEW a, InQueue(arrivals, a)
      PROVE  \E i, j \in 1..(n + 1) : i < j /\ q[i] = a /\ q[j] = c
  <2>1. PICK i \in 1..n : arrivals[i] = a
    BY <1>4 DEF InQueue, n
  <2>2. i \in 1..(n + 1) /\ n + 1 \in 1..(n + 1) /\ i < n + 1 /\ q[i] = a
    BY <1>1, <2>1
  <2>3. QED
    BY <1>1, <2>2
<1>5. ASSUME NEW a, NEW b, b # c, \E i, j \in 1..(n + 1) : i < j /\ q[i] = a /\ q[j] = b
      PROVE  \E i, j \in 1..n : i < j /\ arrivals[i] = a /\ arrivals[j] = b
  <2>1. PICK i, j \in 1..(n + 1) : i < j /\ q[i] = a /\ q[j] = b
    BY <1>5
  <2>2. j # n + 1
    BY <1>1, <1>5, <2>1
  <2>3. i \in 1..n /\ j \in 1..n
    BY <1>1, <2>1, <2>2
  <2>4. QED
    BY <1>1, <2>1, <2>3
<1>6. arrivals' = q /\ Len(arrivals') = n + 1
  BY <1>1 DEF q
<1>7. QED
  BY <1>2, <1>3, <1>4, <1>5, <1>6 DEF Before, n

\* The order is that of the arrivals.
LEMMA SameOrder ==
  ASSUME arrivals' = arrivals
  PROVE  \A a, b : Before(a, b)' <=> Before(a, b)
BY DEF Before

\* The first of a queue is before the others.
LEMMA SortedHead ==
  ASSUME NEW S, NEW q \in Seq(S), q # <<>>, Sorted(q)
  PROVE  /\ Sorted(Tail(q))
         /\ \A x : InQueue(q, x) /\ x # Head(q) => Before(Head(q), x)
<1>1. /\ Len(q) \in Nat /\ Len(q) >= 1 /\ Len(Tail(q)) = Len(q) - 1 /\ Head(q) = q[1]
      /\ \A i \in 1..(Len(q) - 1) : Tail(q)[i] = q[i + 1]
  OBVIOUS
<1>2. ASSUME NEW i \in 1..Len(Tail(q)), NEW j \in 1..Len(Tail(q)), i < j
      PROVE  Before(Tail(q)[i], Tail(q)[j])
  <2>1. /\ i + 1 \in 1..Len(q) /\ j + 1 \in 1..Len(q) /\ i + 1 < j + 1
        /\ Tail(q)[i] = q[i + 1] /\ Tail(q)[j] = q[j + 1]
    BY <1>1, <1>2
  <2>2. Before(q[i + 1], q[j + 1])
    BY <2>1 DEF Sorted
  <2>3. QED
    BY <2>1, <2>2
<1>3. ASSUME NEW x, InQueue(q, x), x # Head(q) PROVE Before(Head(q), x)
  <2>1. PICK i \in 1..Len(q) : q[i] = x
    BY <1>3 DEF InQueue
  <2>2. 1 \in 1..Len(q) /\ 1 < i
    BY <1>1, <1>3, <2>1
  <2>3. Before(q[1], q[i])
    BY <2>2 DEF Sorted
  <2>4. QED
    BY <1>1, <2>1, <2>3
<1>4. QED
  BY <1>2, <1>3 DEF Sorted

\* Nobody has arrived at a new channel.
LEMMA OrderedInit == Init => Ordered
<1> SUFFICES ASSUME Init PROVE Ordered
  OBVIOUS
<1>1. /\ \A g \in Getters : result[g] = None
      /\ \A e \in Calls : coro[e] = "idle"
      /\ arrivals = <<>> /\ getters = <<>> /\ putters = <<>>
  BY DEF Init
<1>2. Window = {}
  BY DEF Init, Window
<1>3. Sorted(getters) /\ Sorted(putters)
  BY <1>1 DEF Sorted
<1>4. Distinct(arrivals) /\ \A x : ~InQueue(arrivals, x)
  BY <1>1, EmptyQueue
<1>5. QED
  BY <1>1, <1>2, <1>3, <1>4, CallSets DEF Ordered, Unserved

\* A step that moves no value keeps the order.
LEMMA CalmOrdered ==
  ASSUME Base, Ordered, Calm, arrivals' = arrivals,
         Sorted(getters)', Sorted(putters)',
         \A e \in Calls : coro'[e] = "idle" <=> coro[e] = "idle",
         \A e \in Calls : coro'[e] \in Unserved => coro[e] \in Unserved
  PROVE  Ordered'
<1>1. /\ result' = result /\ Window' = Window
      /\ \A i \in Window : buffer_nodes'[i] = buffer_nodes[i]
      /\ \A e \in Puts : coro'[e] = "resumed" => coro[e] = "resumed"
  BY DEF Calm
<1>2. \A a, b : Before(a, b)' <=> Before(a, b)
  BY SameOrder
<1>3. /\ Distinct(arrivals)' /\ \A c \in Calls : InQueue(arrivals, c)' <=> coro'[c] # "idle"
  BY DEF Ordered
<1>4. \A g, h \in Getters : result'[g] # None /\ coro'[h] \in Unserved => Before(g, h)'
  BY <1>1, <1>2, CallSets DEF Ordered
<1>5. \A p, q \in Puts : coro'[p] = "resumed" /\ coro'[q] \in Unserved => Before(p, q)'
  BY <1>1, <1>2, CallSets DEF Ordered
<1>6. \A g \in Getters : \A i \in Window' :
         result'[g] # None => Before(result[g], buffer_nodes[i])'
  BY <1>1, <1>2 DEF Ordered
<1>7. \A i, j \in Window' : i < j => Before(buffer_nodes[i], buffer_nodes[j])'
  BY <1>1, <1>2 DEF Ordered
<1>8. \A g, h \in Getters : result'[g] # None /\ result'[h] # None /\ Before(g, h)'
         => Before(result[g], result[h])'
  BY <1>1, <1>2 DEF Ordered
<1>9. QED
  BY <1>3, <1>4, <1>5, <1>6, <1>7, <1>8 DEF Ordered

\* A step that moves no node keeps it too,
LEMMA StillOrdered ==
  ASSUME Base, Ordered, UNCHANGED <<getters, putters, buffer, calls>>
  PROVE  Ordered'
<1>1. UNCHANGED <<getters, putters, buffer, coro, result, arrivals>>
  BY DEF calls
<1>2. Calm
  BY <1>1, CalmUnchanged
<1>3. Sorted(getters)' /\ Sorted(putters)'
  BY <1>1, SameOrder DEF Ordered, Sorted
<1>4. QED
  BY <1>1, <1>2, <1>3, CalmOrdered

\* as does destroy(),
LEMMA DestroyOrdered ==
  ASSUME Base, Ordered, Destroy
  PROVE  Ordered'
<1>1. /\ getters' = <<>> /\ putters' = <<>> /\ arrivals' = arrivals
      /\ coro' = [c \in Calls |-> IF coro[c] = "waiting" THEN "cancelled" ELSE coro[c]]
  BY DEF Destroy
<1>2. Sorted(getters)' /\ Sorted(putters)'
  BY <1>1 DEF Sorted
<1>3. /\ \A e \in Calls : coro'[e] = "idle" <=> coro[e] = "idle"
      /\ \A e \in Calls : coro'[e] \in Unserved => coro[e] \in Unserved
  BY <1>1 DEF Unserved
<1>4. QED
  BY <1>1, <1>2, <1>3, CalmDestroy, CalmOrdered

\* and removing a node from the middle of getters.
LEMMA ResumeOrdered ==
  ASSUME Base, Ordered, NEW c \in Calls, ResumeOrNull(c)
  PROVE  Ordered'
<1> DEFINE n == Head(or_null_queue)
<1>1. /\ coro[n] = "waiting" /\ InQueue(getters, n) /\ getters' = Without(getters, n)
      /\ putters' = putters /\ arrivals' = arrivals
      /\ \A e \in Calls : coro'[e] = IF e = n THEN "resumed" ELSE coro[e]
  BY NullFacts
<1> HIDE DEF n
<1>2. \A i, j \in 1..Len(getters') : i < j =>
        \E k, l \in 1..Len(getters) : k < l /\ getters'[i] = getters[k] /\ getters'[j] = getters[l]
  BY <1>1, RemoveQueue, SMTT(30) DEF Base, Typed, Queued
<1>3. Sorted(getters)' /\ Sorted(putters)'
  <2>1. ASSUME NEW i \in 1..Len(getters'), NEW j \in 1..Len(getters'), i < j
        PROVE  Before(getters[i], getters[j])'
    <3>1. PICK k, l \in 1..Len(getters) :
               k < l /\ getters'[i] = getters[k] /\ getters'[j] = getters[l]
      BY <1>2, <2>1
    <3>2. Before(getters[k], getters[l])
      BY <3>1 DEF Ordered, Sorted
    <3>3. QED
      BY <1>1, <3>1, <3>2, SameOrder
  <2>2. QED
    BY <1>1, <2>1, SameOrder DEF Ordered, Sorted
<1>4. /\ \A e \in Calls : coro'[e] = "idle" <=> coro[e] = "idle"
      /\ \A e \in Calls : coro'[e] \in Unserved => coro[e] \in Unserved
  BY <1>1 DEF Unserved
<1>5. QED
  BY <1>1, <1>3, <1>4, CalmResume, CalmOrdered

\* A call that arrives is last in its queue.
LEMMA BeginOrdered ==
  ASSUME Base, Given, Ordered, NEW c \in Calls, Begin(c)
  PROVE  Ordered'
<1>1. /\ coro[c] = "idle" /\ coro' = [coro EXCEPT ![c] = "waiting"]
      /\ coro \in [Calls -> {"idle", "waiting", "resumed", "twice", "cancelled"}]
      /\ c \in Puts => putters' = Append(putters, c) /\ getters' = getters
      /\ c \in Getters => getters' = Append(getters, c) /\ putters' = putters
      /\ arrivals' = Append(arrivals, c) /\ arrivals \in Seq(Calls)
      /\ getters \in Seq(Getters) /\ putters \in Seq(Puts)
  <2>1. arrivals' = Append(arrivals, c)
    BY DEF Begin
  <2>2. QED
    BY <2>1, BeginFacts DEF Base, Typed
<1>2. Distinct(arrivals) /\ \A e \in Calls : InQueue(arrivals, e) <=> coro[e] # "idle"
  BY DEF Ordered
<1>3. /\ \A a, b : Before(a, b) => Before(a, b)'
      /\ \A a : InQueue(arrivals, a) => Before(a, c)'
      /\ \A a, b : Before(a, b)' /\ b # c => Before(a, b)
      /\ Distinct(arrivals')
      /\ \A x : InQueue(arrivals', x) <=> InQueue(arrivals, x) \/ x = c
  BY <1>1, <1>2, Arrival
<1>4. /\ result' = result /\ Window' = Window
      /\ \A i \in Window : buffer_nodes'[i] = buffer_nodes[i]
  BY CalmBegin DEF Calm
<1>5. /\ \A e \in Calls : e # c => coro'[e] = coro[e]
      /\ coro'[c] = "waiting"
  BY <1>1
<1>6. \A e \in Calls : coro[e] # "idle" => Before(e, c)'
  BY <1>2, <1>3
<1>7. ASSUME NEW S, NEW q \in Seq(S), Sorted(q), \A x : InQueue(q, x) => Before(x, c)'
      PROVE  \A i, j \in 1..Len(Append(q, c)) : i < j => Before(Append(q, c)[i], Append(q, c)[j])'
  <2> DEFINE r == Append(q, c)
  <2>1. /\ Len(q) \in Nat /\ Len(r) = Len(q) + 1 /\ r[Len(q) + 1] = c
        /\ \A i \in 1..Len(q) : r[i] = q[i]
    BY <1>7
  <2> HIDE DEF r
  <2> SUFFICES ASSUME NEW i \in 1..Len(r), NEW j \in 1..Len(r), i < j
               PROVE  Before(r[i], r[j])'
    BY DEF r
  <2>2. i \in 1..Len(q)
    BY <2>1
  <2>3. CASE j = Len(q) + 1
    BY <1>7, <2>1, <2>2, <2>3 DEF InQueue
  <2>4. CASE j # Len(q) + 1
    <3>1. j \in 1..Len(q)
      BY <2>1, <2>4
    <3>2. Before(q[i], q[j])
      BY <1>7, <2>2, <3>1 DEF Sorted
    <3>3. QED
      BY <1>3, <2>1, <2>2, <3>1, <3>2
  <2>5. QED
    BY <2>3, <2>4
<1>8. Sorted(putters)'
  <2>1. Sorted(putters)
    BY DEF Ordered
  <2>2. CASE c \in Puts
    <3>1. \A x : InQueue(putters, x) => x \in Puts
      BY <1>1 DEF InQueue
    <3>2. \A x : InQueue(putters, x) => Before(x, c)'
      BY <1>6, <3>1, CallSets DEF Base, Queued
    <3>3. QED
      BY <1>1, <1>7, <2>1, <2>2, <3>2 DEF Sorted
  <2>3. CASE c \in Getters
    BY <1>1, <1>3, <2>1, <2>3 DEF Sorted
  <2>4. QED
    BY <2>2, <2>3, CallSets
<1>9. Sorted(getters)'
  <2>1. Sorted(getters)
    BY DEF Ordered
  <2>2. CASE c \in Getters
    <3>1. \A x : InQueue(getters, x) => x \in Getters
      BY <1>1 DEF InQueue
    <3>2. \A x : InQueue(getters, x) => Before(x, c)'
      BY <1>6, <3>1, CallSets DEF Base, Queued
    <3>3. QED
      BY <1>1, <1>7, <2>1, <2>2, <3>2 DEF Sorted
  <2>3. CASE c \in Puts
    BY <1>1, <1>3, <2>1, <2>3 DEF Sorted
  <2>4. QED
    BY <2>2, <2>3, CallSets
<1>10. \A e \in Calls : InQueue(arrivals', e) <=> coro'[e] # "idle"
  BY <1>2, <1>3, <1>5
<1>11. \A g, h \in Getters : result'[g] # None /\ coro'[h] \in Unserved => Before(g, h)'
  <2> SUFFICES ASSUME NEW g \in Getters, NEW h \in Getters, result[g] # None,
                      coro'[h] \in Unserved
               PROVE  Before(g, h)'
    BY <1>4
  <2>1. coro[g] = "resumed" /\ g \in Calls /\ h \in Calls
    BY CallSets DEF Given
  <2>2. CASE h = c
    BY <1>6, <2>1, <2>2
  <2>3. CASE h # c
    BY <1>3, <1>5, <2>1, <2>3 DEF Ordered
  <2>4. QED
    BY <2>2, <2>3
<1>12. \A p, q \in Puts : coro'[p] = "resumed" /\ coro'[q] \in Unserved => Before(p, q)'
  <2> SUFFICES ASSUME NEW p \in Puts, NEW q \in Puts, coro'[p] = "resumed",
                      coro'[q] \in Unserved
               PROVE  Before(p, q)'
    OBVIOUS
  <2>1. coro[p] = "resumed" /\ p \in Calls /\ q \in Calls
    BY <1>5, CallSets
  <2>2. CASE q = c
    BY <1>6, <2>1, <2>2
  <2>3. CASE q # c
    BY <1>3, <1>5, <2>1, <2>3 DEF Ordered
  <2>4. QED
    BY <2>2, <2>3
<1>13. \A g \in Getters : \A i \in Window' :
         result'[g] # None => Before(result[g], buffer_nodes[i])'
  BY <1>3, <1>4 DEF Ordered
<1>14. \A i, j \in Window' : i < j => Before(buffer_nodes[i], buffer_nodes[j])'
  BY <1>3, <1>4 DEF Ordered
<1>15. \A g, h \in Getters : result'[g] # None /\ result'[h] # None /\ Before(g, h)'
         => Before(result[g], result[h])'
  <2> SUFFICES ASSUME NEW g \in Getters, NEW h \in Getters, result[g] # None,
                      result[h] # None, Before(g, h)'
               PROVE  Before(result[g], result[h])'
    BY <1>4
  <2>1. coro[h] = "resumed"
    BY DEF Given
  <2>2. Before(g, h)
    BY <1>1, <1>3, <2>1
  <2>3. Before(result[g], result[h])
    BY <2>2 DEF Ordered
  <2>4. QED
    BY <1>3, <1>4, <2>3
<1>16. QED
  BY <1>3, <1>8, <1>9, <1>10, <1>11, <1>12, <1>13, <1>14, <1>15 DEF Ordered

\* What the next getter or put is before.
LEMMA NextInLine ==
  ASSUME Base, Ordered, live
  PROVE  /\ getters # <<>> =>
              \A h \in Getters : h # Head(getters) /\ coro[h] \in Unserved => Before(Head(getters), h)
         /\ putters # <<>> =>
              \A q \in Puts : q # Head(putters) /\ coro[q] \in Unserved => Before(Head(putters), q)
<1>1. \A e \in Calls : coro[e] \in Unserved => coro[e] = "waiting"
  BY DEF Base, Placed, Unserved
<1>2. /\ getters \in Seq(Getters) /\ putters \in Seq(Puts) /\ Sorted(getters) /\ Sorted(putters)
  BY DEF Base, Typed, Ordered
<1>3. /\ \A h \in Getters : coro[h] \in Unserved => InQueue(getters, h)
      /\ \A q \in Puts : coro[q] \in Unserved => InQueue(putters, q)
  BY <1>1, CallSets DEF Base, Queued
<1>4. ASSUME getters # <<>>
      PROVE  \A x : InQueue(getters, x) /\ x # Head(getters) => Before(Head(getters), x)
  BY <1>2, <1>4, SortedHead
<1>5. ASSUME putters # <<>>
      PROVE  \A x : InQueue(putters, x) /\ x # Head(putters) => Before(Head(putters), x)
  BY <1>2, <1>5, SortedHead
<1>6. QED
  BY <1>3, <1>4, <1>5

\* The queues after the first node has left.
LEMMA TailsSorted ==
  ASSUME Base, Ordered, arrivals' = arrivals,
         getters' = getters \/ (getters # <<>> /\ getters' = Tail(getters)),
         putters' = putters \/ (putters # <<>> /\ putters' = Tail(putters))
  PROVE  Sorted(getters)' /\ Sorted(putters)'
<1>1. /\ getters \in Seq(Getters) /\ putters \in Seq(Puts) /\ Sorted(getters) /\ Sorted(putters)
  BY DEF Base, Typed, Ordered
<1>2. ASSUME getters # <<>> PROVE Sorted(Tail(getters))
  BY <1>1, <1>2, SortedHead
<1>3. ASSUME putters # <<>> PROVE Sorted(Tail(putters))
  BY <1>1, <1>3, SortedHead
<1>4. \A a, b : Before(a, b)' <=> Before(a, b)
  BY SameOrder
<1>5. Sorted(getters)'
  BY <1>1, <1>2, <1>4 DEF Sorted
<1>6. Sorted(putters)'
  BY <1>1, <1>3, <1>4 DEF Sorted
<1>7. QED
  BY <1>5, <1>6

\* The first getter, h0, is given the value v, which comes after every value
\* given before it.
LEMMA GiveOrdered ==
  ASSUME Base, Given, Ordered, live, NEW c \in Calls, GiveBuffered(c) \/ HandOver(c),
         NEW h0, h0 = Head(getters), NEW v, result' = [result EXCEPT ![h0] = v], v # None,
         \A g \in Getters : result[g] # None => Before(result[g], v)
  PROVE  /\ \A g, h \in Getters : result'[g] # None /\ coro'[h] \in Unserved => Before(g, h)'
         /\ \A g, h \in Getters : result'[g] # None /\ result'[h] # None /\ Before(g, h)'
              => Before(result[g], result[h])'
<1>1. /\ getters # <<>> /\ h0 \in Getters /\ coro[h0] = "waiting" /\ arrivals' = arrivals
      /\ \A g \in Getters : coro'[g] = IF g = h0 THEN "resumed" ELSE coro[g]
  BY GiveFacts
<1>2. \A a, b : Before(a, b)' <=> Before(a, b)
  BY <1>1, SameOrder
<1>3. \A h \in Getters : h # h0 /\ coro[h] \in Unserved => Before(h0, h)
  BY <1>1, NextInLine
<1>4. result \in [Getters -> Puts \cup {None}]
  BY DEF Base, Typed
<1>5. result'[h0] = v /\ \A g \in Getters : g # h0 => result'[g] = result[g]
  BY <1>1, <1>4
<1>6. ASSUME NEW g \in Getters, NEW h \in Getters, result'[g] # None, coro'[h] \in Unserved
      PROVE  Before(g, h)'
  <2>1. h # h0 /\ coro[h] \in Unserved
    BY <1>1, <1>6 DEF Unserved
  <2>2. CASE g = h0
    BY <1>2, <1>3, <2>1, <2>2
  <2>3. CASE g # h0
    BY <1>2, <1>5, <1>6, <2>1, <2>3 DEF Ordered
  <2>4. QED
    BY <2>2, <2>3
<1>7. ASSUME NEW g \in Getters, NEW h \in Getters, result'[g] # None, result'[h] # None,
             Before(g, h)'
      PROVE  Before(result'[g], result'[h])
  <2>0. Before(g, h)
    BY <1>2, <1>7
  <2>1. \A a, b : Before(a, b) => ~Before(b, a)
    BY BeforeOrder DEF Ordered
  <2>2. CASE h = h0
    <3>1. g # h0
      BY <2>0, <2>1, <2>2
    <3>2. QED
      BY <1>5, <1>7, <2>2, <3>1
  <2>3. CASE h # h0 /\ g = h0
    <3>1. result[h] # None /\ coro[h0] \in Unserved
      BY <1>1, <1>5, <1>7, <2>3 DEF Unserved
    <3>2. Before(h, h0)
      BY <1>1, <3>1 DEF Ordered
    <3>3. QED
      BY <2>0, <2>1, <2>3, <3>2
  <2>4. CASE h # h0 /\ g # h0
    BY <1>5, <1>7, <2>0, <2>4 DEF Ordered
  <2>5. QED
    BY <2>2, <2>3, <2>4
<1>8. ASSUME NEW g \in Getters, NEW h \in Getters, result'[g] # None, result'[h] # None,
             Before(g, h)'
      PROVE  Before(result[g], result[h])'
  <2>1. Before(result'[g], result'[h])
    BY <1>7, <1>8
  <2>2. QED
    BY <1>1, <2>1 DEF Before
<1>9. QED
  BY <1>6, <1>8

\* The first value of the buffer goes to the first getter.
LEMMA BufferedOrdered ==
  ASSUME Base, Given, Ordered, NEW c \in Calls, GiveBuffered(c)
  PROVE  Ordered'
<1> DEFINE w == buffer_index - buffer_len
           h0 == Head(getters)
           v == buffer_nodes[w]
<1>0. live
  BY BlockFacts DEF BlockStep, Dispatch
<1>1. /\ w \in Window /\ Window' = Window \ {w} /\ buffer_nodes' = buffer_nodes
      /\ \A i \in Window : i # w => w < i
      /\ result' = [result EXCEPT ![h0] = v]
      /\ \A e \in Calls : coro'[e] = IF e = h0 THEN "resumed" ELSE coro[e]
  BY BufferedFacts
<1>2. /\ getters # <<>> /\ getters' = Tail(getters) /\ arrivals' = arrivals
      /\ h0 \in Getters /\ coro[h0] = "waiting"
  BY GiveFacts
<1>3. putters' = putters
  BY DEF GiveBuffered
<1>4. \A g \in Getters : result[g] # None => Before(result[g], v)
  BY <1>1 DEF Ordered
<1>5. v # None
  BY <1>1, ChannelAssumption DEF Given
<1> HIDE DEF w, h0, v
<1>6. /\ \A g, h \in Getters : result'[g] # None /\ coro'[h] \in Unserved => Before(g, h)'
      /\ \A g, h \in Getters : result'[g] # None /\ result'[h] # None /\ Before(g, h)'
           => Before(result[g], result[h])'
  <2>1. h0 = Head(getters)
    BY DEF h0
  <2>2. QED
    BY <1>0, <1>1, <1>4, <1>5, <2>1, GiveOrdered
<1>7. Sorted(getters)' /\ Sorted(putters)'
  BY <1>2, <1>3, TailsSorted
<1>8. \A a, b : Before(a, b)' <=> Before(a, b)
  BY <1>2, SameOrder
<1>9. Distinct(arrivals)' /\ \A e \in Calls : InQueue(arrivals, e)' <=> coro'[e] # "idle"
  BY <1>1, <1>2, CallSets DEF Ordered
<1>10. \A p, q \in Puts : coro'[p] = "resumed" /\ coro'[q] \in Unserved => Before(p, q)'
  BY <1>1, <1>2, <1>8, CallSets DEF Ordered
<1>11. result \in [Getters -> Puts \cup {None}]
  BY DEF Base, Typed
<1>12. result'[h0] = v /\ \A g \in Getters : g # h0 => result'[g] = result[g]
  BY <1>1, <1>2, <1>11
<1>13. ASSUME NEW g \in Getters, NEW i \in Window', result'[g] # None
       PROVE  Before(result'[g], buffer_nodes[i])
  <2>1. i \in Window /\ w < i
    BY <1>1
  <2>2. CASE g = h0
    BY <1>1, <1>12, <2>1, <2>2 DEF Ordered, v
  <2>3. CASE g # h0
    BY <1>12, <1>13, <2>1, <2>3 DEF Ordered
  <2>4. QED
    BY <2>2, <2>3
<1>14. \A g \in Getters : \A i \in Window' :
          result'[g] # None => Before(result[g], buffer_nodes[i])'
  BY <1>1, <1>2, <1>13 DEF Before
<1>15. \A i, j \in Window' : i < j => Before(buffer_nodes[i], buffer_nodes[j])'
  BY <1>1, <1>8 DEF Ordered
<1>16. QED
  BY <1>6, <1>7, <1>9, <1>10, <1>14, <1>15 DEF Ordered

\* The buffer is empty when the first put is handed to the first getter.
LEMMA HandOverOrdered ==
  ASSUME Base, Numbers, Given, Ordered, NEW c \in Calls, HandOver(c)
  PROVE  Ordered'
<1> DEFINE h0 == Head(getters)
           v == Head(putters)
<1>0. live
  BY BlockFacts DEF BlockStep, Dispatch
<1>1. /\ Window' = Window /\ buffer_nodes' = buffer_nodes
      /\ result' = [result EXCEPT ![h0] = v]
      /\ \A e \in Calls : coro'[e] = IF e \in {h0, v} THEN "resumed" ELSE coro[e]
  BY HandOverFacts
<1>2. /\ getters # <<>> /\ getters' = Tail(getters) /\ arrivals' = arrivals
      /\ h0 \in Getters /\ coro[h0] = "waiting"
  BY GiveFacts
<1>3. /\ putters # <<>> /\ putters' = Tail(putters) /\ v \in Puts /\ coro[v] = "waiting"
      /\ v # None
  BY TakeFacts, ChannelAssumption
<1>4. \A q \in Puts : q # v /\ coro[q] \in Unserved => Before(v, q)
  BY <1>0, <1>3, NextInLine
<1>5. Window = {}
  <2>1. buffer_len = 0
    BY <1>0 DEF Numbers, Local, HandOver, At
  <2>2. buffer_index \in Int
    <3>1. \E n \in Capacities : buffer_index \in 0..n
      BY DEF Base, Typed
    <3>2. QED
      BY <3>1, ChannelAssumption
  <2>3. QED
    BY <2>1, <2>2 DEF Window
<1>6. \A g \in Getters : result[g] # None => Before(result[g], v)
  <2>1. result \in [Getters -> Puts \cup {None}]
    BY DEF Base, Typed
  <2> HIDE DEF v
  <2>2. ASSUME NEW g \in Getters, result[g] # None PROVE Before(result[g], v)
    <3>1. result[g] \in Puts /\ coro[result[g]] = "resumed"
      BY <2>1, <2>2 DEF Given
    <3>2. coro[v] \in Unserved
      BY <1>3 DEF Unserved
    <3>3. QED
      BY <1>3, <3>1, <3>2 DEF Ordered
  <2>3. QED
    BY <2>2
<1> HIDE DEF h0, v
<1>7. /\ \A g, h \in Getters : result'[g] # None /\ coro'[h] \in Unserved => Before(g, h)'
      /\ \A g, h \in Getters : result'[g] # None /\ result'[h] # None /\ Before(g, h)'
           => Before(result[g], result[h])'
  <2>1. h0 = Head(getters)
    BY DEF h0
  <2>2. QED
    BY <1>0, <1>1, <1>3, <1>6, <2>1, GiveOrdered
<1>8. Sorted(getters)' /\ Sorted(putters)'
  BY <1>2, <1>3, TailsSorted
<1>9. \A a, b : Before(a, b)' <=> Before(a, b)
  BY <1>2, SameOrder
<1>10. Distinct(arrivals)' /\ \A e \in Calls : InQueue(arrivals, e)' <=> coro'[e] # "idle"
  BY <1>1, <1>2, <1>3, CallSets DEF Ordered
<1>11. ASSUME NEW p \in Puts, NEW q \in Puts, coro'[p] = "resumed", coro'[q] \in Unserved
       PROVE  Before(p, q)'
  <2>1. q # v /\ coro[q] \in Unserved /\ p # h0 /\ q # h0
    BY <1>1, <1>2, <1>11, CallSets DEF Unserved
  <2>2. CASE p = v
    BY <1>4, <1>9, <2>1, <2>2
  <2>3. CASE p # v
    <3>1. coro[p] = "resumed"
      BY <1>1, <1>11, <2>1, <2>3, CallSets
    <3>2. QED
      BY <1>9, <2>1, <3>1 DEF Ordered
  <2>4. QED
    BY <2>2, <2>3
<1>12. QED
  BY <1>1, <1>5, <1>7, <1>8, <1>10, <1>11 DEF Ordered

\* The first put goes behind the values in the buffer.
LEMMA FillOrdered ==
  ASSUME Base, Given, Ordered, NEW c \in Calls, Fill(c), buffer_index \in DOMAIN buffer_nodes
  PROVE  Ordered'
<1> DEFINE b == buffer_index
           v == Head(putters)
<1>0. live
  BY BlockFacts DEF BlockStep, Dispatch
<1>1. /\ b \notin Window /\ Window' = Window \cup {b}
      /\ \A i \in Window : i <= b /\ buffer_nodes'[i] = buffer_nodes[i]
      /\ buffer_nodes'[b] = v /\ result' = result
      /\ \A e \in Calls : coro'[e] = IF e = v THEN "resumed" ELSE coro[e]
  BY FillFacts
<1>2. /\ putters # <<>> /\ putters' = Tail(putters) /\ v \in Puts /\ coro[v] = "waiting"
      /\ arrivals' = arrivals
  BY TakeFacts
<1>3. getters' = getters
  BY DEF Fill
<1>4. \A q \in Puts : q # v /\ coro[q] \in Unserved => Before(v, q)
  BY <1>0, <1>2, NextInLine
<1>5. b \in Int /\ \A i \in Window : i \in Int /\ i < b
  <2>1. \E n \in Capacities : buffer_index \in 0..n
    BY DEF Base, Typed
  <2>2. b \in Nat
    BY <2>1, ChannelAssumption
  <2>3. QED
    BY <2>2, FillFacts DEF Window
<1> HIDE DEF b, v
<1>6. Sorted(getters)' /\ Sorted(putters)'
  BY <1>2, <1>3, TailsSorted
<1>7. \A a, e : Before(a, e)' <=> Before(a, e)
  BY <1>2, SameOrder
<1>8. Distinct(arrivals)' /\ \A e \in Calls : InQueue(arrivals, e)' <=> coro'[e] # "idle"
  BY <1>1, <1>2, CallSets DEF Ordered
<1>9. \A p \in Puts : coro[p] = "resumed" => Before(p, v)
  BY <1>2 DEF Ordered, Unserved
<1>10. ASSUME NEW p \in Puts, NEW q \in Puts, coro'[p] = "resumed", coro'[q] \in Unserved
       PROVE  Before(p, q)'
  <2>1. q # v /\ coro[q] \in Unserved
    BY <1>1, <1>10, CallSets DEF Unserved
  <2>2. CASE p = v
    BY <1>4, <1>7, <2>1, <2>2
  <2>3. CASE p # v
    <3>1. coro[p] = "resumed"
      BY <1>1, <1>10, <2>3, CallSets
    <3>2. QED
      BY <1>7, <2>1, <3>1 DEF Ordered
  <2>4. QED
    BY <2>2, <2>3
<1>11. \A g, h \in Getters : result'[g] # None /\ coro'[h] \in Unserved => Before(g, h)'
  <2>1. \A h \in Getters : coro'[h] = coro[h]
    BY <1>1, <1>2, CallSets
  <2>2. QED
    BY <1>1, <1>7, <2>1 DEF Ordered
<1>12. ASSUME NEW g \in Getters, NEW i \in Window', result'[g] # None
       PROVE  Before(result'[g], buffer_nodes'[i])
  <2>1. CASE i \in Window
    BY <1>1, <1>12, <2>1 DEF Ordered
  <2>2. CASE i = b
    <3>1. result \in [Getters -> Puts \cup {None}]
      BY DEF Base, Typed
    <3>2. result[g] \in Puts /\ coro[result[g]] = "resumed"
      BY <1>1, <1>12, <3>1 DEF Given
    <3>3. QED
      BY <1>1, <1>9, <2>2, <3>2
  <2>3. QED
    BY <1>1, <2>1, <2>2
<1>13. \A g \in Getters : \A i \in Window' :
          result'[g] # None => Before(result[g], buffer_nodes[i])'
  BY <1>2, <1>12 DEF Before
<1>14. ASSUME NEW i \in Window', NEW j \in Window', i < j
       PROVE  Before(buffer_nodes'[i], buffer_nodes'[j])
  <2>1. i \in Window
    BY <1>1, <1>5, <1>14
  <2>2. CASE j \in Window
    BY <1>1, <1>14, <2>1, <2>2 DEF Ordered
  <2>3. CASE j = b
    <3>1. buffer_nodes[i] \in Puts /\ coro[buffer_nodes[i]] = "resumed"
      BY <2>1 DEF Given
    <3>2. QED
      BY <1>1, <1>9, <2>1, <2>3, <3>1
  <2>4. QED
    BY <1>1, <2>2, <2>3
<1>15. \A i, j \in Window' : i < j => Before(buffer_nodes[i], buffer_nodes[j])'
  BY <1>2, <1>14 DEF Before
<1>16. \A g, h \in Getters : result'[g] # None /\ result'[h] # None /\ Before(g, h)'
          => Before(result[g], result[h])'
  BY <1>1, <1>7 DEF Ordered
<1>17. QED
  BY <1>6, <1>8, <1>10, <1>11, <1>13, <1>15, <1>16 DEF Ordered

\* Every step keeps the order.
LEMMA OrderedStep == Base /\ Numbers /\ Given /\ Ordered /\ [Next]_vars => Ordered'
<1> SUFFICES ASSUME Base, Numbers, Given, Ordered, [Next]_vars PROVE Ordered'
  OBVIOUS
<1>1. CASE UNCHANGED vars
  BY <1>1, StillOrdered DEF vars, queues
<1>2. CASE Destroy
  BY <1>2, DestroyOrdered
<1>3. ASSUME NEW c \in Calls, Begin(c) PROVE Ordered'
  BY <1>3, BeginOrdered
<1>4. ASSUME NEW c \in Calls, BlockStep(c) PROVE Ordered'
  <2>1. CASE Still(c)
    BY <2>1, StillFacts, StillOrdered DEF queues
  <2>2. CASE QueueOrNull(c)
    BY <2>2, StillOrdered DEF QueueOrNull
  <2>3. CASE ResumeOrNull(c)
    BY <2>3, ResumeOrdered
  <2>4. CASE GiveBuffered(c) \/ HandOver(c)
    BY <2>4, BufferedOrdered, HandOverOrdered
  <2>5. CASE Fill(c)
    <3>1. CASE buffer_index \in DOMAIN buffer_nodes
      BY <2>5, <3>1, FillOrdered
    <3>2. CASE buffer_index \notin DOMAIN buffer_nodes
      BY <2>5, <3>2, StillOrdered DEF Fill, calls
    <3>3. QED
      BY <3>1, <3>2
  <2>6. QED
    BY <1>4, <2>1, <2>2, <2>3, <2>4, <2>5, StepCases
<1>5. QED
  BY <1>1, <1>2, <1>3, <1>4 DEF Next

\* The order of the queues is the order of the results.
LEMMA OrderFollows ==
  ASSUME Base, Given, Ordered
  PROVE  InOrder
<1>1. /\ \A a, b : Before(a, b) => ~Before(b, a)
      /\ \A a, b : Before(a, b) => InQueue(arrivals, a) /\ InQueue(arrivals, b)
  BY BeforeOrder DEF Ordered
<1>2. ASSUME NEW a \in Calls, NEW b, Before(a, b), coro[a] # "resumed"
      PROVE  coro[a] \in Unserved
  <2>1. coro[a] \in {"idle", "waiting", "resumed", "twice", "cancelled"}
    BY DEF Base, Typed
  <2>2. coro[a] # "idle" /\ coro[a] # "twice"
    BY <1>1, <1>2 DEF Ordered, Base, Placed
  <2>3. QED
    BY <1>2, <2>1, <2>2 DEF Unserved
<1>3. ASSUME NEW g \in Gets, NEW h \in Gets, Before(g, h), result[h] # None, result[g] = None
      PROVE  FALSE
  <2>1. coro[g] # "resumed" /\ g \in Getters /\ h \in Getters /\ g \in Calls
    BY <1>3, CallSets DEF Given
  <2>2. coro[g] \in Unserved
    BY <1>2, <1>3, <2>1
  <2>3. Before(h, g)
    BY <1>3, <2>1, <2>2 DEF Ordered
  <2>4. QED
    BY <1>1, <1>3, <2>3
<1>4. ASSUME NEW p \in Puts, NEW q \in Puts, Before(p, q), coro[q] = "resumed",
             coro[p] # "resumed"
      PROVE  FALSE
  <2>1. coro[p] \in Unserved
    BY <1>2, <1>4, CallSets
  <2>2. Before(q, p)
    BY <1>4, <2>1 DEF Ordered
  <2>3. QED
    BY <1>1, <1>4, <2>2
<1>5. QED
  BY <1>3, <1>4 DEF InOrder, Ordered

\* Values arrive in the order in which they were put, whatever the number of
\* calls and threads and however the buffer and the direct transfers mix.
THEOREM ArriveInOrder ==
  OrNullThreadCounts \subseteq {1} => (Spec => []InOrder)
<1> SUFFICES ASSUME OrNullThreadCounts \subseteq {1} PROVE Spec => []InOrder
  OBVIOUS
<1> DEFINE I == Base /\ Numbers /\ Given /\ Ordered
<1>1. Init => I
  BY BaseInit, NumbersInit, GivenInit, OrderedInit
<1>2. I /\ [Next]_vars => I'
  BY BaseStep, NumbersStep, GivenStep, OrderedStep
<1>3. I => InOrder
  BY OrderFollows
<1>4. QED
  BY <1>1, <1>2, <1>3, PTL DEF Spec
-----------------------------------------------------------------------------
(* Nobody is stranded. *)

\* What is left to show of a step inside dispatch().
LEMMA SettledInside ==
  ASSUME Base, Settled, NEW c \in Calls, BlockStep(c), Inside(c), Inside(c)',
         need_dispatch' = need_dispatch, ~Announced /\ Known(c) => Known(c)'
  PROVE  Settled'
<1>1. /\ \A e \in Calls : e # c => d'[e] = d[e]
      /\ \A e \in Calls : e # c => ~Inside(e)
      /\ live /\ live' = live
  BY InsideStep, BlockFacts DEF Base, OneDispatcher
<1>2. \A e \in Calls : e # c => ~Inside(e)'
  BY <1>1 DEF Inside
<1>3. ASSUME ~Announced' PROVE ~Announced
  <2>1. need_dispatch # 1
    BY <1>3 DEF Announced
  <2>2. \A e \in Calls : d[e].pc \notin {"or_null", "need"}
    BY <1>1, <1>3 DEF Announced, Inside
  <2>3. QED
    BY <2>1, <2>2 DEF Announced
<1>4. ASSUME ~Announced' PROVE \A e \in Calls : Known(e)'
  <2>1. ~Announced /\ Known(c)
    BY <1>1, <1>3, <1>4 DEF Settled
  <2>2. Known(c)'
    BY <2>1
  <2>3. ASSUME NEW e \in Calls, e # c PROVE Known(e)'
    BY <1>2, <2>3 DEF Known, Inside, GetClaim, PutClaim
  <2>4. QED
    BY <2>2, <2>3
<1>5. QED
  BY <1>4 DEF Settled

\* A step that leaves somebody who has yet to look.
LEMMA SettledAnnounced == ASSUME Announced' PROVE Settled'
BY DEF Settled

\* The copies of the counts are the numbers.
LEMMA SettledClaim ==
  ASSUME Base, Numbers, Settled, NEW c \in Calls, Claim(c)
  PROVE  Settled'
<1>1. BlockStep(c)
  BY DEF BlockStep, Dispatch
<1>2. d[c].pc \in {"sub_get", "sub_put", "buffer_sub", "direct_sub_get",
                   "direct_sub_put", "fill_sub"}
  BY DEF Claim, SubGet, SubPut, At
<1>3. Inside(c) /\ ~Count(c)
  BY <1>2 DEF Inside, Count, At
<1>4. /\ (d[c].pc \notin GetClaim /\ d[c].pc # "or_nulls") => get_count = G
      /\ d[c].pc \notin PutClaim => put_count = P
  BY <1>1, <1>3, InsideFacts, BlockFacts
<1>5. d \in [Calls -> DRec]
  BY DEF Base, Typed
<1>6. need_dispatch' = need_dispatch /\ getters' = getters /\ putters' = putters
  BY DEF Claim, SubGet, SubPut, queues, flags
<1>7. G' = G /\ P' = P
  <2>1. G' = G + Len(getters') - Len(getters) /\ P' = P + Len(putters') - Len(putters)
    BY <1>1, <1>3, MoveNumbers
  <2>2. QED
    BY <1>6, <2>1, QueueSizes
<1>8. \/ /\ d'[c].gets = get_count /\ d'[c].puts = d[c].puts
         /\ \/ d[c].pc = "sub_get" /\ d'[c].pc = "sub_put"
            \/ d[c].pc = "buffer_sub" /\ d'[c].pc = "from_buffer"
            \/ d[c].pc = "direct_sub_get" /\ d'[c].pc = "direct_sub_put"
      \/ /\ d'[c].puts = put_count /\ d'[c].gets = d[c].gets
         /\ \/ d[c].pc = "sub_put" /\ d'[c].pc = "from_buffer"
            \/ d[c].pc = "direct_sub_put" /\ d'[c].pc = "direct"
            \/ d[c].pc = "fill_sub" /\ d'[c].pc = "fill"
  <2>1. CASE \/ SubGet(c, "sub_get", "sub_put") \/ SubGet(c, "buffer_sub", "from_buffer")
             \/ SubGet(c, "direct_sub_get", "direct_sub_put")
    BY <1>5, <2>1 DEF SubGet, At, DRec
  <2>2. CASE \/ SubPut(c, "sub_put", "from_buffer") \/ SubPut(c, "direct_sub_put", "direct")
             \/ SubPut(c, "fill_sub", "fill")
    BY <1>5, <2>2 DEF SubPut, At, DRec
  <2>3. QED
    BY <2>1, <2>2 DEF Claim
<1>9. Inside(c)'
  BY <1>8 DEF Inside
<1>10. ASSUME Known(c) PROVE Known(c)'
  BY <1>4, <1>7, <1>8, <1>10 DEF Known, GetClaim, PutClaim
<1>11. QED
  BY <1>1, <1>3, <1>6, <1>9, <1>10, SettledInside

\* The steps that end a loop or undo a claim.
LEMMA SettledPass ==
  ASSUME Base, Numbers, Settled, NEW c \in Calls,
         BufferDone(c) \/ DirectDone(c) \/ FillDone(c) \/ UnclaimGet(c) \/ UnclaimPut(c)
           \/ OrNullsDone(c)
  PROVE  Settled'
<1> USE DEF At, GoTo
<1>1. BlockStep(c)
  BY DEF BlockStep, Dispatch
<1>2. d[c].pc \in {"from_buffer", "direct", "fill", "add_get", "add_put", "or_nulls"}
  BY DEF BufferDone, DirectDone, FillDone, UnclaimGet, UnclaimPut, OrNullsDone
<1>3. Inside(c) /\ ~Count(c)
  BY <1>2 DEF Inside, Count
<1>4. /\ Local(c) /\ G \in Int /\ P \in Int /\ G >= 0 /\ P >= 0
  BY <1>1, <1>3, InsideFacts, BlockFacts
<1>5. d \in [Calls -> DRec]
  BY DEF Base, Typed
<1>6. UNCHANGED queues /\ UNCHANGED flags /\ UNCHANGED buffer
  BY DEF BufferDone, DirectDone, FillDone, UnclaimGet, UnclaimPut, OrNullsDone
<1>7. UNCHANGED <<getters, putters, or_null_queue, need_dispatch, buffer_nodes, buffer_len>>
  BY <1>6 DEF queues, flags, buffer
<1>8. G' = G /\ P' = P /\ capacity' = capacity
  <2>1. G' = G + Len(getters') - Len(getters) /\ P' = P + Len(putters') - Len(putters)
    BY <1>1, <1>3, MoveNumbers
  <2>2. QED
    BY <1>7, <2>1, QueueSizes DEF capacity
<1>9. \/ /\ d'[c].gets = d[c].gets /\ d'[c].puts = d[c].puts
         /\ \/ d[c].pc = "from_buffer" /\ d'[c].pc = "add_get" /\ buffer_len # 0 /\ d[c].gets = 0
            \/ d[c].pc = "from_buffer" /\ d'[c].pc = "direct"
            \/ d[c].pc = "direct" /\ d'[c].pc = "fill"
            \/ d[c].pc = "fill" /\ d'[c].pc = "add_get" /\ (buffer_len = capacity \/ d[c].puts = 0)
      \/ d[c].pc = "add_get" /\ d'[c].pc = "add_put" /\ d'[c].puts = d[c].puts
      \/ d[c].pc = "add_put" /\ d'[c].pc = "or_nulls"
      \/ d[c].pc = "or_nulls" /\ d'[c].pc = "test" /\ or_null_queue = <<>>
  <2>1. CASE BufferDone(c) \/ DirectDone(c) \/ FillDone(c)
    BY <1>5, <2>1 DEF BufferDone, DirectDone, FillDone, DRec
  <2>2. CASE UnclaimGet(c) \/ UnclaimPut(c) \/ OrNullsDone(c)
    BY <1>5, <2>2 DEF UnclaimGet, UnclaimPut, OrNullsDone, DRec
  <2>3. QED
    BY <2>1, <2>2
<1>10. Inside(c)'
  BY <1>9 DEF Inside
<1>11. buffer_len \in Nat /\ (capacity \in {0, 1} => buffer_len <= capacity)
  <2>1. PICK n \in Capacities : /\ buffer_nodes \in [0..(n - 1) -> Puts \cup {None}]
                                /\ buffer_index \in 0..n
    BY DEF Base, Typed
  <2>2. n \in Nat /\ DOMAIN buffer_nodes = 0..(n - 1)
    BY <2>1, ChannelAssumption
  <2>3. Cardinality(0..(n - 1)) = n
    BY <2>2, FS_Interval
  <2>4. capacity = n
    BY <2>2, <2>3 DEF capacity
  <2>5. buffer_len \in 0..buffer_index
    BY DEF Base, Typed
  <2>6. QED
    BY <2>1, <2>2, <2>4, <2>5
<1>12. Done' <=> Done
  BY <1>7, <1>8 DEF Done
<1>13. ASSUME Known(c) PROVE Known(c)'
  <2>1. CASE d[c].pc = "from_buffer" /\ d'[c].pc = "add_get"
    <3>1. G = 0 /\ d'[c].gets = G /\ d'[c].puts = P /\ buffer_len # 0
      BY <1>9, <1>13, <2>1 DEF Known, GetClaim, PutClaim
    <3>2. Done
      BY <1>11, <3>1 DEF Done
    <3>3. QED
      BY <1>8, <1>12, <2>1, <3>1, <3>2 DEF Known, GetClaim, PutClaim
  <2>2. CASE d[c].pc = "fill"
    <3>1. /\ d'[c].pc = "add_get" /\ d[c].gets = G /\ d[c].puts = P
          /\ d'[c].gets = d[c].gets /\ d'[c].puts = d[c].puts
          /\ (buffer_len = capacity \/ d[c].puts = 0)
          /\ (d[c].gets = 0 \/ (d[c].puts = 0 /\ buffer_len = 0))
      BY <1>4, <1>9, <1>13, <2>2 DEF Known, GetClaim, PutClaim, Local
    <3>2. Done
      BY <1>4, <3>1 DEF Done
    <3>3. QED
      BY <1>8, <1>12, <3>1, <3>2 DEF Known, GetClaim, PutClaim
  <2>3. CASE d'[c].pc \in {"direct", "fill"}
    BY <1>8, <1>9, <1>13, <2>3 DEF Known, GetClaim, PutClaim
  <2>4. CASE d[c].pc \in {"add_get", "add_put", "or_nulls"}
    <3>1. Done
      BY <1>13, <2>4 DEF Known
    <3>2. QED
      BY <1>7, <1>8, <1>9, <1>12, <1>13, <2>4, <3>1 DEF Known, GetClaim, PutClaim
  <2>5. QED
    BY <1>9, <2>1, <2>2, <2>3, <2>4
<1>14. QED
  BY <1>1, <1>3, <1>7, <1>10, <1>13, SettledInside

\* The steps that move values.
LEMMA SettledMove ==
  ASSUME Base, Numbers, Settled, NEW c \in Calls,
         GiveBuffered(c) \/ HandOver(c) \/ Fill(c) \/ ResumeOrNull(c)
  PROVE  Settled'
<1> USE DEF At, GoTo
<1>1. BlockStep(c)
  BY DEF BlockStep, Dispatch
<1>2. d[c].pc \in {"from_buffer", "direct", "fill", "or_nulls"}
  BY DEF GiveBuffered, HandOver, Fill, ResumeOrNull
<1>3. Inside(c) /\ ~Count(c)
  BY <1>2 DEF Inside, Count
<1>4. /\ G \in Int /\ P \in Int /\ G >= 0 /\ P >= 0
  BY <1>1, <1>3, InsideFacts, BlockFacts
<1>5. d \in [Calls -> DRec]
  BY DEF Base, Typed
<1>6. need_dispatch' = need_dispatch
  BY DEF GiveBuffered, HandOver, Fill, ResumeOrNull, flags
<1>7. G' = G + Len(getters') - Len(getters) /\ P' = P + Len(putters') - Len(putters)
  BY <1>1, <1>3, MoveNumbers
<1>8. CASE GiveBuffered(c)
  <2>1. d[c].pc = "from_buffer" /\ d'[c].pc = "buffer_sub" /\ d'[c].puts = d[c].puts
    BY <1>5, <1>8 DEF GiveBuffered, DRec
  <2>2. putters' = putters
    BY <1>8 DEF GiveBuffered
  <2>3. P' = P
    BY <1>7, <2>2, QueueSizes
  <2>4. Known(c) => Known(c)'
    BY <2>1, <2>3 DEF Known, GetClaim, PutClaim
  <2>5. Inside(c)'
    BY <2>1 DEF Inside
  <2>6. QED
    BY <1>1, <1>3, <1>6, <2>4, <2>5, SettledInside
<1>9. CASE HandOver(c)
  <2>1. d'[c].pc = "direct_sub_get"
    BY <1>5, <1>9 DEF HandOver, DRec
  <2>2. Known(c)' /\ Inside(c)'
    BY <2>1 DEF Known, GetClaim, PutClaim, Inside
  <2>3. QED
    BY <1>1, <1>3, <1>6, <2>2, SettledInside
<1>10. CASE Fill(c)
  <2>1. d[c].pc = "fill" /\ getters' = getters
    BY <1>10 DEF Fill
  <2>2. G' = G
    BY <1>7, <2>1, QueueSizes
  <2>3. CASE buffer_index \in DOMAIN buffer_nodes
    <3>1. d'[c].pc = "fill_sub" /\ d'[c].gets = d[c].gets
      BY <1>5, <1>10, <2>3 DEF Fill, DRec
    <3>2. (Known(c) => Known(c)') /\ Inside(c)'
      BY <2>1, <2>2, <3>1 DEF Known, GetClaim, PutClaim, Inside
    <3>3. QED
      BY <1>1, <1>3, <1>6, <3>2, SettledInside
  <2>4. CASE buffer_index \notin DOMAIN buffer_nodes
    <3>1. d' = d /\ putters' = putters
      BY <1>10, <2>4 DEF Fill
    <3>2. P' = P
      BY <1>7, <3>1, QueueSizes
    <3>3. (Known(c) => Known(c)') /\ Inside(c)'
      BY <1>3, <2>1, <2>2, <3>1, <3>2 DEF Known, GetClaim, PutClaim, Inside
    <3>4. QED
      BY <1>1, <1>3, <1>6, <3>3, SettledInside
  <2>5. QED
    BY <2>3, <2>4
<1>11. CASE ResumeOrNull(c)
  <2>1. d[c].pc = "or_nulls" /\ d'[c].pc = "or_nulls"
    BY <1>5, <1>11 DEF ResumeOrNull, DRec
  <2>2. /\ Len(getters') = Len(getters) - 1 /\ putters' = putters
        /\ UNCHANGED <<buffer_nodes, buffer_len>>
    BY <1>11, NullFacts DEF buffer
  <2>3. G' = G - 1 /\ P' = P /\ capacity' = capacity
    BY <1>4, <1>7, <2>2, QueueSizes DEF capacity
  <2>4. Done => Done'
    BY <1>4, <2>2, <2>3 DEF Done
  <2>5. (Known(c) => Known(c)') /\ Inside(c)'
    BY <2>1, <2>4 DEF Known, GetClaim, PutClaim, Inside
  <2>6. QED
    BY <1>1, <1>3, <1>6, <2>5, SettledInside
<1>12. QED
  BY <1>8, <1>9, <1>10, <1>11

\* Whoever is outside dispatch() has announced itself, or does so in time.
LEMMA SettledFlags ==
  ASSUME Base, Numbers, Settled, NEW c \in Calls,
         Count(c) \/ QueueOrNull(c) \/ SetNeed(c) \/ ClearNeed(c) \/ TestNeed(c) \/ Unlock(c)
  PROVE  Settled'
<1> USE DEF At, GoTo
<1>1. BlockStep(c)
  BY DEF BlockStep, Dispatch
<1>2. \A e \in Calls : e # c => d'[e] = d[e]
  BY <1>1, InsideStep DEF Base
<1>3. d \in [Calls -> DRec] /\ live /\ live' = live
  BY <1>1, BlockFacts DEF Base, Typed
<1>4. CASE Count(c) \/ QueueOrNull(c)
  <2>1. d'[c].pc \in {"or_null", "need"}
    BY <1>3, <1>4 DEF Count, QueueOrNull, DRec
  <2>2. QED
    BY <2>1, SettledAnnounced DEF Announced
<1>5. CASE SetNeed(c)
  <2>1. d'[c].pc = "lock" /\ need_dispatch' = 1
    BY <1>3, <1>5 DEF SetNeed, DRec
  <2>2. QED
    BY <2>1, SettledAnnounced DEF Announced
<1>6. ASSUME d'[c].pc = "sub_get", Inside(c)
      PROVE  Settled'
  <2>1. \A e \in Calls : e # c => ~Inside(e)
    BY <1>6 DEF Base, OneDispatcher
  <2>2. \A e \in Calls : Known(e)'
    BY <1>2, <1>6, <2>1 DEF Known, Inside, GetClaim, PutClaim
  <2>3. Inside(c)'
    BY <1>6 DEF Inside
  <2>4. QED
    BY <2>2, <2>3 DEF Settled
<1>7. CASE ClearNeed(c)
  <2>1. d'[c].pc = "sub_get" /\ Inside(c)
    BY <1>3, <1>7 DEF ClearNeed, DRec, Inside
  <2>2. QED
    BY <1>6, <2>1
<1>8. CASE TestNeed(c) \/ Unlock(c)
  <2>1. /\ d[c].pc \in {"test", "unlock"} /\ Inside(c) /\ ~Count(c)
        /\ UNCHANGED queues /\ UNCHANGED buffer
    BY <1>8 DEF TestNeed, Unlock, Inside, Count
  <2>2. UNCHANGED <<getters, putters, or_null_queue, buffer_nodes, buffer_len>>
    BY <2>1 DEF queues, buffer
  <2>3. G' = G /\ P' = P /\ capacity' = capacity
    <3>1. G' = G + Len(getters') - Len(getters) /\ P' = P + Len(putters') - Len(putters)
      BY <1>1, <2>1, MoveNumbers
    <3>2. QED
      BY <2>2, <3>1, QueueSizes DEF capacity
  <2>4. Done' <=> Done
    BY <2>2, <2>3 DEF Done
  <2>5. \A e \in Calls : e # c => ~Inside(e)
    BY <2>1 DEF Base, OneDispatcher
  <2>6. /\ need_dispatch \in {0, 1}
        /\ \/ d'[c].pc = "sub_get"
           \/ d'[c].pc = "unlock" /\ need_dispatch = 0
           \/ d'[c].pc = "recheck" /\ need_dispatch' = need_dispatch
    BY <1>3, <1>8 DEF TestNeed, Unlock, DRec, Base, Typed
  <2>7. CASE d'[c].pc = "sub_get"
    BY <1>6, <2>1, <2>7
  <2>8. CASE d'[c].pc # "sub_get"
    <3> SUFFICES ASSUME ~Announced' PROVE (\A e \in Calls : Known(e)') /\ Done' /\ or_null_queue' = <<>>
      BY DEF Settled
    <3>1. need_dispatch = 0
      BY <2>6, <2>8 DEF Announced
    <3>2. \A e \in Calls : d[e].pc \notin {"or_null", "need"}
      BY <1>2, <2>1 DEF Announced
    <3>3. ~Announced
      BY <3>1, <3>2 DEF Announced
    <3>4. Done /\ or_null_queue = <<>>
      BY <1>3, <2>1, <3>3 DEF Settled, Known
    <3>5. \A e \in Calls : e # c => Known(e)'
      BY <1>2, <2>5 DEF Known, Inside, GetClaim, PutClaim
    <3>6. Known(c)'
      BY <2>2, <2>4, <2>6, <2>8, <3>4 DEF Known, GetClaim, PutClaim
    <3>7. QED
      BY <2>2, <2>4, <3>4, <3>5, <3>6
  <2>9. QED
    BY <2>7, <2>8
<1>9. QED
  BY <1>4, <1>5, <1>7, <1>8

\* A step outside dispatch() that announces nothing and stops nothing.
LEMMA SettledOutside ==
  ASSUME Base, Settled, NEW c \in Calls, ~Inside(c), ~Inside(c)', live,
         \A e \in Calls : e # c => d'[e] = d[e],
         UNCHANGED <<or_null_queue, buffer_nodes, buffer_len>>, G' = G, P' = P,
         ~Announced' => ~Announced
  PROVE  Settled'
<1> SUFFICES ASSUME ~Announced', live'
             PROVE  /\ \A e \in Calls : Known(e)'
                    /\ (\A e \in Calls : ~Inside(e)') => Done' /\ or_null_queue' = <<>>
  BY DEF Settled
<1>1. /\ \A e \in Calls : Known(e)
      /\ (\A e \in Calls : ~Inside(e)) => Done /\ or_null_queue = <<>>
  BY DEF Settled
<1>2. capacity' = capacity
  BY DEF capacity
<1>3. Done' <=> Done
  BY <1>2 DEF Done
<1>4. ASSUME NEW e \in Calls, e # c PROVE Known(e)'
  BY <1>1, <1>3, <1>4 DEF Known
<1>5. Known(c)'
  BY DEF Known, Inside, GetClaim, PutClaim
<1>6. (\A e \in Calls : ~Inside(e)') => \A e \in Calls : ~Inside(e)
  BY DEF Inside
<1>7. QED
  BY <1>1, <1>3, <1>4, <1>5, <1>6

\* Coming, entering and leaving.
LEMMA SettledCome ==
  ASSUME Base, Numbers, Settled, NEW c \in Calls, Begin(c) \/ Lock(c) \/ Recheck(c)
  PROVE  Settled'
<1>1. /\ \A e \in Calls : e # c => d'[e] = d[e]
      /\ live /\ d \in [Calls -> DRec] /\ need_dispatch \in {0, 1}
  BY InsideStep, BeginFacts, BlockFacts DEF Base, Typed, BlockStep, Dispatch
<1>2. UNCHANGED <<or_null_queue, buffer_nodes, buffer_len, need_dispatch>>
  BY DEF Begin, Lock, Recheck, queues, buffer, flags
<1>3. G' = G /\ P' = P
  <2>1. CASE Begin(c)
    BY <2>1, BeginNumbers
  <2>2. CASE Lock(c) \/ Recheck(c)
    <3>1. BlockStep(c) /\ ~Count(c) /\ getters' = getters /\ putters' = putters
      BY <2>2 DEF BlockStep, Dispatch, Lock, Recheck, Count, At, queues
    <3>2. G' = G + Len(getters') - Len(getters) /\ P' = P + Len(putters') - Len(putters)
      BY <3>1, MoveNumbers
    <3>3. QED
      BY <3>1, <3>2, QueueSizes
  <2>3. QED
    BY <2>1, <2>2
<1>4. CASE Begin(c)
  <2>1. d[c].pc = "none" /\ d'[c].pc = "count"
    BY <1>4, BeginFacts
  <2>2. ~Inside(c) /\ ~Inside(c)'
    BY <2>1 DEF Inside
  <2>3. Announced => Announced'
    BY <1>1, <1>2, <2>1, <2>2 DEF Announced, Inside
  <2>4. QED
    BY <1>1, <1>2, <1>3, <2>2, <2>3, SettledOutside
<1>5. CASE Recheck(c)
  <2>1. d[c].pc = "recheck" /\ d'[c].pc = IF need_dispatch # 0 THEN "lock" ELSE "none"
    BY <1>1, <1>5 DEF Recheck, At, Out, DRec
  <2>2. ~Inside(c) /\ ~Inside(c)'
    BY <2>1 DEF Inside
  <2>3. Announced => Announced'
    <3>1. CASE need_dispatch = 1
      BY <1>2, <2>1, <3>1 DEF Announced
    <3>2. CASE need_dispatch = 0
      BY <1>1, <1>2, <2>1, <3>2 DEF Announced
    <3>3. QED
      BY <1>1, <3>1, <3>2
  <2>4. QED
    BY <1>1, <1>2, <1>3, <2>2, <2>3, SettledOutside
<1>6. CASE Lock(c) /\ dispatch_lock # 0
  <2>1. d[c].pc = "lock" /\ d'[c].pc = "none"
    BY <1>1, <1>6 DEF Lock, At, Out
  <2>2. ~Inside(c) /\ ~Inside(c)'
    BY <2>1 DEF Inside
  <2>3. PICK e \in Calls : Inside(e)
    BY <1>6 DEF Base, OneDispatcher, Typed
  <2>4. Inside(e)'
    BY <1>1, <2>2, <2>3 DEF Inside
  <2>5. Announced => Announced'
    <3>1. CASE need_dispatch = 1
      BY <1>2, <2>4, <3>1 DEF Announced
    <3>2. CASE need_dispatch = 0
      BY <1>1, <1>2, <2>1, <3>2 DEF Announced
    <3>3. QED
      BY <1>1, <3>1, <3>2
  <2>6. QED
    BY <1>1, <1>2, <1>3, <2>2, <2>5, SettledOutside
<1>7. CASE Lock(c) /\ dispatch_lock = 0
  <2>1. d'[c].pc = "clear"
    BY <1>1, <1>7 DEF Lock, At, DRec
  <2>2. \A e \in Calls : ~Inside(e)
    BY <1>7 DEF Base, OneDispatcher
  <2>3. \A e \in Calls : Known(e)'
    BY <1>1, <2>1, <2>2 DEF Known, Inside, GetClaim, PutClaim
  <2>4. Inside(c)'
    BY <2>1 DEF Inside
  <2>5. QED
    BY <2>3, <2>4 DEF Settled
<1>8. QED
  BY <1>4, <1>5, <1>6, <1>7

\* Nobody waits at a new channel.
LEMMA SettledInit == Init => Settled
<1> SUFFICES ASSUME Init PROVE (\A c \in Calls : Known(c)) /\ Done /\ or_null_queue = <<>>
  BY DEF Settled
<1>1. /\ \A c \in Calls : d[c].pc = "none"
      /\ or_null_queue = <<>> /\ getters = <<>> /\ putters = <<>>
  BY DEF Init, Out
<1>2. G <= Len(getters) /\ P <= Len(putters) /\ G \in Int /\ P \in Int
  BY BaseInit, QueueSizes
<1>3. Len(getters) = 0 /\ Len(putters) = 0
  BY <1>1
<1>4. ~(G >= 1) /\ ~(P >= 1)
  BY <1>2, <1>3
<1>5. Done
  BY <1>4 DEF Done
<1>6. QED
  BY <1>1, <1>5 DEF Known, GetClaim, PutClaim

\* Every step leaves either nothing to do or somebody to do it.
LEMMA SettledStep == Base /\ Numbers /\ Settled /\ [Next]_vars => Settled'
<1> SUFFICES ASSUME Base, Numbers, Settled, [Next]_vars PROVE Settled'
  OBVIOUS
<1>1. CASE UNCHANGED vars
  <2>1. UNCHANGED <<d, getters, putters, or_null_queue, need_dispatch, buffer_nodes, buffer_len, live>>
    BY <1>1 DEF vars, queues, flags, buffer, env
  <2>2. G' = G /\ P' = P /\ capacity' = capacity
    BY <2>1 DEF G, P, Uncounted, capacity
  <2>3. (\A c \in Calls : Inside(c)' <=> Inside(c)) /\ (Done' <=> Done)
    BY <2>1, <2>2 DEF Inside, Done
  <2>4. Announced' <=> Announced
    BY <2>1, <2>3 DEF Announced
  <2>5. \A c \in Calls : Known(c) => Known(c)'
    BY <2>1, <2>2, <2>3 DEF Known
  <2>6. QED
    BY <2>1, <2>3, <2>4, <2>5 DEF Settled
<1>2. CASE Destroy
  BY <1>2 DEF Destroy, Settled
<1>3. ASSUME NEW c \in Calls, Begin(c) \/ BlockStep(c) PROVE Settled'
  BY <1>3, SettledCome, SettledFlags, SettledClaim, SettledPass, SettledMove DEF BlockStep, Dispatch
<1>4. QED
  BY <1>1, <1>2, <1>3 DEF Next

\* When all threads are out nobody is left to look.
LEMMA StrandedFollows ==
  ASSUME Capacities \subseteq {0, 1}, Base, Settled
  PROVE  NobodyStranded
<1> SUFFICES ASSUME Quiet, live
             PROVE  /\ getters # <<>> => putters = <<>> /\ buffer_len = 0
                    /\ putters # <<>> => buffer_len = capacity
                    /\ \A n \in OrNulls : coro[n] # "waiting"
  BY DEF NobodyStranded
<1>1. \A c \in Calls : d[c].pc = "none"
  BY DEF Quiet
<1>2. ~Announced /\ \A c \in Calls : ~Inside(c)
  BY <1>1 DEF Announced, Inside
<1>3. Done /\ or_null_queue = <<>>
  BY <1>2 DEF Settled
<1>4. G = Len(getters) /\ P = Len(putters)
  <2>1. {e \in Getters : d[e].pc = "count"} = {} /\ {e \in Puts : d[e].pc = "count"} = {}
    BY <1>1, CallSets
  <2>2. Uncounted(Getters) = 0 /\ Uncounted(Puts) = 0
    BY <2>1, FS_EmptySet DEF Uncounted
  <2>3. QED
    BY <2>2, QueueSizes DEF G, P
<1>5. /\ getters # <<>> => G >= 1
      /\ putters # <<>> <=> P >= 1
      /\ P = 0 => putters = <<>>
  <2>1. getters \in Seq(Getters) /\ putters \in Seq(Puts)
    BY DEF Base, Typed
  <2>2. /\ getters # <<>> => Len(getters) >= 1
        /\ putters # <<>> <=> Len(putters) >= 1
        /\ Len(putters) = 0 => putters = <<>>
    BY <2>1
  <2>3. QED
    BY <1>4, <2>2
<1>6. capacity \in {0, 1}
  <2>1. PICK n \in Capacities : buffer_nodes \in [0..(n - 1) -> Puts \cup {None}]
    BY DEF Base, Typed
  <2>2. n \in Nat /\ n \in {0, 1} /\ DOMAIN buffer_nodes = 0..(n - 1)
    BY <2>1, ChannelAssumption
  <2>3. Cardinality(0..(n - 1)) = n
    BY <2>2, FS_Interval
  <2>4. QED
    BY <2>2, <2>3 DEF capacity
<1>7. \A n \in OrNulls : coro[n] # "waiting"
  <2>1. \A x : ~InQueue(or_null_queue, x)
    BY <1>3, EmptyQueue
  <2>2. QED
    BY <1>1, <2>1, CallSets DEF Base, OrNullsQueued
<1>8. QED
  BY <1>3, <1>5, <1>6, <1>7 DEF Done

\* When every thread has left dispatch() nobody waits for what is there, for
\* any number of calls and threads, on a channel without a buffer or with one
\* place in it.  (With more places dispatch() can leave some of them empty.)
THEOREM NobodyIsStranded ==
  OrNullThreadCounts \subseteq {1} /\ Capacities \subseteq {0, 1} => (Spec => []NobodyStranded)
<1> SUFFICES ASSUME OrNullThreadCounts \subseteq {1}, Capacities \subseteq {0, 1}
             PROVE  Spec => []NobodyStranded
  OBVIOUS
<1> DEFINE I == Base /\ Numbers /\ Settled
<1>1. Init => I
  BY BaseInit, NumbersInit, SettledInit
<1>2. I /\ [Next]_vars => I'
  BY BaseStep, NumbersStep, SettledStep
<1>3. I => NobodyStranded
  BY StrandedFollows
<1>4. QED
  BY <1>1, <1>2, <1>3, PTL DEF Spec

\* With one thread nobody announces anything while it moves values.
Undisturbed ==
  num_threads = 1 => \A c \in Calls : Inside(c) /\ d[c].pc # "clear" => need_dispatch = 0

\* With one thread no call begins while another one is inside.
LEMMA UndisturbedStep == Base /\ Undisturbed /\ [Next]_vars => Undisturbed'
<1> SUFFICES ASSUME Base, Undisturbed, [Next]_vars PROVE Undisturbed'
  OBVIOUS
<1>1. CASE UNCHANGED <<d, need_dispatch, num_threads>>
  BY <1>1 DEF Undisturbed, Inside
<1>2. ASSUME NEW c \in Calls, Begin(c) PROVE Undisturbed'
  <2>1. /\ d'[c].pc = "count" /\ num_threads' = num_threads /\ need_dispatch' = need_dispatch
        /\ \A e \in Calls : e # c => d'[e] = d[e]
    BY <1>2, BeginFacts, InsideStep DEF Base, Begin, flags
  <2>2. QED
    BY <2>1 DEF Undisturbed, Inside
<1>3. ASSUME NEW c \in Calls, BlockStep(c) PROVE Undisturbed'
  <2> SUFFICES ASSUME num_threads = 1, NEW e \in Calls, Inside(e)', d'[e].pc # "clear"
               PROVE  need_dispatch' = 0
    BY <1>3, BlockFacts DEF Undisturbed
  <2>1. e = c
    <3>1. c \in Busy /\ \A x \in Calls : x # c => d'[x] = d[x]
      BY <1>3, BlockFacts, InsideStep DEF Base
    <3>2. e # c => e \in Busy
      BY <3>1 DEF Busy, Inside
    <3>3. QED
      BY <3>1, <3>2 DEF Base, Placed
  <2>2. d \in [Calls -> DRec] /\ need_dispatch \in {0, 1}
    BY DEF Base, Typed
  <2>3. CASE ClearNeed(c) \/ TestNeed(c)
    BY <2>3 DEF ClearNeed, TestNeed
  <2>4. CASE Lock(c) \/ SetNeed(c)
    <3>1. d'[c].pc \in {"clear", "none", "lock"}
      BY <2>2, <2>4 DEF Lock, SetNeed, At, GoTo, Out, DRec
    <3>2. QED
      BY <2>1, <3>1 DEF Inside
  <2>5. CASE ~ClearNeed(c) /\ ~TestNeed(c) /\ ~Lock(c) /\ ~SetNeed(c)
    <3>1. Inside(c)
      <4>1. Unlock(c) => ~Inside(c)'
        BY <2>2 DEF Unlock, GoTo, Inside, DRec
      <4>2. QED
        BY <1>3, <2>1, <2>5, <4>1, InsideStep DEF Base
    <3>2. d[c].pc # "clear"
      <4>1. ASSUME d[c].pc = "clear" PROVE FALSE
        BY <1>3, <2>5, <4>1 DEF BlockStep, Dispatch, At, Count, QueueOrNull, Unlock, Recheck,
           Claim, SubGet, SubPut, UnclaimGet, UnclaimPut, GiveBuffered, BufferDone, HandOver,
           DirectDone, Fill, FillDone, ResumeOrNull, OrNullsDone
      <4>2. QED
        BY <4>1
    <3>3. need_dispatch' = need_dispatch
      BY <1>3, <2>5 DEF BlockStep, Dispatch, flags, Count, QueueOrNull, Unlock, Recheck,
         Claim, SubGet, SubPut, UnclaimGet, UnclaimPut, GiveBuffered, BufferDone, HandOver,
         DirectDone, Fill, FillDone, ResumeOrNull, OrNullsDone
    <3>4. QED
      BY <3>1, <3>2, <3>3 DEF Undisturbed
  <2>6. QED
    BY <2>3, <2>4, <2>5
<1>4. QED
  BY <1>1, <1>2, <1>3 DEF Next, Destroy, vars, flags, env

\* Nothing is there when the nodes of getOrNull() are resumed.
LEMMA ResumedEmpty ==
  ASSUME Base, Settled, Undisturbed, NEW c \in Calls, ResumeOrNull(c)
  PROVE  putters = <<>> /\ buffer_len = 0
<1>1. d[c].pc = "or_nulls" /\ Inside(c)
  BY DEF ResumeOrNull, At, Inside
<1>2. num_threads = 1 /\ InQueue(getters, Head(or_null_queue))
  BY NullFacts
<1>3. c \in Busy /\ live
  BY BlockFacts DEF BlockStep, Dispatch
<1>4. need_dispatch = 0
  BY <1>1, <1>2 DEF Undisturbed
<1>5. \A e \in Calls : d[e].pc \notin {"or_null", "need"}
  BY <1>1, <1>2, <1>3 DEF Base, Placed, Busy
<1>6. ~Announced
  BY <1>4, <1>5 DEF Announced
<1>7. Done
  BY <1>1, <1>3, <1>6 DEF Settled, Known
<1>8. G = Len(getters) /\ P = Len(putters)
  BY <1>1, <1>2, AllCounted
<1>9. Len(getters) >= 1
  BY <1>2, QueueSizes DEF InQueue
<1>10. Len(putters) = 0 /\ buffer_len = 0
  BY <1>7, <1>8, <1>9 DEF Done
<1>11. QED
  BY <1>10 DEF Base, Typed

\* getOrNull() returns null only if the buffer is empty and no put waits, for
\* any number of calls, however they interleave with the others on the loop's
\* one thread.
THEOREM NullOnlyIfEmpty ==
  OrNullThreadCounts \subseteq {1} => (Spec => NullMeansEmpty)
<1> SUFFICES ASSUME OrNullThreadCounts \subseteq {1} PROVE Spec => NullMeansEmpty
  OBVIOUS
<1> DEFINE I == Base /\ Numbers /\ Given /\ Settled /\ Undisturbed
           A == \A n \in OrNulls :
                  /\ num_threads = 1
                  /\ coro[n] = "waiting" /\ coro'[n] = "resumed" /\ result'[n] = None
                  => putters = <<>> /\ buffer_len = 0
<1>1. Init => I
  <2>1. Init => Undisturbed
    BY DEF Init, Undisturbed
  <2>2. QED
    BY <2>1, BaseInit, NumbersInit, GivenInit, SettledInit
<1>2. I /\ [Next]_vars => I'
  BY BaseStep, NumbersStep, GivenStep, SettledStep, UndisturbedStep
<1>3. I /\ [Next]_vars => [A]_vars
  <2> SUFFICES ASSUME I, Next, NEW n \in OrNulls,
                      coro[n] = "waiting", coro'[n] = "resumed", result'[n] = None
               PROVE  putters = <<>> /\ buffer_len = 0
    OBVIOUS
  <2>0. n \in Calls /\ n \in Getters /\ n \notin Puts
    BY CallSets
  <2>1. ASSUME NEW c \in Calls, BlockStep(c), ~ResumeOrNull(c) PROVE FALSE
    <3>1. CASE coro' = coro
      BY <3>1
    <3>2. CASE GiveBuffered(c)
      <4>1. PICK w : /\ w \in Window /\ result' = [result EXCEPT ![Head(getters)] = buffer_nodes[w]]
                     /\ \A e \in Calls : coro'[e] = IF e = Head(getters) THEN "resumed" ELSE coro[e]
        BY <3>2, BufferedFacts
      <4>2. n = Head(getters)
        BY <2>0, <4>1
      <4>3. result'[n] = buffer_nodes[w]
        BY <2>0, <4>1, <4>2 DEF Base, Typed
      <4>4. QED
        BY <4>1, <4>3, ChannelAssumption DEF Given
    <3>3. CASE HandOver(c)
      <4>1. /\ result' = [result EXCEPT ![Head(getters)] = Head(putters)]
            /\ \A e \in Calls : coro'[e] = IF e \in {Head(getters), Head(putters)}
                                            THEN "resumed" ELSE coro[e]
            /\ Head(putters) \in Puts
        BY <3>3, HandOverFacts, TakeFacts
      <4>2. n = Head(getters)
        BY <2>0, <4>1
      <4>3. result'[n] = Head(putters)
        BY <2>0, <4>1, <4>2 DEF Base, Typed
      <4>4. QED
        BY <4>1, <4>3, ChannelAssumption
    <3>4. CASE Fill(c) /\ buffer_index \in DOMAIN buffer_nodes
      <4>1. /\ \A e \in Calls : coro'[e] = IF e = Head(putters) THEN "resumed" ELSE coro[e]
            /\ Head(putters) \in Puts
        BY <3>4, FillFacts, TakeFacts
      <4>2. QED
        BY <2>0, <4>1
    <3>5. CASE Fill(c) /\ buffer_index \notin DOMAIN buffer_nodes
      BY <3>1, <3>5 DEF Fill
    <3>6. CASE Still(c) \/ QueueOrNull(c)
      BY <3>1, <3>6, StillFacts DEF QueueOrNull, calls
    <3>7. QED
      BY <2>1, <3>2, <3>3, <3>4, <3>5, <3>6, StepCases
  <2>2. ASSUME NEW c \in Calls, Begin(c) PROVE FALSE
    <3>1. coro' = [coro EXCEPT ![c] = "waiting"] /\ coro[c] = "idle"
      BY <2>2, BeginFacts
    <3>2. QED
      BY <2>0, <3>1 DEF Base, Typed
  <2>3. CASE Destroy
    BY <2>0, <2>3 DEF Destroy
  <2>4. QED
    BY <2>1, <2>2, <2>3, ResumedEmpty DEF Next
<1>4. QED
  BY <1>1, <1>2, <1>3, PTL DEF Spec, NullMeansEmpty
=============================================================================
