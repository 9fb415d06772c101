------------------------- MODULE AtomicQueueProofs -------------------------
(***************************************************************************)
(* std.atomic.Queue is a FIFO queue for any set of nodes, as long as       *)
(* unget is only called on an empty queue: on a non-empty one it is not    *)
(* (queue.zig:69).                                                         *)
(*                                                                         *)
(* The inductive invariant is the representation invariant WellLinked with *)
(* the types: the results of get() and remove() are read off the links, so *)
(* that they are right follows only from the links being right everywhere, *)
(* outside the queue too.                                                  *)
(***************************************************************************)
EXTENDS AtomicQueue, TLAPS

Inv == TypeOK /\ WellLinked

\* The initial queue is empty and every initialised node has null links.
LEMMA InitInv == Init => Inv
<1> SUFFICES ASSUME Init PROVE Inv
  OBVIOUS
<1>1. Len(contents) = 0 /\ contents \in Seq(Nodes)
  BY DEF Init
<1>2. TypeOK
  BY <1>1 DEF Init, TypeOK, EndsQueued, Outcomes
<1>3. WellLinked
  BY <1>1 DEF Init, WellLinked, Distinct, EndsRight, PrevRight, NextRight,
              QueuedInitialized, OutsideUnlinked, Queued
<1>4. QED
  BY <1>2, <1>3 DEF Inv

\* What CutAt does: the element at i disappears, the others keep their order.
LEMMA CutAtProperties ==
  ASSUME NEW S, NEW s \in Seq(S), NEW i \in 1..Len(s)
  PROVE  /\ CutAt(s, i) \in Seq(S)
         /\ Len(CutAt(s, i)) = Len(s) - 1
         /\ \A j \in 1..(Len(s) - 1) :
              CutAt(s, i)[j] = IF j < i THEN s[j] ELSE s[j + 1]
<1> DEFINE c == CutAt(s, i)
<1>1. Len(s) - 1 \in Nat
  OBVIOUS
<1>2. \A j \in 1..(Len(s) - 1) : (IF j < i THEN s[j] ELSE s[j + 1]) \in S
  OBVIOUS
<1>3. c \in [1..(Len(s) - 1) -> S]
  BY <1>2 DEF CutAt
<1>4. c \in Seq(S) /\ Len(c) = Len(s) - 1
  BY <1>1, <1>3
<1>5. QED
  BY <1>4 DEF CutAt

\* The invariant over the elements of the queue, without its definitions.
LEMMA InvFacts ==
  ASSUME Inv
  PROVE  /\ Len(contents) \in Nat
         /\ \A i \in 1..Len(contents) : contents[i] \in Nodes
         /\ prev \in [Nodes -> Nodes \cup {Null}]
         /\ next \in [Nodes -> Nodes \cup {Null}]
         /\ initialized \subseteq Nodes
         /\ Null \notin Nodes
         /\ Distinct /\ EndsRight /\ PrevRight /\ NextRight
         /\ QueuedInitialized /\ OutsideUnlinked
  BY QueueAssumption DEF Inv, TypeOK, WellLinked

\* Line 81 of queue.zig tells queued nodes from the others: a node looks
\* unqueued exactly when it is.
LEMMA LooksRight ==
  ASSUME Inv, NEW n \in initialized
  PROVE  LooksUnqueued(n) <=> ~Queued(n)
<1>1. ASSUME NEW i \in 1..Len(contents), contents[i] = n PROVE ~LooksUnqueued(n)
  <2>1. CASE i = 1
    BY <1>1, <2>1, InvFacts DEF LooksUnqueued, EndsRight
  <2>2. CASE i # 1
    BY <1>1, <2>2, InvFacts DEF LooksUnqueued, PrevRight
  <2>3. QED
    BY <2>1, <2>2
<1>2. ASSUME ~Queued(n) PROVE LooksUnqueued(n)
  <2>1. prev[n] = Null /\ next[n] = Null
    BY <1>2, InvFacts DEF OutsideUnlinked
  <2>2. head # n
    BY <1>2, InvFacts DEF EndsRight, Queued
  <2>3. QED
    BY <2>1, <2>2 DEF LooksUnqueued
<1>3. QED
  BY <1>1, <1>2 DEF Queued

\* The nodes that CutAt leaves queued.
LEMMA CutQueued ==
  ASSUME NEW n, NEW k \in 1..Len(contents), contents[k] = n, Distinct,
         contents \in Seq(Nodes), contents' = CutAt(contents, k)
  PROVE  \A m : Queued(m)' <=> Queued(m) /\ m # n
<1> DEFINE len == Len(contents)
<1>1. len \in Nat /\ k \in 1..len
  OBVIOUS
<1>2. /\ Len(contents') = len - 1
      /\ \A j \in 1..(len - 1) :
           contents'[j] = IF j < k THEN contents[j] ELSE contents[j + 1]
  BY CutAtProperties
<1>3. \A i \in 1..len : contents[i] = n => i = k
  BY DEF Distinct
<1> HIDE DEF len
<1>4. ASSUME NEW m, NEW i \in 1..len, contents[i] = m, m # n PROVE Queued(m)'
  <2>1. CASE i < k
    BY <1>1, <1>2, <1>4, <2>1 DEF Queued
  <2>2. CASE i > k
    <3>1. i - 1 \in 1..(len - 1) /\ contents'[i - 1] = m
      BY <1>1, <1>2, <1>4, <2>2
    <3>2. QED
      BY <1>2, <3>1 DEF Queued
  <2>3. i # k
    BY <1>4
  <2>4. QED
    BY <1>1, <2>1, <2>2, <2>3
<1>5. ASSUME NEW m, NEW j \in 1..(len - 1), contents'[j] = m
      PROVE  Queued(m) /\ m # n
  <2>1. CASE j < k
    BY <1>1, <1>2, <1>3, <1>5, <2>1 DEF Queued, len
  <2>2. CASE j >= k
    <3>1. j + 1 \in 1..len /\ contents[j + 1] = m /\ j + 1 # k
      BY <1>1, <1>2, <1>5, <2>2
    <3>2. QED
      BY <1>3, <3>1 DEF Queued, len
  <2>3. QED
    BY <1>1, <2>1, <2>2
<1>6. QED
  BY <1>2, <1>4, <1>5 DEF Queued, len

\* Unlinking the node at position k closes the gap, at either end and in the
\* middle: what get() and remove() have in common.
LEMMA UnlinkInv ==
  ASSUME Inv, NEW n \in Nodes, NEW k \in 1..Len(contents), contents[k] = n,
         head' = IF prev[n] = Null THEN next[n] ELSE head,
         tail' = IF next[n] = Null THEN prev[n] ELSE tail,
         next' = [Store(next, prev[n], next[n]) EXCEPT ![n] = Null],
         prev' = [Store(prev, next[n], prev[n]) EXCEPT ![n] = Null],
         contents' = CutAt(contents, k),
         initialized' = initialized,
         got' \in Nodes \cup {Null},
         removed' \in Outcomes
  PROVE  Inv'
<1> DEFINE len == Len(contents)
           p == IF k = 1 THEN Null ELSE contents[k - 1]
           q == IF k = len THEN Null ELSE contents[k + 1]
<1>1. len \in Nat /\ k \in 1..len
  BY InvFacts
<1>2. \A i \in 1..len : contents[i] \in Nodes
  BY InvFacts
<1>3. contents \in Seq(Nodes)
  BY DEF Inv, TypeOK
<1>4. /\ contents' \in Seq(Nodes)
      /\ Len(contents') = len - 1
      /\ \A j \in 1..(len - 1) :
           contents'[j] = IF j < k THEN contents[j] ELSE contents[j + 1]
  BY <1>3, CutAtProperties
<1>5. prev[n] = p /\ next[n] = q
  BY InvFacts DEF PrevRight, NextRight
<1>6. \A i, j \in 1..len : contents[i] = contents[j] => i = j
  BY InvFacts DEF Distinct
<1>7. /\ p # n /\ q # n
      /\ p \in Nodes \cup {Null} /\ q \in Nodes \cup {Null}
      /\ p = Null <=> k = 1
      /\ q = Null <=> k = len
  BY <1>1, <1>2, <1>6, InvFacts
<1>8. \A j \in 1..len :
        /\ contents[j] = n => j = k
        /\ contents[j] = p => j = k - 1
        /\ contents[j] = q => j = k + 1
  <2>1. ASSUME NEW j \in 1..len, contents[j] = p PROVE j = k - 1
    <3>1. k # 1
      BY <1>2, <1>7, <2>1, InvFacts
    <3>2. k - 1 \in 1..len /\ contents[k - 1] = contents[j]
      BY <1>1, <2>1, <3>1
    <3>3. QED
      BY <1>6, <3>2
  <2>2. ASSUME NEW j \in 1..len, contents[j] = q PROVE j = k + 1
    <3>1. k # len
      BY <1>2, <1>7, <2>2, InvFacts
    <3>2. k + 1 \in 1..len /\ contents[k + 1] = contents[j]
      BY <1>1, <2>2, <3>1
    <3>3. QED
      BY <1>6, <3>2
  <2>3. QED
    BY <1>6, <2>1, <2>2
<1>9. /\ p # Null => k - 1 \in 1..len /\ p = contents[k - 1]
      /\ q # Null => k + 1 \in 1..len /\ q = contents[k + 1]
  BY <1>1, <1>7
<1>10. /\ head' = IF k = 1 THEN q ELSE head
       /\ tail' = IF k = len THEN p ELSE tail
  BY <1>5, <1>7
<1> HIDE DEF p, q, len
<1>11. /\ next' \in [Nodes -> Nodes \cup {Null}]
       /\ \A m \in Nodes :
            next'[m] = IF m = n THEN Null ELSE IF m = p THEN q ELSE next[m]
  <2>1. CASE p = Null
    BY <1>5, <1>7, <2>1, InvFacts DEF Store
  <2>2. CASE p # Null
    BY <1>5, <1>7, <2>2, InvFacts DEF Store
  <2>3. QED
    BY <2>1, <2>2
<1>12. /\ prev' \in [Nodes -> Nodes \cup {Null}]
       /\ \A m \in Nodes :
            prev'[m] = IF m = n THEN Null ELSE IF m = q THEN p ELSE prev[m]
  <2>1. CASE q = Null
    BY <1>5, <1>7, <2>1, InvFacts DEF Store
  <2>2. CASE q # Null
    BY <1>5, <1>7, <2>2, InvFacts DEF Store
  <2>3. QED
    BY <2>1, <2>2
<1>13. Distinct'
  <2>1. ASSUME NEW i \in 1..(len - 1), NEW j \in 1..(len - 1),
               contents'[i] = contents'[j]
        PROVE  i = j
    BY <1>1, <1>4, <1>6, <2>1
  <2>2. QED
    BY <1>4, <2>1 DEF Distinct
<1>14. EndsRight'
  <2>1. head = contents[1] /\ tail = contents[len]
    BY <1>1, InvFacts DEF EndsRight, len
  <2>2. head' = IF len = 1 THEN Null ELSE contents'[1]
    BY <1>1, <1>4, <1>10, <2>1 DEF q
  <2>3. tail' = IF len = 1 THEN Null ELSE contents'[len - 1]
    BY <1>1, <1>4, <1>10, <2>1 DEF p
  <2>4. QED
    BY <1>1, <1>4, <2>2, <2>3 DEF EndsRight
<1>15. ASSUME NEW i \in 1..(len - 1)
       PROVE  prev'[contents'[i]] = IF i = 1 THEN Null ELSE contents'[i - 1]
  <2>0. \A j \in 1..len :
          prev[contents[j]] = IF j = 1 THEN Null ELSE contents[j - 1]
    BY InvFacts DEF PrevRight, len
  <2>1. CASE i < k
    <3>1. contents'[i] = contents[i] /\ i \in 1..len
      BY <1>1, <1>4, <2>1
    <3>2. contents[i] # n /\ contents[i] # q
      BY <1>1, <1>8, <2>1, <3>1
    <3>3. prev'[contents[i]] = prev[contents[i]]
      BY <1>2, <1>12, <3>1, <3>2
    <3>4. QED
      BY <1>1, <1>4, <2>0, <2>1, <3>1, <3>3
  <2>2. CASE i = k
    <3>1. contents'[i] = contents[k + 1] /\ k + 1 \in 1..len /\ k # len
      BY <1>1, <1>4, <2>2
    <3>2. contents[k + 1] = q /\ contents[k + 1] # n
      BY <1>1, <1>8, <3>1 DEF q
    <3>3. prev'[contents'[i]] = p
      BY <1>2, <1>12, <3>1, <3>2
    <3>4. QED
      BY <1>1, <1>4, <2>2, <3>3 DEF p
  <2>3. CASE i > k
    <3>1. contents'[i] = contents[i + 1] /\ i + 1 \in 1..len
      BY <1>1, <1>4, <2>3
    <3>2. contents[i + 1] # n /\ contents[i + 1] # q
      BY <1>1, <1>8, <2>3, <3>1
    <3>3. prev'[contents[i + 1]] = contents[i]
      <4>1. prev'[contents[i + 1]] = prev[contents[i + 1]]
        BY <1>2, <1>12, <3>1, <3>2
      <4>2. prev[contents[i + 1]] = contents[i]
        BY <1>1, <2>0, <3>1
      <4>3. QED
        BY <4>1, <4>2
    <3>4. QED
      BY <1>1, <1>4, <2>3, <3>1, <3>3
  <2>4. QED
    BY <1>1, <2>1, <2>2, <2>3
<1>16. ASSUME NEW i \in 1..(len - 1)
       PROVE  next'[contents'[i]] = IF i = len - 1 THEN Null ELSE contents'[i + 1]
  <2>0. \A j \in 1..len :
          next[contents[j]] = IF j = len THEN Null ELSE contents[j + 1]
    BY InvFacts DEF NextRight, len
  <2>1. CASE i < k - 1
    <3>1. contents'[i] = contents[i] /\ i \in 1..len
      BY <1>1, <1>4, <2>1
    <3>2. contents[i] # n /\ contents[i] # p
      BY <1>1, <1>8, <2>1, <3>1
    <3>3. next'[contents[i]] = contents[i + 1]
      BY <1>1, <1>2, <1>11, <2>0, <2>1, <3>1, <3>2
    <3>4. QED
      BY <1>1, <1>4, <2>1, <3>1, <3>3
  <2>2. CASE i = k - 1
    <3>1. contents'[i] = contents[k - 1] /\ k - 1 \in 1..len /\ k # 1
      BY <1>1, <1>4, <2>2
    <3>2. contents[k - 1] = p /\ contents[k - 1] # n
      BY <1>1, <1>8, <3>1 DEF p
    <3>3. next'[contents'[i]] = q
      BY <1>2, <1>11, <3>1, <3>2
    <3>4. QED
      BY <1>1, <1>4, <2>2, <3>3 DEF q
  <2>3. CASE i >= k
    <3>1. contents'[i] = contents[i + 1] /\ i + 1 \in 1..len
      BY <1>1, <1>4, <2>3
    <3>2. contents[i + 1] # n /\ contents[i + 1] # p
      BY <1>1, <1>8, <2>3, <3>1
    <3>3. next'[contents[i + 1]] = next[contents[i + 1]]
      BY <1>2, <1>11, <3>1, <3>2
    <3>4. QED
      BY <1>1, <1>4, <2>0, <2>3, <3>1, <3>3
  <2>4. QED
    BY <1>1, <2>1, <2>2, <2>3
<1>17. QueuedInitialized'
  <2>1. \A i \in 1..len : contents[i] \in initialized
    BY InvFacts DEF QueuedInitialized, len
  <2>2. ASSUME NEW i \in 1..Len(contents') PROVE contents'[i] \in initialized'
    <3>1. CASE i < k
      BY <1>1, <1>4, <2>1, <2>2, <3>1
    <3>2. CASE ~(i < k)
      <4>1. i + 1 \in 1..len /\ contents'[i] = contents[i + 1]
        BY <1>1, <1>4, <2>2, <3>2
      <4>2. QED
        BY <2>1, <4>1
    <3>3. QED
      BY <3>1, <3>2
  <2>3. QED
    BY <2>2 DEF QueuedInitialized
<1>18. OutsideUnlinked'
  <2> SUFFICES ASSUME NEW m \in initialized, ~Queued(m)'
               PROVE  prev'[m] = Null /\ next'[m] = Null
    BY DEF OutsideUnlinked
  <2>1. m \in Nodes
    BY InvFacts
  <2>2. m = n \/ ~Queued(m)
    BY <1>3, CutQueued, InvFacts
  <2>3. CASE m = n
    BY <1>11, <1>12, <2>3
  <2>4. CASE m # n
    <3>1. ~Queued(m) /\ prev[m] = Null /\ next[m] = Null
      BY <2>2, <2>4, InvFacts DEF OutsideUnlinked
    <3>2. m # p /\ m # q
      BY <1>7, <1>9, <2>1, <3>1, InvFacts DEF Queued, len
    <3>3. QED
      BY <1>11, <1>12, <2>1, <2>4, <3>1, <3>2
  <2>5. QED
    BY <2>3, <2>4
<1>19. WellLinked'
  <2>1. PrevRight'
    BY <1>4, <1>15 DEF PrevRight
  <2>2. NextRight'
    BY <1>4, <1>16 DEF NextRight
  <2>3. QED
    BY <1>13, <1>14, <1>17, <1>18, <2>1, <2>2 DEF WellLinked
<1>20. TypeOK'
  <2>1. EndsQueued'
    BY <1>1, <1>4, <1>14 DEF EndsQueued, EndsRight, Queued
  <2>2. head' \in Nodes \cup {Null} /\ tail' \in Nodes \cup {Null}
    BY <1>7, <1>10 DEF Inv, TypeOK
  <2>3. QED
    BY <1>4, <1>11, <1>12, <2>1, <2>2, InvFacts DEF TypeOK
<1>21. QED
  BY <1>19, <1>20 DEF Inv

\* get() unlinks the first node.
LEMMA GetHeadInv ==
  ASSUME Inv, GetHead
  PROVE  Inv'
<1>1. contents \in Seq(Nodes) /\ Len(contents) >= 1 /\ contents # <<>>
  BY DEF GetHead, Inv, TypeOK, WellLinked, EndsRight
<1>2. 1 \in 1..Len(contents) /\ head \in Nodes /\ contents[1] = head
  BY <1>1, InvFacts DEF EndsRight
<1>3. prev[head] = Null
  BY <1>2, InvFacts DEF PrevRight
<1>4. contents' = CutAt(contents, 1)
  <2>1. contents' = Tail(contents)
    BY <1>1 DEF GetHead
  <2>2. CutAt(contents, 1) = [j \in 1..(Len(contents) - 1) |-> contents[j + 1]]
    BY <1>1 DEF CutAt
  <2>3. QED
    BY <1>1, <2>1, <2>2, SMT
<1>5. /\ head' = next[head]
      /\ tail' = IF next[head] = Null THEN Null ELSE tail
      /\ next' = [next EXCEPT ![head] = Null]
      /\ prev' = [Store(prev, next[head], Null) EXCEPT ![head] = Null]
      /\ initialized' = initialized
      /\ got' = head /\ removed' = removed
  BY DEF GetHead
<1>6. Store(next, prev[head], next[head]) = next
  BY <1>3 DEF Store
<1>7. removed \in Outcomes
  BY DEF Inv, TypeOK
<1>8. QED
  BY <1>2, <1>3, <1>4, <1>5, <1>6, <1>7, UnlinkInv, Zenon

\* remove() unlinks the node it finds linked.
LEMMA RemoveQueuedInv ==
  ASSUME Inv, NEW n \in Nodes, RemoveQueued(n)
  PROVE  Inv'
<1>1. Queued(n)
  BY LooksRight DEF RemoveQueued
<1>2. PositionOf(n) \in 1..Len(contents) /\ contents[PositionOf(n)] = n
  BY <1>1 DEF Queued, PositionOf
<1>3. contents' = CutAt(contents, PositionOf(n))
  BY <1>1 DEF RemoveQueued
<1>4. got' \in Nodes \cup {Null} /\ removed' \in Outcomes
  BY DEF Inv, TypeOK, RemoveQueued, Outcomes
<1>5. QED
  BY <1>2, <1>3, <1>4, UnlinkInv DEF RemoveQueued

\* put() links the node after the last one.
LEMMA PutInv ==
  ASSUME Inv, NEW n \in Nodes, put(n)
  PROVE  Inv'
<1> DEFINE len == Len(contents)
<1>1. /\ len \in Nat
      /\ contents' \in Seq(Nodes)
      /\ Len(contents') = len + 1
      /\ \A i \in 1..len : contents'[i] = contents[i] /\ contents[i] # n
      /\ contents'[len + 1] = n
  BY DEF put, Queued, Inv, TypeOK
<1>2. \A m : Queued(m)' <=> Queued(m) \/ m = n
  <2>1. ASSUME NEW m, Queued(m) PROVE Queued(m)'
    BY <1>1, <2>1 DEF Queued
  <2>2. Queued(n)'
    BY <1>1 DEF Queued
  <2>3. ASSUME NEW m, Queued(m)' PROVE Queued(m) \/ m = n
    BY <1>1, <2>3 DEF Queued
  <2>4. QED
    BY <2>1, <2>2, <2>3
<1>3. /\ prev' = [prev EXCEPT ![n] = tail]
      /\ next' = Store([next EXCEPT ![n] = Null], tail, n)
      /\ tail' = n
      /\ head' = IF tail = Null THEN n ELSE head
      /\ initialized' = initialized \cup {n}
      /\ got' = got /\ removed' = removed
  BY DEF put
<1>4. /\ tail = IF len = 0 THEN Null ELSE contents[len]
      /\ head = IF len = 0 THEN Null ELSE contents[1]
      /\ \A i \in 1..len : contents[i] \in Nodes
      /\ \A i, j \in 1..len : contents[i] = contents[j] => i = j
      /\ tail = Null <=> len = 0
      /\ tail # n
      /\ tail \in Nodes \cup {Null}
  <2>1. /\ tail = IF len = 0 THEN Null ELSE contents[len]
        /\ head = IF len = 0 THEN Null ELSE contents[1]
        /\ \A i \in 1..len : contents[i] \in Nodes
        /\ \A i, j \in 1..len : contents[i] = contents[j] => i = j
    BY InvFacts DEF EndsRight, Distinct
  <2>2. QED
    BY <1>1, <2>1, InvFacts
<1> HIDE DEF len
<1>5. /\ prev' \in [Nodes -> Nodes \cup {Null}]
      /\ \A m \in Nodes : prev'[m] = IF m = n THEN tail ELSE prev[m]
  BY <1>3, <1>4, InvFacts
<1>6. /\ next' \in [Nodes -> Nodes \cup {Null}]
      /\ \A m \in Nodes :
           next'[m] = IF m = n THEN Null ELSE IF m = tail THEN n ELSE next[m]
  <2>1. CASE tail = Null
    BY <1>3, <2>1, InvFacts DEF Store
  <2>2. CASE tail # Null
    BY <1>3, <1>4, <2>2, InvFacts DEF Store
  <2>3. QED
    BY <2>1, <2>2
<1>7. Distinct'
  <2>1. ASSUME NEW i \in 1..(len + 1), NEW j \in 1..(len + 1),
               contents'[i] = contents'[j]
        PROVE  i = j
    BY <1>1, <1>4, <2>1
  <2>2. QED
    BY <1>1, <2>1 DEF Distinct
<1>8. EndsRight'
  BY <1>1, <1>3, <1>4 DEF EndsRight
<1>9. PrevRight'
  <2> SUFFICES ASSUME NEW i \in 1..(len + 1)
               PROVE  prev'[contents'[i]] = IF i = 1 THEN Null ELSE contents'[i - 1]
    BY <1>1 DEF PrevRight
  <2>1. CASE i = len + 1
    BY <1>1, <1>4, <1>5, <2>1
  <2>2. CASE i \in 1..len
    <3>1. prev[contents[i]] = IF i = 1 THEN Null ELSE contents[i - 1]
      BY <2>2, InvFacts DEF PrevRight, len
    <3>2. prev'[contents'[i]] = prev[contents[i]]
      BY <1>1, <1>4, <1>5, <2>2
    <3>3. i # 1 => contents'[i - 1] = contents[i - 1]
      BY <1>1, <2>2
    <3>4. QED
      BY <3>1, <3>2, <3>3
  <2>3. QED
    BY <1>1, <2>1, <2>2
<1>10. NextRight'
  <2> SUFFICES ASSUME NEW i \in 1..(len + 1)
               PROVE  next'[contents'[i]]
                        = IF i = len + 1 THEN Null ELSE contents'[i + 1]
    BY <1>1 DEF NextRight
  <2>1. CASE i = len + 1
    BY <1>1, <1>6, <2>1
  <2>2. CASE i = len
    <3>1. contents'[i] = tail /\ tail \in Nodes
      BY <1>1, <1>4, <2>2
    <3>2. QED
      BY <1>1, <1>4, <1>6, <2>2, <3>1
  <2>3. CASE i < len
    <3>1. i \in 1..len /\ contents[i] # tail /\ contents'[i] = contents[i]
      BY <1>1, <1>4, <2>3
    <3>2. next'[contents[i]] = next[contents[i]]
      BY <1>1, <1>4, <1>6, <3>1
    <3>3. next[contents[i]] = contents[i + 1]
      BY <1>1, <2>3, <3>1, InvFacts DEF NextRight, len
    <3>4. contents'[i + 1] = contents[i + 1]
      BY <1>1, <2>3
    <3>5. QED
      BY <1>1, <2>3, <3>1, <3>2, <3>3, <3>4
  <2>4. QED
    BY <1>1, <2>1, <2>2, <2>3
<1>11. QueuedInitialized'
  BY <1>1, <1>3, InvFacts DEF QueuedInitialized, len
<1>12. OutsideUnlinked'
  <2> SUFFICES ASSUME NEW m \in initialized', ~Queued(m)'
               PROVE  prev'[m] = Null /\ next'[m] = Null
    BY DEF OutsideUnlinked
  <2>1. m \in initialized /\ m \in Nodes /\ ~Queued(m) /\ m # n
    BY <1>2, <1>3, InvFacts
  <2>2. m # tail
    BY <1>1, <1>4, <2>1, InvFacts DEF Queued, len
  <2>3. prev[m] = Null /\ next[m] = Null
    BY <2>1, InvFacts DEF OutsideUnlinked
  <2>4. QED
    BY <1>5, <1>6, <2>1, <2>2, <2>3
<1>13. WellLinked'
  BY <1>7, <1>8, <1>9, <1>10, <1>11, <1>12 DEF WellLinked
<1>14. TypeOK'
  <2>1. EndsQueued'
    BY <1>1, <1>8 DEF EndsQueued, EndsRight, Queued
  <2>2. head \in Nodes \cup {Null} /\ got \in Nodes \cup {Null}
        /\ removed \in Outcomes
    BY DEF Inv, TypeOK
  <2>3. QED
    BY <1>1, <1>3, <1>5, <1>6, <2>1, <2>2, InvFacts DEF TypeOK
<1>15. QED
  BY <1>13, <1>14 DEF Inv

\* unget() onto an empty queue makes the node its only element.
LEMMA UngetInv ==
  ASSUME Inv, UngetNonEmpty = FALSE, NEW n \in Nodes, unget(n)
  PROVE  Inv'
<1>1. contents = <<>> /\ Len(contents) = 0 /\ head = Null
  BY InvFacts DEF unget, EndsRight
<1>2. /\ prev' = [prev EXCEPT ![n] = Null]
      /\ head' = n /\ tail' = n
      /\ next' = next
      /\ initialized' = initialized
      /\ got' = got /\ removed' = removed
      /\ n \in initialized
  BY <1>1 DEF unget, Store
<1>3. /\ contents' \in Seq(Nodes) /\ Len(contents') = 1 /\ contents'[1] = n
  BY <1>1 DEF unget
<1>4. \A m : ~Queued(m)
  BY <1>1 DEF Queued
<1>5. \A m : Queued(m)' <=> m = n
  BY <1>3 DEF Queued
<1>6. \A m \in initialized : prev[m] = Null /\ next[m] = Null
  BY <1>4, InvFacts DEF OutsideUnlinked
<1>7. prev'[n] = Null /\ next'[n] = Null
  BY <1>2, <1>6, InvFacts
<1>8. WellLinked'
  <2>1. Distinct' /\ EndsRight' /\ PrevRight' /\ NextRight' /\ QueuedInitialized'
    BY <1>2, <1>3, <1>7
    DEF Distinct, EndsRight, PrevRight, NextRight, QueuedInitialized
  <2>2. OutsideUnlinked'
    BY <1>2, <1>6, InvFacts DEF OutsideUnlinked
  <2>3. QED
    BY <2>1, <2>2 DEF WellLinked
<1>9. TypeOK'
  BY <1>2, <1>3, <1>5 DEF Inv, TypeOK, EndsQueued
<1>10. QED
  BY <1>8, <1>9 DEF Inv

\* Every operation preserves the representation.
LEMMA NextInv ==
  ASSUME UngetNonEmpty = FALSE
  PROVE  Inv /\ [Next]_vars => Inv'
<1> SUFFICES ASSUME Inv, [Next]_vars PROVE Inv'
  OBVIOUS
<1> DEFINE Links == <<head, tail, prev, next, initialized, contents>>
<1>0. ASSUME UNCHANGED Links, got' \in Nodes \cup {Null}, removed' \in Outcomes
      PROVE  Inv'
  BY <1>0 DEF Inv, TypeOK, EndsQueued, WellLinked, Distinct, EndsRight,
              PrevRight, NextRight, QueuedInitialized, OutsideUnlinked, Queued
<1>t. got \in Nodes \cup {Null} /\ removed \in Outcomes
  BY DEF Inv, TypeOK
<1>1. CASE GetEmpty
  BY <1>0, <1>1, <1>t DEF GetEmpty
<1>2. CASE GetHead
  BY <1>2, GetHeadInv
<1>3. ASSUME NEW n \in Nodes, put(n) PROVE Inv'
  BY <1>3, PutInv
<1>4. ASSUME NEW n \in Nodes, unget(n) PROVE Inv'
  BY <1>4, UngetInv
<1>5. ASSUME NEW n \in Nodes, RemoveUnqueued(n) PROVE Inv'
  <2>1. removed' \in Outcomes
    BY <1>5 DEF RemoveUnqueued, Outcomes
  <2>2. QED
    BY <1>0, <1>5, <1>t, <2>1 DEF RemoveUnqueued
<1>6. ASSUME NEW n \in Nodes, RemoveQueued(n) PROVE Inv'
  BY <1>6, RemoveQueuedInv
<1>7. CASE UNCHANGED vars
  BY <1>0, <1>7, <1>t DEF vars
<1>8. QED
  BY <1>1, <1>2, <1>3, <1>4, <1>5, <1>6, <1>7 DEF Next

\* The representation invariant holds in every reachable state.
LEMMA Inductive ==
  ASSUME UngetNonEmpty = FALSE
  PROVE  Spec => []Inv
  BY InitInv, NextInv, PTL DEF Spec

\* The types hold, and head and tail point at queued nodes or nowhere.
THEOREM TypeCorrect ==
  ASSUME UngetNonEmpty = FALSE
  PROVE  Spec => []TypeOK
  BY Inductive, PTL DEF Inv

\* The links always represent the queue exactly, for any number of nodes and
\* any sequence of put, get and remove.
THEOREM AlwaysWellLinked ==
  ASSUME UngetNonEmpty = FALSE
  PROVE  Spec => []WellLinked
  BY Inductive, PTL DEF Inv

\* The assertions in put and unget (queue.zig:38, 71) can not fail.
THEOREM AssertsNeverFail ==
  ASSUME UngetNonEmpty = FALSE
  PROVE  Spec => []AssertsHold
<1>1. Inv => AssertsHold
  BY InvFacts DEF EndsRight, AssertsHold
<1>2. QED
  BY <1>1, Inductive, PTL

-----------------------------------------------------------------------------
\* Every operation is the operation of FifoQueue with the same name.
LEMMA StepRefines ==
  ASSUME UngetNonEmpty = FALSE
  PROVE  Inv /\ [Next]_vars => [Fifo!Next]_(Fifo!fifoVars)
<1> SUFFICES ASSUME Inv, [Next]_vars PROVE [Fifo!Next]_(Fifo!fifoVars)
  OBVIOUS
<1>0. contents \in Seq(Nodes)
  BY DEF Inv, TypeOK
<1>1. CASE GetEmpty
  <2>1. contents = <<>>
    BY <1>0, <1>1, InvFacts DEF GetEmpty, EndsRight
  <2>2. QED
    BY <1>1, <2>1 DEF GetEmpty, Fifo!Next, Fifo!Get
<1>2. CASE GetHead
  <2>1. contents # <<>> /\ head = Head(contents)
    BY <1>0, <1>2, InvFacts DEF GetHead, EndsRight
  <2>2. QED
    BY <1>2, <2>1 DEF GetHead, Fifo!Next, Fifo!Get
<1>3. ASSUME NEW n \in Nodes, put(n) PROVE Fifo!Next
  BY <1>3 DEF put, Queued, Fifo!Next, Fifo!Put, Fifo!Queued
<1>4. ASSUME NEW n \in Nodes, unget(n) PROVE Fifo!Next
  BY <1>4 DEF unget, Queued, Fifo!Next, Fifo!Unget, Fifo!Queued
<1>5. ASSUME NEW n \in Nodes, RemoveUnqueued(n) PROVE Fifo!Next
  <2>1. ~Queued(n)
    BY <1>5, LooksRight DEF RemoveUnqueued
  <2>2. Fifo!Remove(n)
    BY <1>5, <2>1 DEF RemoveUnqueued, Queued, Fifo!Remove, Fifo!Queued
  <2>3. QED
    BY <2>2 DEF Fifo!Next
<1>6. ASSUME NEW n \in Nodes, RemoveQueued(n) PROVE Fifo!Next
  <2>1. Queued(n)
    BY <1>6, LooksRight DEF RemoveQueued
  <2>2. PositionOf(n) \in 1..Len(contents) /\ contents[PositionOf(n)] = n
    BY <2>1 DEF Queued, PositionOf
  <2>3. contents' = Fifo!CutAt(contents, PositionOf(n))
    BY <1>6, <2>1 DEF RemoveQueued, CutAt, Fifo!CutAt
  <2>4. Fifo!Remove(n)
    BY <1>6, <2>2, <2>3 DEF RemoveQueued, Fifo!Remove
  <2>5. QED
    BY <2>4 DEF Fifo!Next
<1>7. CASE UNCHANGED vars
  BY <1>7 DEF vars, Fifo!fifoVars
<1>8. QED
  BY <1>1, <1>2, <1>3, <1>4, <1>5, <1>6, <1>7 DEF Next

\* std.atomic.Queue implements a FIFO queue: get() returns the nodes in the
\* order they were put and remove() reports exactly whether it removed.
THEOREM Refinement ==
  ASSUME UngetNonEmpty = FALSE
  PROVE  Spec => ImplementsFifo
<1>1. Init => Fifo!Init
  BY DEF Init, Fifo!Init
<1>2. QED
  BY <1>1, Inductive, StepRefines, PTL DEF Spec, ImplementsFifo, Fifo!Spec
=============================================================================
