---------------------------- MODULE AtomicQueue ----------------------------
(***************************************************************************)
(* std.atomic.Queue (src/std/atomic/queue.zig), the intrusive doubly       *)
(* linked queue under every queue of the event loop.  Every operation runs *)
(* inside the queue's mutex (module Mutex), so one operation is one        *)
(* action; the stores put and unget make before they lock touch only a     *)
(* node that nobody else may use yet.                                      *)
(*                                                                         *)
(* A node's links are undefined until the node has been initialised or     *)
(* put: initialized holds the nodes whose links mean something.            *)
(*                                                                         *)
(* contents is a history variable: the nodes the clients' calls have       *)
(* queued, in order.  No result is computed from it.                       *)
(***************************************************************************)
EXTENDS Naturals, Sequences

CONSTANTS
  Nodes, Null,
  UngetNonEmpty  \* whether clients call unget while the queue holds a node

ASSUME QueueAssumption == Null \notin Nodes /\ UngetNonEmpty \in BOOLEAN

VARIABLES head, tail, prev, next, initialized, got, removed, contents

vars == <<head, tail, prev, next, initialized, got, removed, contents>>

Queued(n) == \E i \in 1..Len(contents) : contents[i] = n

CutAt(s, i) == [j \in 1..(Len(s) - 1) |-> IF j < i THEN s[j] ELSE s[j + 1]]

PositionOf(n) == CHOOSE i \in 1..Len(contents) : contents[i] = n

\* A store through an optional pointer: "if (p) |node| node.field = v".
Store(field, p, v) == IF p = Null THEN field ELSE [field EXCEPT ![p] = v]

Init ==
  /\ head = Null
  /\ tail = Null
  /\ prev \in [Nodes -> Nodes \cup {Null}]
  /\ next \in [Nodes -> Nodes \cup {Null}]
  /\ initialized = {n \in Nodes : prev[n] = Null /\ next[n] = Null}
  /\ got = Null
  /\ removed = <<Null, FALSE>>
  /\ contents = <<>>

\* The client's part: only a node that is in no queue is put.
put(n) ==
  /\ ~Queued(n)
  /\ prev' = [prev EXCEPT ![n] = tail]
  /\ next' = Store([next EXCEPT ![n] = Null], tail, n)
  /\ tail' = n
  /\ head' = IF tail = Null THEN n ELSE head
  /\ initialized' = initialized \cup {n}
  /\ contents' = Append(contents, n)
  /\ UNCHANGED <<got, removed>>

GetEmpty ==
  /\ head = Null
  /\ got' = Null
  /\ UNCHANGED <<head, tail, prev, next, initialized, removed, contents>>

\* Mutant: get() leaves tail on the node it returns.
GetHeadKeepsTail ==
  /\ head # Null
  /\ got' = head
  /\ head' = next[head]
  /\ prev' = [Store(prev, next[head], Null) EXCEPT ![head] = Null]
  /\ next' = [next EXCEPT ![head] = Null]
  /\ contents' = IF contents = <<>> THEN <<>> ELSE Tail(contents)
  /\ UNCHANGED <<tail, initialized, removed>>

\* Mutant: get() does not clear the links of the node it returns (line 54
\* says why it must).
GetHeadKeepsLinks ==
  /\ head # Null
  /\ got' = head
  /\ head' = next[head]
  /\ tail' = IF next[head] = Null THEN Null ELSE tail
  /\ prev' = Store(prev, next[head], Null)
  /\ contents' = IF contents = <<>> THEN <<>> ELSE Tail(contents)
  /\ UNCHANGED <<next, initialized, removed>>

GetHead ==
  /\ head # Null
  /\ got' = head
  /\ head' = next[head]
  /\ tail' = IF next[head] = Null THEN Null ELSE tail
  /\ prev' = [Store(prev, next[head], Null) EXCEPT ![head] = Null]
  /\ next' = [next EXCEPT ![head] = Null]
  /\ contents' = IF contents = <<>> THEN <<>> ELSE Tail(contents)
  /\ UNCHANGED <<initialized, removed>>

\* The node is outside the queue with its links set, as get() leaves it.
\* Line 69 links the old head to the new one through next, not prev, and
\* node.next is never set.
unget(n) ==
  /\ n \in initialized /\ ~Queued(n)
  /\ contents = <<>> \/ UngetNonEmpty
  /\ prev' = [prev EXCEPT ![n] = Null]
  /\ head' = n
  /\ next' = Store(next, head, n)
  /\ tail' = IF head = Null THEN n ELSE tail
  /\ contents' = <<n>> \o contents
  /\ UNCHANGED <<initialized, got, removed>>

\* Mutant: the test of line 81 forgets that a lone node has no links.
LooksUnqueuedByLinks(n) == prev[n] = Null /\ next[n] = Null

\* Line 81: what remove takes for "not queued".
LooksUnqueued(n) == prev[n] = Null /\ next[n] = Null /\ head # n

RemoveUnqueued(n) ==
  /\ n \in initialized
  /\ LooksUnqueued(n)
  /\ removed' = <<n, FALSE>>
  /\ UNCHANGED <<head, tail, prev, next, initialized, got, contents>>

RemoveQueued(n) ==
  /\ n \in initialized
  /\ ~LooksUnqueued(n)
  /\ head' = IF prev[n] = Null THEN next[n] ELSE head
  /\ tail' = IF next[n] = Null THEN prev[n] ELSE tail
  /\ next' = [Store(next, prev[n], next[n]) EXCEPT ![n] = Null]
  /\ prev' = [Store(prev, next[n], prev[n]) EXCEPT ![n] = Null]
  /\ removed' = <<n, TRUE>>
  /\ contents' = IF Queued(n) THEN CutAt(contents, PositionOf(n)) ELSE contents
  /\ UNCHANGED <<initialized, got>>

Next ==
  \/ GetEmpty
  \/ GetHead
  \/ \E n \in Nodes :
       put(n) \/ unget(n) \/ RemoveUnqueued(n) \/ RemoveQueued(n)

Spec == Init /\ [][Next]_vars

-----------------------------------------------------------------------------
\* The queue's two ends point at nodes the clients have queued, or nowhere.
EndsQueued == (head = Null \/ Queued(head)) /\ (tail = Null \/ Queued(tail))

\* What a remove() can report: the node and whether it was removed.
Outcomes == (Nodes \cup {Null}) \X BOOLEAN

\* Type invariant of the queue and of the nodes' links.
TypeOK ==
  /\ head \in Nodes \cup {Null}
  /\ tail \in Nodes \cup {Null}
  /\ prev \in [Nodes -> Nodes \cup {Null}]
  /\ next \in [Nodes -> Nodes \cup {Null}]
  /\ initialized \in SUBSET Nodes
  /\ got \in Nodes \cup {Null}
  /\ removed \in Outcomes
  /\ contents \in Seq(Nodes)
  /\ EndsQueued

Distinct == \A i, j \in 1..Len(contents) : contents[i] = contents[j] => i = j

EndsRight ==
  /\ head = IF Len(contents) = 0 THEN Null ELSE contents[1]
  /\ tail = IF Len(contents) = 0 THEN Null ELSE contents[Len(contents)]

PrevRight ==
  \A i \in 1..Len(contents) :
    prev[contents[i]] = IF i = 1 THEN Null ELSE contents[i - 1]

NextRight ==
  \A i \in 1..Len(contents) :
    next[contents[i]] = IF i = Len(contents) THEN Null ELSE contents[i + 1]

QueuedInitialized == \A i \in 1..Len(contents) : contents[i] \in initialized

OutsideUnlinked ==
  \A n \in initialized : ~Queued(n) => prev[n] = Null /\ next[n] = Null

\* The links represent the queue exactly: following next from head and prev
\* from tail visits the queued nodes in order, and a node outside the queue
\* has no links, which is what makes get() and remove() "thread-safe with
\* each other" (queue.zig:54, 76).
WellLinked ==
  /\ Distinct
  /\ EndsRight
  /\ PrevRight
  /\ NextRight
  /\ QueuedInitialized
  /\ OutsideUnlinked

\* The assertions of put (line 38, "assert(self.head == null)" when there is
\* no tail) and of unget (line 71, "assert(self.tail == null)" when there is
\* no head) hold whenever either operation is called.
AssertsHold == (head = Null) <=> (tail = Null)

Fifo == INSTANCE FifoQueue

\* The results of get() and remove() are those of a FIFO queue: nothing is
\* lost, returned twice or returned out of order, and remove() says whether
\* it removed.
ImplementsFifo == Fifo!Spec
=============================================================================
