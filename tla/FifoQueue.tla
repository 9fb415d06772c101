----------------------------- MODULE FifoQueue -----------------------------
(***************************************************************************)
(* What std.atomic.Queue promises its clients (src/std/atomic/queue.zig):  *)
(* nodes come out in the order they were put, a node that was handed back  *)
(* with unget comes out next, and remove reports whether the node was      *)
(* still queued.  Module AtomicQueue is shown to implement it.             *)
(***************************************************************************)
EXTENDS Naturals, Sequences

CONSTANTS Nodes, Null

VARIABLES
  contents,  \* the queued nodes, first out first
  got,       \* result of the last get()
  removed    \* the last remove(): the node and the result

fifoVars == <<contents, got, removed>>

Queued(n) == \E i \in 1..Len(contents) : contents[i] = n

CutAt(s, i) == [j \in 1..(Len(s) - 1) |-> IF j < i THEN s[j] ELSE s[j + 1]]

Init == contents = <<>> /\ got = Null /\ removed = <<Null, FALSE>>

Put(n) ==
  /\ ~Queued(n)
  /\ contents' = Append(contents, n)
  /\ UNCHANGED <<got, removed>>

Get ==
  /\ \/ contents = <<>> /\ got' = Null /\ UNCHANGED contents
     \/ contents # <<>> /\ got' = Head(contents) /\ contents' = Tail(contents)
  /\ UNCHANGED removed

Unget(n) ==
  /\ ~Queued(n)
  /\ contents' = <<n>> \o contents
  /\ UNCHANGED <<got, removed>>

Remove(n) ==
  /\ \/ ~Queued(n) /\ removed' = <<n, FALSE>> /\ UNCHANGED contents
     \/ \E i \in 1..Len(contents) :
          contents[i] = n /\ removed' = <<n, TRUE>> /\ contents' = CutAt(contents, i)
  /\ UNCHANGED got

Next == Get \/ \E n \in Nodes : Put(n) \/ Unget(n) \/ Remove(n)

Spec == Init /\ [][Next]_fifoVars
=============================================================================
