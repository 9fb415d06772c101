------------------------------ MODULE HashMap ------------------------------
(***************************************************************************)
(* The hash table of the stage1 compiler (src/src/hash_map.hpp): open      *)
(* addressing with Robin Hood insertion, removal by shifting back, growth  *)
(* at 60%, and an iterator that stops the program when the table has been  *)
(* changed under it.  The compiler is sequential: one call is one step.    *)
(*                                                                         *)
(* A table is a record of the entries, a function from 0..capacity-1 that  *)
(* is Unused where used is false, and the counters.  A loop over roll_over *)
(* is a search for its last round, or the state after each round as a      *)
(* function of the round.  panic is the zig_panic() that was reached.      *)
(***************************************************************************)
EXTENDS Integers, FiniteSets

CONSTANTS
  Keys, Values,
  HashFunctions,   \* the hash functions a table may be built with
  InitCapacity,
  MaxCapacity,     \* bound: the table is not grown beyond it
  CountRange,      \* the number of values of _modification_count
  Unused

ASSUME HashMapAssumption ==
  /\ HashFunctions \subseteq [Keys -> Nat]
  /\ InitCapacity \in Nat \ {0} /\ MaxCapacity \in Nat
  /\ CountRange \in Nat \ {0}
  /\ Unused \notin [key : Keys, value : Values, distance : Nat]
  /\ Unused \notin [count : Nat, index : Nat, initial : Nat]

VARIABLES
  Hash,            \* HashFunction, a template parameter
  table,
  modification_count,
  iter,            \* an iterator, or Unused
  visited,         \* history: the keys it has returned
  since,           \* history: changes since it was made, at most CountRange
  panic

vars == <<Hash, table, modification_count, iter, visited, since, panic>>

Capacity(t) == Cardinality(DOMAIN t.entries)

\* init_capacity(): lines 165-173.
init_capacity(n) ==
  [entries |-> [i \in 0..(n - 1) |-> Unused], size |-> 0, max_distance |-> 0]

\* Lines 237-239, and the index of a round.
key_to_index(t, key) == Hash[key] % Capacity(t)

Slot(t, key, roll_over) == (key_to_index(t, key) + roll_over) % Capacity(t)

Used(t) == {i \in DOMAIN t.entries : t.entries[i] # Unused}

Least(S) == CHOOSE n \in S : \A m \in S : n <= m

-----------------------------------------------------------------------------
(* internal_get(): lines 222-235. *)

\* The rounds that find key: no unused entry comes before.
Rounds(t, key) ==
  {r \in 0..t.max_distance :
     /\ \A q \in 0..r : t.entries[Slot(t, key, q)] # Unused
     /\ t.entries[Slot(t, key, r)].key = key}

Found(t, key) == Rounds(t, key) # {}

internal_get(t, key) == t.entries[Slot(t, key, Least(Rounds(t, key)))].value

-----------------------------------------------------------------------------
(* internal_put(): lines 175-219. *)

Bigger(a, b) == IF a > b THEN a ELSE b

\* Mutant: an entry that is displaced keeps the distance of the new one.
PutRoundKeepsDistance(s, i) ==
  LET e == s.table.entries[i]
      stored == [s.table EXCEPT !.entries[i] = s.entry,
                                !.max_distance = Bigger(@, s.entry.distance)]
  IN IF e # Unused /\ e.key # s.entry.key
     THEN IF e.distance < s.entry.distance
          THEN [table |-> stored, done |-> FALSE,
                entry |-> [e EXCEPT !.distance = s.entry.distance + 1]]
          ELSE [s EXCEPT !.entry.distance = @ + 1]
     ELSE [s EXCEPT !.done = TRUE,
                    !.table = [stored EXCEPT !.size = IF e = Unused THEN @ + 1 ELSE @]]

\* Mutant: _max_distance_from_start_index is not raised by a displacement.
PutRoundKeepsMax(s, i) ==
  LET e == s.table.entries[i]
      stored == [s.table EXCEPT !.entries[i] = s.entry]
  IN IF e # Unused /\ e.key # s.entry.key
     THEN IF e.distance < s.entry.distance
          THEN [table |-> stored, done |-> FALSE,
                entry |-> [e EXCEPT !.distance = @ + 1]]
          ELSE [s EXCEPT !.entry.distance = @ + 1]
     ELSE [s EXCEPT !.done = TRUE,
                    !.table = [stored EXCEPT !.size = IF e = Unused THEN @ + 1 ELSE @,
                                             !.max_distance = Bigger(@, s.entry.distance)]]

\* One round at index i with an entry in hand: it displaces an entry that is
\* closer to its own start ("robin hood to the rescue"), which is then in hand.
PutRound(s, i) ==
  LET e == s.table.entries[i]
      stored == [s.table EXCEPT !.entries[i] = s.entry,
                                !.max_distance = Bigger(@, s.entry.distance)]
  IN IF e # Unused /\ e.key # s.entry.key
     THEN IF e.distance < s.entry.distance
          THEN [table |-> stored, done |-> FALSE,
                entry |-> [e EXCEPT !.distance = @ + 1]]
          ELSE [s EXCEPT !.entry.distance = @ + 1]
     ELSE [s EXCEPT !.done = TRUE,
                    !.table = [stored EXCEPT !.size = IF e = Unused THEN @ + 1 ELSE @]]

\* The state after each round.
PutRounds(t, key, value) ==
  LET rounds[n \in 0..Capacity(t)] ==
        IF n = 0
        THEN [table |-> t, done |-> FALSE,
              entry |-> [key |-> key, value |-> value, distance |-> 0]]
        ELSE LET s == rounds[n - 1]
             IN IF s.done THEN s ELSE PutRound(s, Slot(t, key, n - 1))
  IN rounds

\* done is FALSE at the end when the table is full.
internal_put(t, key, value) == PutRounds(t, key, value)[Capacity(t)]

\* Lines 50-61: dump all of the old elements into a table of twice the size.
Dumps(t) ==
  LET dumped[n \in 0..Capacity(t)] ==
        IF n = 0 THEN [table |-> init_capacity(2 * Capacity(t)), done |-> TRUE]
        ELSE LET s == dumped[n - 1]
                 e == t.entries[n - 1]
             IN IF e = Unused \/ ~s.done THEN s
                ELSE internal_put(s.table, e.key, e.value)
  IN dumped

Grown(t) == Dumps(t)[Capacity(t)]

\* "If we get too full (60%), double the capacity."
TooFull(t) == t.size * 5 >= Capacity(t) * 3

Inserted(t, key, value) ==
  LET s == internal_put(t, key, value)
  IN IF s.done /\ TooFull(s.table) THEN Grown(s.table) ELSE s

-----------------------------------------------------------------------------
(* remove(): lines 90-118. *)

\* The rounds, from the one that finds key on, after which an unused entry or
\* one that is at its start comes next: the shifting ends there.
Ends(t, key) ==
  {r \in Least(Rounds(t, key))..(Capacity(t) - 1) :
     LET e == t.entries[Slot(t, key, r + 1)] IN e = Unused \/ e.distance = 0}

\* Mutant: the entry is only marked unused.
ShiftedNothing(t, i, n) ==
  [t EXCEPT !.entries[i] = Unused, !.size = @ - 1]

\* The n entries after index i move back and the last place becomes unused.
Shifted(t, i, n) ==
  LET from(j) == t.entries[(j + 1) % Capacity(t)]
      offset(j) == (j - i) % Capacity(t)
  IN [t EXCEPT !.entries =
        [j \in DOMAIN @ |-> IF offset(j) < n THEN [from(j) EXCEPT !.distance = @ - 1]
                            ELSE IF offset(j) = n THEN Unused
                            ELSE @[j]],
               !.size = @ - 1]

-----------------------------------------------------------------------------
Init ==
  /\ Hash \in HashFunctions
  /\ table = init_capacity(InitCapacity)
  /\ modification_count = 0   \* not set by init(): every table is in zeroed memory
  /\ iter = Unused /\ visited = {} /\ since = 0
  /\ panic = "no"

\* Every change counts itself first, so that an iterator notices.
Changed ==
  /\ panic = "no"
  /\ modification_count' = (modification_count + 1) % CountRange
  /\ since' = IF iter # Unused /\ since < CountRange THEN since + 1 ELSE since
  /\ UNCHANGED <<Hash, iter, visited>>

\* Lines 45-62.
put(key, value) ==
  LET s == Inserted(table, key, value)
  IN /\ Capacity(s.table) <= MaxCapacity
     /\ Changed
     /\ IF s.done THEN table' = s.table /\ UNCHANGED panic
        ELSE panic' = "put into a full HashMap" /\ UNCHANGED table

\* Lines 64-71: an entry that is there is returned as it is.
put_unique(key, value) == ~Found(table, key) /\ put(key, value)

\* Mutant: the change is not counted.
removeUncounted(key) ==
  LET found == Least(Rounds(table, key))
  IN /\ panic = "no" /\ Found(table, key)
     /\ table' = Shifted(table, Slot(table, key, found), Least(Ends(table, key)) - found)
     /\ since' = IF iter # Unused /\ since < CountRange THEN since + 1 ELSE since
     /\ UNCHANGED <<Hash, iter, visited, modification_count, panic>>

\* maybe_remove(), lines 84-88, and remove() of a key that is there: callers
\* remove no other, which is a panic of its own.
remove(key) ==
  LET found == Least(Rounds(table, key))
  IN /\ Found(table, key)
     /\ Changed
     /\ IF Ends(table, key) # {}
        THEN /\ table' = Shifted(table, Slot(table, key, found), Least(Ends(table, key)) - found)
             /\ UNCHANGED panic
        ELSE panic' = "shifting everything in the table" /\ UNCHANGED table

\* Mutant: the size is not reset.
clearKeepsSize ==
  /\ Changed
  /\ table' = [init_capacity(Capacity(table)) EXCEPT !.size = table.size]
  /\ UNCHANGED panic

\* Lines 32-39: the capacity stays.
clear ==
  /\ Changed
  /\ table' = init_capacity(Capacity(table))
  /\ UNCHANGED panic

-----------------------------------------------------------------------------
(* The iterator: lines 120-154. *)

entry_iterator ==
  /\ panic = "no"
  /\ iter' = [count |-> 0, index |-> 0, initial |-> modification_count]
  /\ visited' = {} /\ since' = 0
  /\ UNCHANGED <<Hash, table, modification_count, panic>>

\* The entries next() has still to look at.
Ahead == {i \in Used(table) : i >= iter.index}

\* Mutant: the entry just returned is looked at again.
NextAgain(i) == [iter EXCEPT !.count = @ + 1, !.index = i]

NextAfter(i) == [iter EXCEPT !.count = @ + 1, !.index = i + 1]

\* next() returns an entry, or NULL, after which the iterator is done with.
next ==
  /\ panic = "no" /\ iter # Unused
  /\ \/ /\ iter.initial # modification_count
        /\ panic' = "concurrent modification"
        /\ UNCHANGED <<iter, visited, since>>
     \/ /\ iter.initial = modification_count /\ iter.count >= table.size
        /\ iter' = Unused /\ visited' = {} /\ since' = 0
        /\ UNCHANGED panic
     \/ /\ iter.initial = modification_count /\ iter.count < table.size
        /\ IF Ahead = {}
           THEN panic' = "no next item" /\ UNCHANGED <<iter, visited>>
           ELSE /\ iter' = NextAfter(Least(Ahead))
                /\ visited' = visited \cup {table.entries[Least(Ahead)].key}
                /\ UNCHANGED panic
        /\ UNCHANGED since
  /\ UNCHANGED <<Hash, table, modification_count>>

Next ==
  \/ \E k \in Keys :
       remove(k) \/ \E v \in Values : put(k, v) \/ put_unique(k, v)
  \/ clear \/ entry_iterator \/ next

Spec == Init /\ [][Next]_vars

-----------------------------------------------------------------------------
Entries == [key : Keys, value : Values, distance : Nat]

\* Type invariant of the table.
TypeOK ==
  /\ Hash \in HashFunctions
  /\ DOMAIN table.entries = 0..(Capacity(table) - 1)
  /\ \A i \in Used(table) : table.entries[i] \in Entries
  /\ table.size \in 0..Capacity(table) /\ table.max_distance \in Nat
  /\ modification_count \in 0..(CountRange - 1) /\ since \in 0..CountRange
  /\ iter = Unused \/ iter.index \in 0..Capacity(table) \/ since > 0

\* The places of the table are those of a Robin Hood table: an entry knows how
\* far it is from its start, no place between is unused or taken by an entry
\* that is much closer to its own start, no search has to go further than
\* max_distance, and no key is stored twice.
WellPlaced ==
  /\ TypeOK
  /\ \A i \in Used(table) :
       LET e == table.entries[i] IN
       /\ e.distance = (i - Hash[e.key]) % Capacity(table)
       /\ e.distance <= table.max_distance
       /\ \A q \in 0..(e.distance - 1) :
            LET f == table.entries[Slot(table, e.key, q)] IN
            f # Unused /\ f.distance >= q
  /\ \A i, j \in Used(table) : table.entries[i].key = table.entries[j].key => i = j

Contents ==
  [k \in {table.entries[i].key : i \in Used(table)} |->
     table.entries[CHOOSE i \in Used(table) : table.entries[i].key = k].value]

\* get(), maybe_get() and put_unique() find exactly what is stored: the search
\* that stops at the first unused entry, or after max_distance rounds, misses
\* nothing after any sequence of insertions, displacements and removals.
LookupsAgree ==
  \A k \in Keys :
    /\ Found(table, k) <=> k \in DOMAIN Contents
    /\ Found(table, k) => internal_get(table, k) = Contents[k]

\* _size is the number of used entries and stays under 60% of the capacity, so
\* a search, a put and a removal always meet an unused entry: none of the
\* zig_panic() calls that guard the table against itself (lines 115, 135 and
\* 218) is reached, unless _modification_count has gone round since the
\* iterator was made.
NeverInconsistent ==
  /\ table.size = Cardinality(Used(table)) /\ ~TooFull(table)
  /\ since < CountRange => panic \in {"no", "concurrent modification"}

\* next() returns NULL only when it has returned every entry of a table that
\* was not changed ("you must not modify the underlying HashMap while this
\* iterator is still in use", line 151), and returns none twice.
IterationComplete ==
  iter # Unused /\ since = 0 =>
    /\ Cardinality(visited) = iter.count
    /\ iter.count >= table.size => visited = DOMAIN Contents

\* An entry is returned only by an iterator under which the table has not
\* changed since it was made: "this is used to detect bugs where a hashtable is
\* edited while an iterator is running" (line 162).  Exempt is a table changed
\* CountRange times, after which _modification_count is what it was.
ChangesNoticed ==
  [][iter # Unused /\ iter' # Unused /\ iter'.count > iter.count
       => since \in {0, CountRange}]_vars

\* The table is a map, whatever the places of its entries and its growth.
ImplementsMap == INSTANCE AbstractMap WITH map <- Contents

MapSpec == ImplementsMap!Spec
=============================================================================
