--------------------------- MODULE HashMapProofs ---------------------------
(***************************************************************************)
(* The hash table of stage1 is a map, for every set of keys, every hash    *)
(* function, every initial capacity and any number of growths.             *)
(*                                                                         *)
(* What WellPlaced says of a search is not inductive in a useful form: it  *)
(* speaks of all the places between an entry and its start, and a removal  *)
(* moves them.  The invariant says it of neighbours only (PlacedAt): the   *)
(* entry before one that is not at its start is at most one round closer   *)
(* to its own.  Chain goes from neighbours to the whole search.            *)
(*                                                                         *)
(* A put is followed round by round (InHand, InTable), a growth element by *)
(* element (Dumped), a removal in one step (Gap, Shift).  The operators    *)
(* take the hash function and the capacity as parameters, because a growth *)
(* works on two tables at once.                                            *)
(***************************************************************************)
EXTENDS HashMap, TLAPS, FiniteSetTheorems, WellFoundedInduction

\* A set of natural numbers that is not empty has a least element.
LEMMA LeastNat ==
  ASSUME NEW T \in SUBSET Nat, T # {}
  PROVE  \E x \in T : \A y \in T : x <= y
<1> DEFINE R == {p \in Nat \X Nat : p[1] < p[2]}
<1>1. IsWellFoundedOn(OpToRel(<, Nat), Nat)
  BY NatLessThanWellFounded
<1>2. OpToRel(<, Nat) = R
  BY DEF OpToRel
<1>3. IsWellFoundedOn(R, Nat)
  BY <1>1, <1>2
<1> HIDE DEF R
<1>4. PICK x \in T : \A y \in T : ~(<<y, x>> \in R)
  BY <1>3, WFMin
<1>5. ASSUME NEW y \in T PROVE x <= y
  <2>1. <<y, x>> \in Nat \X Nat /\ <<y, x>>[1] = y /\ <<y, x>>[2] = x
    OBVIOUS
  <2>2. ~(<<y, x>>[1] < <<y, x>>[2])
    BY <1>4, <2>1 DEF R
  <2>3. QED
    BY <2>1, <2>2
<1>6. QED
  BY <1>5

\* Induction, stated with sets.
LEMMA Induct ==
  ASSUME NEW S \in SUBSET Nat, 0 \in S, \A n \in S : n + 1 \in S
  PROVE  S = Nat
<1> SUFFICES ASSUME Nat \ S # {} PROVE FALSE
  OBVIOUS
<1>1. PICK x \in Nat \ S : \A y \in Nat \ S : x <= y
  BY LeastNat
<1>2. x # 0 /\ x - 1 \in Nat /\ x - 1 \notin Nat \ S
  BY <1>1
<1>3. QED
  BY <1>2

-----------------------------------------------------------------------------
(* Places and distances. *)

\* Where the search for a key starts, in a table of c places.
Start(H, c, k) == H[k] % c

\* The place of a round, and the places before and after a place.
Place(H, c, k, r) == IF Start(H, c, k) + r < c THEN Start(H, c, k) + r ELSE Start(H, c, k) + r - c
Before(c, i) == IF i = 0 THEN c - 1 ELSE i - 1
After(c, i) == IF i = c - 1 THEN 0 ELSE i + 1

\* How far a place is from where the search for a key starts.
Far(H, c, k, i) == IF i >= Start(H, c, k) THEN i - Start(H, c, k) ELSE i - Start(H, c, k) + c

\* Division, of integers.
LEMMA Quotient ==
  ASSUME NEW a \in Int, NEW b \in Nat \ {0}
  PROVE  /\ a % b \in 0..(b - 1)
         /\ \E q \in Int : a = q * b + (a % b)
<1> DEFINE u == a \div b
           v == a % b
<1>1. u \in Int
  OBVIOUS
<1>2. v \in 0..(b - 1)
  OBVIOUS
<1>3. a = b * u + v
  OBVIOUS
<1> HIDE DEF u, v
<1>4. b * u = u * b
  BY <1>1
<1>5. a = u * b + v
  BY <1>3, <1>4
<1>6. \E q \in Int : a = q * b + v
  BY <1>1, <1>5
<1>7. QED
  BY <1>2, <1>6 DEF v

\* A number's quotient and remainder are unique.
LEMMA Remainder ==
  ASSUME NEW a \in Int, NEW b \in Nat \ {0}, NEW q \in Int, NEW r \in 0..(b - 1), a = q * b + r
  PROVE  a % b = r
<1>1. a % b \in 0..(b - 1)
  BY Quotient
<1> DEFINE v == a % b
<1>2. PICK u \in Int : a = u * b + v
  BY Quotient
<1> HIDE DEF v
<1>3. CASE q = u
  BY <1>1, <1>2, <1>3 DEF v
<1>4. CASE q >= u + 1
  <2>1. q * b >= (u + 1) * b
    BY <1>4
  <2>2. (u + 1) * b = u * b + b
    OBVIOUS
  <2>3. QED
    BY <1>1, <1>2, <2>1, <2>2 DEF v
<1>5. CASE u >= q + 1
  <2>1. u * b >= (q + 1) * b
    BY <1>5
  <2>2. (q + 1) * b = q * b + b
    OBVIOUS
  <2>3. QED
    BY <1>1, <1>2, <2>1, <2>2 DEF v
<1>6. QED
  BY <1>3, <1>4, <1>5

\* % of a number that is off by at most one round.
LEMMA NearRemainder ==
  ASSUME NEW c \in Nat \ {0}, NEW x \in Int
  PROVE  /\ x \in 0..(c - 1) => x % c = x
         /\ x \in c..(2 * c - 1) => x % c = x - c
         /\ x \in (-c)..(-1) => x % c = x + c
<1>1. ASSUME x \in 0..(c - 1) PROVE x % c = x
  <2>1. x = 0 * c + x
    OBVIOUS
  <2>2. QED
    BY <1>1, <2>1, Remainder
<1>2. ASSUME x \in c..(2 * c - 1) PROVE x % c = x - c
  <2>1. x = 1 * c + (x - c) /\ x - c \in 0..(c - 1)
    BY <1>2
  <2>2. QED
    BY <2>1, Remainder
<1>3. ASSUME x \in (-c)..(-1) PROVE x % c = x + c
  <2>1. x = (-1) * c + (x + c) /\ x + c \in 0..(c - 1)
    BY <1>3
  <2>2. QED
    BY <2>1, Remainder
<1>4. QED
  BY <1>1, <1>2, <1>3

\* The distance of the code, which takes the hash and not the start.
LEMMA FarIs ==
  ASSUME NEW H \in [Keys -> Nat], NEW c \in Nat \ {0}, NEW k \in Keys, NEW i \in 0..(c - 1)
  PROVE  (i - H[k]) % c = Far(H, c, k, i)
<1> DEFINE h == H[k]
           s == h % c
<1>1. h \in Nat /\ h \in Int
  OBVIOUS
<1> HIDE DEF h
<1>2. s \in 0..(c - 1)
  BY <1>1, Quotient
<1>3. PICK q \in Int : h = q * c + s
  BY <1>1, Quotient
<1> HIDE DEF s
<1>4. CASE i >= s
  <2>1. i - h = (-q) * c + (i - s) /\ i - s \in 0..(c - 1) /\ -q \in Int /\ i - h \in Int
    BY <1>1, <1>2, <1>3, <1>4
  <2>2. (i - h) % c = i - s
    BY <2>1, Remainder
  <2>3. QED
    BY <1>4, <2>2 DEF Far, Start, h, s
<1>5. CASE i < s
  <2>1. (-q - 1) * c = (-q) * c - c
    OBVIOUS
  <2>2. i - h = (-q - 1) * c + (i - s + c) /\ i - s + c \in 0..(c - 1) /\ -q - 1 \in Int
          /\ i - h \in Int
    BY <1>1, <1>2, <1>3, <1>5, <2>1
  <2>3. (i - h) % c = i - s + c
    BY <2>2, Remainder
  <2>4. ~(i >= s)
    BY <1>2, <1>5
  <2>5. QED
    BY <2>3, <2>4 DEF Far, Start, h, s
<1>6. QED
  BY <1>2, <1>4, <1>5

\* A search starts in the table.
LEMMA StartIn ==
  ASSUME NEW H \in [Keys -> Nat], NEW c \in Nat \ {0}, NEW k \in Keys
  PROVE  Start(H, c, k) \in 0..(c - 1)
<1>1. H[k] \in Int
  OBVIOUS
<1>2. QED
  BY <1>1, Quotient DEF Start

\* Round r of a search is at the place that is r from its start, and the
\* rounds go from place to place.
LEMMA PlaceIn ==
  ASSUME NEW H \in [Keys -> Nat], NEW c \in Nat \ {0}, NEW k \in Keys, NEW r \in 0..c
  PROVE  /\ Place(H, c, k, r) \in 0..(c - 1)
         /\ Place(H, c, k, 0) = Start(H, c, k)
         /\ r < c => Far(H, c, k, Place(H, c, k, r)) = r
         /\ r < c => Place(H, c, k, r + 1) = After(c, Place(H, c, k, r))
         /\ r > 0 => Place(H, c, k, r - 1) = Before(c, Place(H, c, k, r))
<1> DEFINE h == Start(H, c, k)
<1>1. h \in 0..(c - 1)
  BY StartIn
<1> HIDE DEF h
<1>2. QED
  BY <1>1 DEF Place, Far, Before, After, h

\* A place is reached in the round of its distance, and distances grow by one
\* from place to place.
LEMMA FarIn ==
  ASSUME NEW H \in [Keys -> Nat], NEW c \in Nat \ {0}, NEW k \in Keys, NEW i \in 0..(c - 1)
  PROVE  /\ Far(H, c, k, i) \in 0..(c - 1)
         /\ Place(H, c, k, Far(H, c, k, i)) = i
         /\ Far(H, c, k, i) > 0 => Far(H, c, k, Before(c, i)) = Far(H, c, k, i) - 1
         /\ Far(H, c, k, i) < c - 1 => Far(H, c, k, After(c, i)) = Far(H, c, k, i) + 1
<1> DEFINE h == Start(H, c, k)
<1>1. h \in 0..(c - 1)
  BY StartIn
<1> HIDE DEF h
<1>2. QED
  BY <1>1 DEF Place, Far, Before, After, h

\* The places before and after a place.
LEMMA Neighbours ==
  ASSUME NEW c \in Nat \ {0}, NEW i \in 0..(c - 1)
  PROVE  /\ Before(c, i) \in 0..(c - 1) /\ After(c, i) \in 0..(c - 1)
         /\ Before(c, After(c, i)) = i /\ After(c, Before(c, i)) = i
         /\ c > 1 => Before(c, i) # i
  BY DEF Before, After

\* A table of c places.
LEMMA CapacityIs ==
  ASSUME NEW c \in Nat \ {0}, NEW t, DOMAIN t.entries = 0..(c - 1)
  PROVE  Capacity(t) = c
<1>1. Cardinality(0..(c - 1)) = c
  BY FS_Interval
<1>2. QED
  BY <1>1 DEF Capacity

\* The index of a round.
LEMMA SlotIs ==
  ASSUME Hash \in [Keys -> Nat], NEW c \in Nat \ {0}, NEW t, DOMAIN t.entries = 0..(c - 1),
         NEW k \in Keys, NEW r \in 0..c
  PROVE  Slot(t, k, r) = Place(Hash, c, k, r)
<1> DEFINE h == Start(Hash, c, k)
<1>1. h \in 0..(c - 1)
  BY StartIn
<1>2. Slot(t, k, r) = (h + r) % c
  BY CapacityIs DEF Slot, key_to_index, Start
<1> HIDE DEF h
<1>3. CASE h + r < c
  <2>1. (h + r) % c = h + r
    <3>1. h + r \in Int /\ h + r \in 0..(c - 1)
      BY <1>1, <1>3
    <3>2. QED
      BY <3>1, NearRemainder
  <2>2. QED
    BY <1>2, <1>3, <2>1 DEF Place, h
<1>4. CASE ~(h + r < c)
  <2>1. (h + r) % c = h + r - c
    <3> DEFINE x == h + r
    <3>1. x \in Int /\ x \in c..(2 * c - 1)
      BY <1>1, <1>4
    <3> HIDE DEF x
    <3>2. x % c = x - c
      BY <3>1, NearRemainder
    <3>3. QED
      BY <1>1, <3>2 DEF x
  <2>2. QED
    BY <1>2, <1>4, <2>1 DEF Place, h
<1>5. QED
  BY <1>3, <1>4

Tables(c) ==
  [entries : [0..(c - 1) -> Entries \cup {Unused}], size : Nat, max_distance : 0..(c - 1)]

\* An entry knows its distance, which is at most max_distance; unless it is at
\* its start, the place before it is used by an entry that is no more than one
\* round closer to its own start.
PlacedAt(H, c, t, i) ==
  LET e == t.entries[i]
      f == t.entries[Before(c, i)]
  IN /\ e.distance = Far(H, c, e.key, i) /\ e.distance <= t.max_distance
     /\ e.distance > 0 => f # Unused /\ f.distance >= e.distance - 1

Placed(H, c, t) == \A i \in Used(t) : PlacedAt(H, c, t, i)

Once(t) == \A i, j \in Used(t) : t.entries[i].key = t.entries[j].key => i = j

RobinHood(H, c, t) == t \in Tables(c) /\ Placed(H, c, t) /\ Once(t)

Sized(t) == t.size = Cardinality(Used(t))

Has(t, k, v) == \E i \in Used(t) : t.entries[i].key = k /\ t.entries[i].value = v

Stored(t, i, x) ==
  [t EXCEPT !.entries[i] = x, !.max_distance = Bigger(@, x.distance)]

\* An entry x that may be stored at place i.
Fits(H, c, t, i, x) ==
  /\ x \in Entries /\ x.distance = Far(H, c, x.key, i)
  /\ x.distance > 0 => /\ t.entries[Before(c, i)] # Unused
                       /\ t.entries[Before(c, i)].distance >= x.distance - 1
  /\ i \in Used(t) => t.entries[i].distance <= x.distance
  /\ \A j \in Used(t) : j # i => t.entries[j].key # x.key

\* What is stored elsewhere than at place i.
Elsewhere(t, i, k, v) ==
  \E j \in Used(t) : j # i /\ t.entries[j].key = k /\ t.entries[j].value = v

\* What a table is made of.
LEMMA TableParts ==
  ASSUME NEW c \in Nat \ {0}, NEW t \in Tables(c)
  PROVE  /\ DOMAIN t.entries = 0..(c - 1) /\ Capacity(t) = c
         /\ t.size \in Nat /\ t.max_distance \in 0..(c - 1)
         /\ t.entries \in [0..(c - 1) -> Entries \cup {Unused}]
         /\ Used(t) \subseteq 0..(c - 1)
         /\ \A i \in 0..(c - 1) : i \in Used(t) <=> t.entries[i] # Unused
         /\ \A i \in Used(t) : /\ t.entries[i] \in Entries /\ t.entries[i].key \in Keys
                               /\ t.entries[i].value \in Values /\ t.entries[i].distance \in Nat
         /\ IsFiniteSet(Used(t))
<1>1. DOMAIN t.entries = 0..(c - 1)
  BY DEF Tables
<1>2. Capacity(t) = c
  BY <1>1, CapacityIs
<1>3. /\ t.size \in Nat /\ t.max_distance \in 0..(c - 1)
      /\ t.entries \in [0..(c - 1) -> Entries \cup {Unused}]
  BY DEF Tables
<1>4. /\ Used(t) \subseteq 0..(c - 1)
      /\ \A i \in 0..(c - 1) : i \in Used(t) <=> t.entries[i] # Unused
  BY <1>1 DEF Used
<1>5. \A i \in Used(t) : t.entries[i] \in Entries
  BY <1>3, <1>4
<1>6. IsFiniteSet(0..(c - 1))
  BY FS_Interval
<1>7. IsFiniteSet(Used(t))
  BY <1>4, <1>6, FS_Subset
<1>8. QED
  BY <1>1, <1>2, <1>3, <1>4, <1>5, <1>7 DEF Entries

\* The places from the start of an entry's search up to the entry are used, by
\* entries that are at least as far from their starts.
LEMMA Chain ==
  ASSUME NEW H \in [Keys -> Nat], NEW c \in Nat \ {0}, NEW t, RobinHood(H, c, t),
         NEW i \in Used(t), NEW q \in 0..(t.entries[i].distance)
  PROVE  LET p == Place(H, c, t.entries[i].key, q)
         IN p \in Used(t) /\ t.entries[p].distance >= q
<1> DEFINE k == t.entries[i].key
           d == t.entries[i].distance
           P(r) == Place(H, c, k, r)
           S == {m \in Nat : m <= d => /\ P(d - m) \in Used(t)
                                       /\ t.entries[P(d - m)].distance >= d - m}
<1>0. t \in Tables(c) /\ Placed(H, c, t)
  BY DEF RobinHood
<1>1. i \in 0..(c - 1) /\ k \in Keys /\ d \in Nat
  BY <1>0, TableParts
<1>2. d = Far(H, c, k, i)
  BY <1>0 DEF Placed, PlacedAt
<1>3. d \in 0..(c - 1) /\ P(d) = i
  BY <1>1, <1>2, FarIn
<1> HIDE DEF P, d, k
<1>4. 0 \in S
  <2>1. d - 0 = d
    BY <1>1
  <2>2. i \in Used(t) /\ t.entries[i].distance >= d
    BY <1>1 DEF d
  <2>3. QED
    BY <1>3, <2>1, <2>2
<1>5. ASSUME NEW m \in S PROVE m + 1 \in S
  <2> SUFFICES ASSUME m + 1 <= d
               PROVE  /\ P(d - (m + 1)) \in Used(t)
                      /\ t.entries[P(d - (m + 1))].distance >= d - (m + 1)
    OBVIOUS
  <2> DEFINE r == d - m
  <2>1. r \in 0..c /\ r > 0 /\ d - (m + 1) = r - 1
    BY <1>3
  <2>2. P(r) \in Used(t) /\ t.entries[P(r)].distance >= r
    BY <1>1
  <2> HIDE DEF r
  <2>3. P(r - 1) = Before(c, P(r)) /\ P(r) \in 0..(c - 1)
    BY <1>1, <2>1, PlaceIn DEF P
  <2>4. t.entries[P(r)].distance \in Nat
    BY <1>0, <2>2, TableParts
  <2>5. t.entries[P(r - 1)] # Unused /\ t.entries[P(r - 1)].distance >= t.entries[P(r)].distance - 1
    BY <1>0, <2>1, <2>2, <2>3, <2>4 DEF Placed, PlacedAt
  <2>6. P(r - 1) \in 0..(c - 1)
    BY <2>3, Neighbours
  <2>7. P(r - 1) \in Used(t)
    BY <1>0, <2>5, <2>6, TableParts
  <2>8. t.entries[P(r - 1)].distance \in Nat
    BY <1>0, <2>7, TableParts
  <2>9. QED
    BY <2>1, <2>2, <2>4, <2>5, <2>7, <2>8
<1>6. S = Nat
  <2>1. S \in SUBSET Nat
    OBVIOUS
  <2> HIDE DEF S
  <2>2. QED
    BY <1>4, <1>5, <2>1, Induct
<1>7. d - q \in S /\ d - (d - q) = q /\ d - q <= d
  <2>1. q \in 0..d
    BY DEF d
  <2> HIDE DEF S
  <2>2. QED
    BY <1>1, <1>6, <2>1
<1>8. P(q) \in Used(t) /\ t.entries[P(q)].distance >= q
  BY <1>7
<1>9. QED
  BY <1>8 DEF P, k

\* Storing an entry where it belongs keeps the table a Robin Hood table.
LEMMA Store ==
  ASSUME NEW H \in [Keys -> Nat], NEW c \in Nat \ {0}, NEW t, RobinHood(H, c, t),
         NEW i \in 0..(c - 1), NEW x, Fits(H, c, t, i, x)
  PROVE  /\ RobinHood(H, c, Stored(t, i, x))
         /\ Used(Stored(t, i, x)) = Used(t) \cup {i}
         /\ Stored(t, i, x).size = t.size
         /\ Stored(t, i, x).entries[i] = x
         /\ \A j \in 0..(c - 1) : j # i => Stored(t, i, x).entries[j] = t.entries[j]
         /\ \A k, v : Has(Stored(t, i, x), k, v) <=>
                        (k = x.key /\ v = x.value) \/ Elsewhere(t, i, k, v)
<1> DEFINE s == Stored(t, i, x)
<1> USE DEF Fits, Elsewhere
<1>0. t \in Tables(c) /\ Placed(H, c, t) /\ Once(t)
  BY DEF RobinHood
<1>1. x.key \in Keys /\ x.distance \in Nat /\ x # Unused
  BY HashMapAssumption DEF Entries
<1>2. x.distance \in 0..(c - 1)
  BY <1>1, FarIn
<1>m. Bigger(t.max_distance, x.distance) \in 0..(c - 1)
      /\ Bigger(t.max_distance, x.distance) >= t.max_distance
      /\ Bigger(t.max_distance, x.distance) >= x.distance
  BY <1>0, <1>2, TableParts DEF Bigger
<1>3. /\ s.entries = [t.entries EXCEPT ![i] = x] /\ s.size = t.size
      /\ s.max_distance = Bigger(t.max_distance, x.distance)
      /\ s \in Tables(c)
  <2>1. /\ t.entries \in [0..(c - 1) -> Entries \cup {Unused}] /\ t.size \in Nat
        /\ t.max_distance \in 0..(c - 1)
    BY <1>0, TableParts
  <2>2. s = [entries |-> [t.entries EXCEPT ![i] = x], size |-> t.size,
             max_distance |-> Bigger(t.max_distance, x.distance)]
    <3>1. t = [entries |-> t.entries, size |-> t.size, max_distance |-> t.max_distance]
      BY <1>0 DEF Tables
    <3> DEFINE a == [t EXCEPT !.entries[i] = x]
    <3>2. a = [entries |-> [t.entries EXCEPT ![i] = x], size |-> t.size,
               max_distance |-> t.max_distance]
      BY <3>1
    <3>3. s = [a EXCEPT !.max_distance = Bigger(@, x.distance)]
      BY Zenon DEF Stored
    <3> HIDE DEF a
    <3>4. QED
      BY <3>2, <3>3
  <2>3. QED
    BY <1>m, <2>1, <2>2 DEF Tables
<1>4. /\ s.entries[i] = x
      /\ \A j \in 0..(c - 1) : j # i => s.entries[j] = t.entries[j]
  BY <1>0, <1>3, TableParts
<1> HIDE DEF s
<1>5. Used(s) = Used(t) \cup {i}
  <2>1. \A j \in 0..(c - 1) : j \in Used(s) <=> j \in Used(t) \/ j = i
    BY <1>0, <1>1, <1>3, <1>4, TableParts
  <2>2. Used(s) \subseteq 0..(c - 1) /\ Used(t) \subseteq 0..(c - 1)
    BY <1>0, <1>3, TableParts
  <2>3. QED
    BY <2>1, <2>2
<1>t. \A j \in Used(t) : /\ j \in 0..(c - 1) /\ t.entries[j].distance \in Nat
                         /\ t.entries[j].distance = Far(H, c, t.entries[j].key, j)
                         /\ t.entries[j].distance <= t.max_distance
                         /\ t.entries[j].distance > 0 =>
                              /\ Before(c, j) \in Used(t)
                              /\ t.entries[Before(c, j)].distance >= t.entries[j].distance - 1
  <2> SUFFICES ASSUME NEW j \in Used(t)
               PROVE  /\ j \in 0..(c - 1) /\ t.entries[j].distance \in Nat
                      /\ t.entries[j].distance = Far(H, c, t.entries[j].key, j)
                      /\ t.entries[j].distance <= t.max_distance
                      /\ t.entries[j].distance > 0 =>
                           /\ Before(c, j) \in Used(t)
                           /\ t.entries[Before(c, j)].distance >= t.entries[j].distance - 1
    OBVIOUS
  <2>1. j \in 0..(c - 1) /\ t.entries[j].distance \in Nat
    BY <1>0, TableParts
  <2>2. Before(c, j) \in 0..(c - 1)
    BY <2>1, Neighbours
  <2>3. QED
    BY <1>0, <2>1, <2>2, TableParts DEF Placed, PlacedAt
<1>6. Placed(H, c, s)
  <2> SUFFICES ASSUME NEW j \in Used(s) PROVE PlacedAt(H, c, s, j)
    BY DEF Placed
  <2>1. j \in 0..(c - 1) /\ Before(c, j) \in 0..(c - 1) /\ (c > 1 => Before(c, j) # j)
    BY <1>3, TableParts, Neighbours
  <2>2. CASE j = i
    <3>1. x.distance > 0 => Before(c, i) # i
      BY <1>2, <2>1, <2>2
    <3>2. QED
      BY <1>1, <1>3, <1>4, <1>m, <2>1, <2>2, <3>1 DEF PlacedAt
  <2>3. CASE j # i /\ Before(c, j) # i
    <3>1. j \in Used(t) /\ s.entries[j] = t.entries[j]
            /\ s.entries[Before(c, j)] = t.entries[Before(c, j)]
      BY <1>4, <1>5, <2>1, <2>3
    <3>2. t.max_distance \in Nat
      BY <1>0, TableParts
    <3>3. t.entries[j].distance <= s.max_distance
      BY <1>t, <1>3, <1>m, <3>1, <3>2
    <3>4. t.entries[j].distance > 0 => t.entries[Before(c, j)] # Unused
      BY <1>0, <1>t, <2>1, <3>1, TableParts
    <3>5. QED
      BY <1>t, <3>1, <3>3, <3>4 DEF PlacedAt
  <2>4. CASE j # i /\ Before(c, j) = i
    <3>1. j \in Used(t) /\ s.entries[j] = t.entries[j] /\ s.entries[Before(c, j)] = x
      BY <1>4, <1>5, <2>1, <2>4
    <3>2. t.max_distance \in Nat
      BY <1>0, TableParts
    <3>3. t.entries[j].distance <= s.max_distance
      BY <1>t, <1>3, <1>m, <3>1, <3>2
    <3>4. t.entries[j].distance > 0 => x.distance >= t.entries[j].distance - 1
      BY <1>1, <1>t, <2>4, <3>1
    <3>5. QED
      BY <1>1, <1>t, <3>1, <3>3, <3>4 DEF PlacedAt
  <2>5. QED
    BY <2>2, <2>3, <2>4
<1>7. Once(s)
  <2> SUFFICES ASSUME NEW j \in Used(s), NEW l \in Used(s), s.entries[j].key = s.entries[l].key
               PROVE  j = l
    BY DEF Once
  <2>1. j \in 0..(c - 1) /\ l \in 0..(c - 1)
    BY <1>3, TableParts
  <2>2. QED
    BY <1>0, <1>4, <1>5, <2>1 DEF Once
<1>8. ASSUME NEW k, NEW v
      PROVE  Has(s, k, v) <=>
               \/ k = x.key /\ v = x.value
               \/ \E j \in Used(t) : j # i /\ t.entries[j].key = k /\ t.entries[j].value = v
  <2>1. \A j \in Used(t) : j # i => s.entries[j] = t.entries[j]
    BY <1>t, <1>4
  <2>2. QED
    BY <1>4, <1>5, <2>1 DEF Has
<1>9. QED
  BY <1>3, <1>4, <1>5, <1>6, <1>7, <1>8 DEF RobinHood, s

States(c) == [table : Tables(c), done : BOOLEAN, entry : Entries]

\* What a table holds once a key has been put into t.
Wanted(t, key, value, k, v) == (k = key /\ v = value) \/ (k # key /\ Has(t, k, v))

\* The state s before round n of a put into t: an entry in hand that may be
\* stored at the place of the round, and no place unused so far.
InHand(H, c, t, key, value, n, s) ==
  LET x == s.entry
      i == Place(H, c, key, n)
      f == s.table.entries[Before(c, i)]
  IN /\ s \in States(c) /\ ~s.done
     /\ RobinHood(H, c, s.table) /\ Used(s.table) = Used(t) /\ s.table.size = t.size
     /\ x.distance <= n
     /\ \A q \in 0..(n - 1) : Place(H, c, key, q) \in Used(t)
     /\ n < c => x.distance = Far(H, c, x.key, i)
     /\ n < c /\ x.distance > 0 => f # Unused /\ f.distance >= x.distance - 1
     /\ \A j \in Used(s.table) :
          s.table.entries[j].key = x.key => x.distance <= s.table.entries[j].distance
     /\ \A k, v : Wanted(s.table, x.key, x.value, k, v) <=> Wanted(t, key, value, k, v)

\* The put has ended.
InTable(H, c, t, key, value, s) ==
  /\ s \in States(c) /\ s.done
  /\ RobinHood(H, c, s.table) /\ Sized(s.table)
  /\ s.table.size \in {t.size, t.size + 1}
  /\ \A k, v : Has(s.table, k, v) <=> Wanted(t, key, value, k, v)

\* The facts a round starts from.
LEMMA RoundFacts ==
  ASSUME NEW H \in [Keys -> Nat], NEW c \in Nat \ {0}, NEW t \in Tables(c),
         NEW key \in Keys, NEW value \in Values, NEW n \in 0..(c - 1), NEW s,
         InHand(H, c, t, key, value, n, s)
  PROVE  /\ Place(H, c, key, n) \in 0..(c - 1)
         /\ Place(H, c, key, n + 1) = After(c, Place(H, c, key, n))
         /\ s.table \in Tables(c) /\ s.entry \in Entries
         /\ s.entry.key \in Keys /\ s.entry.distance \in Nat /\ s.entry.value \in Values
         /\ s.entry.distance = Far(H, c, s.entry.key, Place(H, c, key, n))
<1>1. n \in 0..c /\ n < c
  OBVIOUS
<1>2. s \in States(c) /\ s.done = FALSE
  BY DEF InHand, States
<1>3. s.table \in Tables(c) /\ s.entry \in Entries
  BY <1>2 DEF States
<1>4. QED
  BY <1>1, <1>2, <1>3, PlaceIn DEF InHand, States, Entries

\* The records of a round.
LEMMA RoundRecords ==
  ASSUME NEW H, NEW c, NEW t, NEW key, NEW value, NEW n, NEW s,
         InHand(H, c, t, key, value, n, s)
  PROVE  /\ s = [table |-> s.table, done |-> FALSE, entry |-> s.entry]
         /\ s.entry = [key |-> s.entry.key, value |-> s.entry.value,
                       distance |-> s.entry.distance]
<1>1. s \in States(c) /\ s.done = FALSE
  BY DEF InHand, States
<1>2. s.entry \in Entries
  BY <1>1 DEF States
<1>3. QED
  BY <1>1, <1>2 DEF States, Entries

\* Replacing the entry in hand.
LEMMA WithEntry ==
  ASSUME NEW s, NEW T, NEW D, NEW x, s = [table |-> T, done |-> D, entry |-> x], NEW y
  PROVE  [s EXCEPT !.entry = y] = [table |-> T, done |-> D, entry |-> y]
  OBVIOUS

\* A round that passes an entry that is at least as far from its start.
LEMMA RoundPasses ==
  ASSUME NEW H \in [Keys -> Nat], NEW c \in Nat \ {0}, NEW t \in Tables(c),
         NEW key \in Keys, NEW value \in Values, NEW n \in 0..(c - 1), NEW s,
         InHand(H, c, t, key, value, n, s),
         NEW i, i = Place(H, c, key, n), i \in Used(s.table),
         s.table.entries[i].key # s.entry.key,
         s.table.entries[i].distance >= s.entry.distance
  PROVE  InHand(H, c, t, key, value, n + 1, [s EXCEPT !.entry.distance = @ + 1])
<1> DEFINE x == s.entry
           d == s.entry.distance
           y == [key |-> x.key, value |-> x.value, distance |-> d + 1]
           z == [table |-> s.table, done |-> FALSE, entry |-> y]
<1>1. /\ i \in 0..(c - 1) /\ Place(H, c, key, n + 1) = After(c, i)
      /\ s.table \in Tables(c) /\ x \in Entries
      /\ x.key \in Keys /\ d \in Nat /\ x.value \in Values
      /\ d = Far(H, c, x.key, i)
  BY RoundFacts
<1>r. /\ s = [table |-> s.table, done |-> FALSE, entry |-> x]
      /\ x = [key |-> x.key, value |-> x.value, distance |-> d]
  BY RoundRecords
<1>2. [s EXCEPT !.entry.distance = @ + 1] = z
  <2>1. [s EXCEPT !.entry.distance = @ + 1] = [s EXCEPT !.entry = [x EXCEPT !.distance = d + 1]]
    OBVIOUS
  <2>2. [x EXCEPT !.distance = d + 1] = y
    BY <1>r
  <2> DEFINE T == s.table
             D == FALSE
  <2>3. s = [table |-> T, done |-> D, entry |-> x]
    BY <1>r
  <2> HIDE DEF T, D, x, y
  <2>5. [s EXCEPT !.entry = y] = [table |-> T, done |-> D, entry |-> y]
    BY <2>3, WithEntry
  <2>6. [s EXCEPT !.entry = y] = z
    BY <2>5 DEF T, D
  <2>7. QED
    BY <2>1, <2>2, <2>6
<1>3. /\ y \in Entries /\ y.key = x.key /\ y.value = x.value /\ y.distance = d + 1
      /\ z \in States(c) /\ z.done = FALSE /\ z.table = s.table /\ z.entry = y
  BY <1>1 DEF Entries, States
<1>4. d <= n /\ RobinHood(H, c, s.table) /\ Used(s.table) = Used(t) /\ s.table.size = t.size
  BY DEF InHand
<1>5. \A q \in 0..n : Place(H, c, key, q) \in Used(t)
  <2>1. \A q \in 0..n : q \in 0..(n - 1) \/ q = n
    OBVIOUS
  <2>2. QED
    BY <1>4, <2>1 DEF InHand
<1>6. ASSUME n + 1 < c
      PROVE  /\ d + 1 = Far(H, c, x.key, After(c, i))
             /\ s.table.entries[Before(c, After(c, i))] # Unused
             /\ s.table.entries[Before(c, After(c, i))].distance >= d
  <2>1. d < c - 1
    BY <1>1, <1>4, <1>6
  <2>2. d + 1 = Far(H, c, x.key, After(c, i))
    BY <1>1, <2>1, FarIn
  <2>3. Before(c, After(c, i)) = i
    BY <1>1, Neighbours
  <2>4. s.table.entries[i] # Unused
    BY <1>1, TableParts
  <2>5. QED
    BY <2>2, <2>3, <2>4
<1>7. ASSUME NEW j \in Used(s.table), s.table.entries[j].key = x.key
      PROVE  d + 1 <= s.table.entries[j].distance
  <2>1. d <= s.table.entries[j].distance /\ j # i
    BY <1>7 DEF InHand
  <2>2. /\ s.table.entries[j].distance = Far(H, c, x.key, j) /\ j \in 0..(c - 1)
        /\ s.table.entries[j].distance \in Nat
    BY <1>1, <1>4, <1>7, TableParts DEF RobinHood, Placed, PlacedAt
  <2>3. s.table.entries[j].distance # d
    BY <1>1, <2>1, <2>2, FarIn
  <2>4. QED
    BY <1>1, <2>1, <2>2, <2>3
<1>8. \A k, v : Wanted(s.table, x.key, x.value, k, v) <=> Wanted(t, key, value, k, v)
  BY DEF InHand
<1> HIDE DEF x, d, y, z
<1>9. InHand(H, c, t, key, value, n + 1, z)
  <2>1. n + 1 - 1 = n /\ d + 1 <= n + 1 /\ d + 1 - 1 = d
    BY <1>1, <1>4
  <2>2. \A q \in 0..(n + 1 - 1) : Place(H, c, key, q) \in Used(t)
    BY <1>5, <2>1
  <2>3. QED
    BY <1>1, <1>3, <1>4, <1>6, <1>7, <1>8, <2>1, <2>2 DEF InHand
<1>10. QED
  BY <1>2, <1>9

\* The entry in hand is nowhere in the table if the entry at the place of the
\* round is closer to its start, or if the place is unused.
LEMMA HandIsNew ==
  ASSUME NEW H \in [Keys -> Nat], NEW c \in Nat \ {0}, NEW t \in Tables(c),
         NEW key \in Keys, NEW value \in Values, NEW n \in 0..(c - 1), NEW s,
         InHand(H, c, t, key, value, n, s),
         NEW i, i = Place(H, c, key, n),
         i \in Used(s.table) => s.table.entries[i].distance < s.entry.distance,
         NEW j \in Used(s.table)
  PROVE  s.table.entries[j].key # s.entry.key
<1> SUFFICES ASSUME s.table.entries[j].key = s.entry.key PROVE FALSE
  OBVIOUS
<1> DEFINE x == s.entry
           d == s.entry.distance
<1>1. /\ i \in 0..(c - 1) /\ s.table \in Tables(c) /\ x.key \in Keys /\ d \in Nat
      /\ d = Far(H, c, x.key, i)
  BY RoundFacts
<1>2. d <= s.table.entries[j].distance /\ RobinHood(H, c, s.table)
  BY DEF InHand
<1>3. s.table.entries[j].distance \in Nat
  BY <1>1, TableParts
<1>4. Place(H, c, x.key, d) = i
  BY <1>1, FarIn
<1>5. i \in Used(s.table) /\ s.table.entries[i].distance >= d
  <2>1. d \in 0..(s.table.entries[j].distance)
    BY <1>1, <1>2, <1>3
  <2>2. QED
    BY <1>2, <1>4, <2>1, Chain
<1>6. s.table.entries[i].distance \in Nat
  BY <1>1, <1>5, TableParts
<1>7. QED
  BY <1>1, <1>5, <1>6

\* A round that displaces an entry that is closer to its start.
LEMMA RoundDisplaces ==
  ASSUME NEW H \in [Keys -> Nat], NEW c \in Nat \ {0}, NEW t \in Tables(c),
         NEW key \in Keys, NEW value \in Values, NEW n \in 0..(c - 1), NEW s,
         InHand(H, c, t, key, value, n, s),
         NEW i, i = Place(H, c, key, n), i \in Used(s.table),
         s.table.entries[i].distance < s.entry.distance
  PROVE  InHand(H, c, t, key, value, n + 1,
                [table |-> Stored(s.table, i, s.entry), done |-> FALSE,
                 entry |-> [s.table.entries[i] EXCEPT !.distance = @ + 1]])
<1> DEFINE x == s.entry
           d == s.entry.distance
           e == s.table.entries[i]
           b == s.table.entries[i].distance
           u == Stored(s.table, i, x)
           y == [key |-> e.key, value |-> e.value, distance |-> b + 1]
           z == [table |-> u, done |-> FALSE, entry |-> y]
<1>1. /\ i \in 0..(c - 1) /\ Place(H, c, key, n + 1) = After(c, i)
      /\ s.table \in Tables(c) /\ x \in Entries
      /\ x.key \in Keys /\ d \in Nat /\ x.value \in Values
      /\ d = Far(H, c, x.key, i)
  BY RoundFacts
<1>2. /\ d <= n /\ RobinHood(H, c, s.table) /\ Used(s.table) = Used(t) /\ s.table.size = t.size
      /\ \A q \in 0..(n - 1) : Place(H, c, key, q) \in Used(t)
      /\ d > 0 => /\ s.table.entries[Before(c, i)] # Unused
                  /\ s.table.entries[Before(c, i)].distance >= d - 1
  BY DEF InHand
<1>3. \A j \in Used(s.table) : s.table.entries[j].key # x.key
  BY HandIsNew
<1>4. /\ e \in Entries /\ e.key \in Keys /\ e.value \in Values /\ b \in Nat
      /\ b = Far(H, c, e.key, i)
  BY <1>1, <1>2, TableParts DEF RobinHood, Placed, PlacedAt
<1>5. /\ RobinHood(H, c, u) /\ Used(u) = Used(s.table) \cup {i} /\ u.size = s.table.size
      /\ u.entries[i] = x
      /\ \A j \in 0..(c - 1) : j # i => u.entries[j] = s.table.entries[j]
      /\ \A k, v : Has(u, k, v) <=> (k = x.key /\ v = x.value) \/ Elsewhere(s.table, i, k, v)
  <2>1. Fits(H, c, s.table, i, x)
    BY <1>1, <1>2, <1>3, <1>4 DEF Fits
  <2>2. QED
    BY <1>1, <1>2, <2>1, Store
<1>6. u \in Tables(c) /\ u.entries[i] # Unused
  BY <1>1, <1>5, TableParts DEF RobinHood
<1>7. [e EXCEPT !.distance = @ + 1] = y
  BY <1>4 DEF Entries
<1>8. /\ y \in Entries /\ y.key = e.key /\ y.value = e.value /\ y.distance = b + 1
      /\ z \in States(c) /\ z.done = FALSE /\ z.table = u /\ z.entry = y
  BY <1>4, <1>6 DEF Entries, States
<1>9. \A q \in 0..n : Place(H, c, key, q) \in Used(t)
  <2>1. \A q \in 0..n : q \in 0..(n - 1) \/ q = n
    OBVIOUS
  <2>2. QED
    BY <1>2, <2>1
<1>10. ASSUME n + 1 < c
       PROVE  /\ b + 1 = Far(H, c, e.key, After(c, i))
              /\ u.entries[Before(c, After(c, i))] # Unused
              /\ u.entries[Before(c, After(c, i))].distance >= b
  <2>1. b < c - 1
    BY <1>1, <1>2, <1>4, <1>10
  <2>2. b + 1 = Far(H, c, e.key, After(c, i))
    BY <1>1, <1>4, <2>1, FarIn
  <2>3. Before(c, After(c, i)) = i
    BY <1>1, Neighbours
  <2>4. QED
    BY <1>1, <1>4, <1>5, <1>6, <2>2, <2>3
<1>11. \A j \in Used(u) : u.entries[j].key # e.key
  <2> SUFFICES ASSUME NEW j \in Used(u) PROVE u.entries[j].key # e.key
    OBVIOUS
  <2>1. CASE j = i
    BY <1>3, <1>5, <2>1
  <2>2. CASE j # i
    <3>1. j \in Used(s.table) /\ j \in 0..(c - 1)
      BY <1>1, <1>5, <2>2, TableParts
    <3>2. u.entries[j] = s.table.entries[j]
      BY <1>5, <2>2, <3>1
    <3>3. QED
      BY <1>2, <2>2, <3>1, <3>2 DEF RobinHood, Once
  <2>3. QED
    BY <2>1, <2>2
<1>12. ASSUME NEW k, NEW v
       PROVE  Wanted(u, e.key, e.value, k, v) <=> Wanted(t, key, value, k, v)
  <2>1. Wanted(s.table, x.key, x.value, k, v) <=> Wanted(t, key, value, k, v)
    BY DEF InHand
  <2>2. Has(s.table, k, v) => (k = e.key /\ v = e.value) \/ Elsewhere(s.table, i, k, v)
    BY DEF Has, Elsewhere
  <2>3. Has(s.table, e.key, e.value)
    BY DEF Has
  <2>4. Elsewhere(s.table, i, k, v) => Has(s.table, k, v) /\ k # e.key
    BY <1>2 DEF Has, RobinHood, Once, Elsewhere
  <2>5. Has(s.table, k, v) => k # x.key
    BY <1>3 DEF Has
  <2>6. e.key # x.key
    BY <1>3
  <2>7. Has(u, k, v) <=> (k = x.key /\ v = x.value) \/ Elsewhere(s.table, i, k, v)
    BY <1>5
  <2>8. QED
    BY <2>1, <2>2, <2>3, <2>4, <2>5, <2>6, <2>7 DEF Wanted
<1> HIDE DEF x, d, e, b, u, y, z
<1>13. InHand(H, c, t, key, value, n + 1, z)
  <2>1. n + 1 - 1 = n /\ b + 1 <= n + 1 /\ b + 1 - 1 = b
    BY <1>1, <1>2, <1>4 DEF b, d
  <2>2. \A q \in 0..(n + 1 - 1) : Place(H, c, key, q) \in Used(t)
    BY <1>9, <2>1
  <2>3. Used(u) = Used(t) /\ u.size = t.size
    BY <1>2, <1>5
  <2>4. z.entry.distance <= n + 1
    BY <1>8, <2>1
  <2>5. ASSUME n + 1 < c
        PROVE  /\ z.entry.distance = Far(H, c, z.entry.key, Place(H, c, key, n + 1))
               /\ z.table.entries[Before(c, Place(H, c, key, n + 1))] # Unused
               /\ z.table.entries[Before(c, Place(H, c, key, n + 1))].distance >= z.entry.distance - 1
    <3>1. /\ b + 1 = Far(H, c, e.key, After(c, i))
          /\ u.entries[Before(c, After(c, i))] # Unused
          /\ u.entries[Before(c, After(c, i))].distance >= b
      BY <1>10, <2>5
    <3>2. z.entry.distance - 1 = b
      BY <1>4, <1>8
    <3>3. QED
      BY <1>1, <1>8, <3>1, <3>2
  <2>6. \A j \in Used(z.table) : z.table.entries[j].key # z.entry.key
    BY <1>8, <1>11
  <2>7. \A k, v : Wanted(z.table, z.entry.key, z.entry.value, k, v) <=> Wanted(t, key, value, k, v)
    BY <1>8, <1>12
  <2>8. z \in States(c) /\ ~z.done /\ RobinHood(H, c, z.table) /\ Used(z.table) = Used(t)
        /\ z.table.size = t.size
    BY <1>5, <1>8, <2>3
  <2>9. QED
    BY <2>2, <2>4, <2>5, <2>6, <2>7, <2>8 DEF InHand
<1>14. QED
  BY <1>7, <1>13 DEF z, u, x, e

\* The last round: the place is unused, or has the key of the entry in hand.
LEMMA RoundEnds ==
  ASSUME NEW H \in [Keys -> Nat], NEW c \in Nat \ {0}, NEW t \in Tables(c), Sized(t),
         NEW key \in Keys, NEW value \in Values, NEW n \in 0..(c - 1), NEW s,
         InHand(H, c, t, key, value, n, s),
         NEW i, i = Place(H, c, key, n),
         i \in Used(s.table) => s.table.entries[i].key = s.entry.key,
         NEW m, m = IF i \in Used(s.table) THEN s.table.size ELSE s.table.size + 1,
         NEW z, z = [table |-> [Stored(s.table, i, s.entry) EXCEPT !.size = m], done |-> TRUE,
                     entry |-> s.entry]
  PROVE  InTable(H, c, t, key, value, z)
<1> DEFINE x == s.entry
           d == s.entry.distance
           u == Stored(s.table, i, x)
           w == [u EXCEPT !.size = m]
<1>1. /\ i \in 0..(c - 1)
      /\ s.table \in Tables(c) /\ x \in Entries
      /\ x.key \in Keys /\ d \in Nat /\ x.value \in Values
      /\ d = Far(H, c, x.key, i)
  BY RoundFacts
<1>2. /\ RobinHood(H, c, s.table) /\ Used(s.table) = Used(t) /\ s.table.size = t.size
      /\ d > 0 => /\ s.table.entries[Before(c, i)] # Unused
                  /\ s.table.entries[Before(c, i)].distance >= d - 1
  BY DEF InHand
<1>3. \A j \in Used(s.table) : j # i => s.table.entries[j].key # x.key
  <2>1. CASE i \in Used(s.table)
    BY <1>2, <2>1 DEF RobinHood, Once
  <2>2. CASE i \notin Used(s.table)
    BY <2>2, HandIsNew
  <2>3. QED
    BY <2>1, <2>2
<1>4. ASSUME i \in Used(s.table) PROVE s.table.entries[i].distance = d
  BY <1>1, <1>2, <1>4 DEF RobinHood, Placed, PlacedAt
<1>5. /\ RobinHood(H, c, u) /\ Used(u) = Used(s.table) \cup {i} /\ u.size = s.table.size
      /\ \A k, v : Has(u, k, v) <=> (k = x.key /\ v = x.value) \/ Elsewhere(s.table, i, k, v)
  <2>1. Fits(H, c, s.table, i, x)
    BY <1>1, <1>2, <1>3, <1>4 DEF Fits
  <2>2. QED
    BY <1>1, <1>2, <2>1, Store
<1>6. m \in Nat /\ m \in {t.size, t.size + 1}
  BY <1>1, <1>2, TableParts
<1> HIDE DEF u
<1>7. /\ RobinHood(H, c, w) /\ Used(w) = Used(u) /\ w.size = m
      /\ \A k, v : Has(w, k, v) <=> Has(u, k, v)
  <2>1. u \in Tables(c) /\ Placed(H, c, u) /\ Once(u)
    BY <1>5 DEF RobinHood
  <2>2. /\ w.size = m /\ w.entries = u.entries /\ w.max_distance = u.max_distance
        /\ w \in Tables(c)
    BY <1>6, <2>1 DEF Tables
  <2> HIDE DEF w
  <2>3. Used(w) = Used(u)
    BY <2>2 DEF Used
  <2>4. Placed(H, c, w) /\ Once(w)
    BY <2>1, <2>2, <2>3 DEF Placed, PlacedAt, Once
  <2>5. QED
    BY <2>2, <2>3, <2>4 DEF RobinHood, Has
<1>8. z.table = w /\ z.done = TRUE /\ z.entry = x
  BY DEF w, u
<1> HIDE DEF w
<1>9. z \in States(c)
  <2>1. w \in Tables(c)
    BY <1>7 DEF RobinHood
  <2>2. z = [table |-> w, done |-> TRUE, entry |-> x]
    BY DEF w, u
  <2>3. QED
    BY <1>1, <2>1, <2>2 DEF States
<1>10. Sized(w)
  <2>1. IsFiniteSet(Used(t)) /\ t.size = Cardinality(Used(t)) /\ t.size \in Nat
    BY TableParts DEF Sized
  <2>2. CASE i \in Used(s.table)
    <3>1. Used(w) = Used(t) /\ m = t.size
      BY <1>2, <1>5, <1>7, <2>2
    <3>2. QED
      BY <1>7, <2>1, <3>1 DEF Sized
  <2>3. CASE i \notin Used(s.table)
    <3>1. Used(w) = Used(t) \cup {i} /\ m = t.size + 1 /\ i \notin Used(t)
      BY <1>2, <1>5, <1>7, <2>3
    <3>2. Cardinality(Used(t) \cup {i}) = Cardinality(Used(t)) + 1
      BY <2>1, <3>1, FS_AddElement
    <3>3. QED
      BY <1>7, <2>1, <3>1, <3>2 DEF Sized
  <2>4. QED
    BY <2>2, <2>3
<1>11. ASSUME NEW k, NEW v
       PROVE  Has(w, k, v) <=> Wanted(t, key, value, k, v)
  <2>1. Wanted(s.table, x.key, x.value, k, v) <=> Wanted(t, key, value, k, v)
    BY DEF InHand
  <2>2. Elsewhere(s.table, i, k, v) => k # x.key /\ Has(s.table, k, v)
    BY <1>3 DEF Elsewhere, Has
  <2>3. k # x.key /\ Has(s.table, k, v) => Elsewhere(s.table, i, k, v)
    BY DEF Elsewhere, Has
  <2>4. QED
    BY <1>5, <1>7, <2>1, <2>2, <2>3 DEF Wanted
<1>12. QED
  BY <1>6, <1>7, <1>8, <1>9, <1>10, <1>11 DEF InTable

\* A round of internal_put().
LEMMA RoundStep ==
  ASSUME NEW H \in [Keys -> Nat], NEW c \in Nat \ {0}, NEW t \in Tables(c), Sized(t),
         NEW key \in Keys, NEW value \in Values, NEW n \in 0..(c - 1), NEW s,
         InHand(H, c, t, key, value, n, s), NEW i, i = Place(H, c, key, n)
  PROVE  \/ InHand(H, c, t, key, value, n + 1, PutRound(s, i))
         \/ InTable(H, c, t, key, value, PutRound(s, i))
<1> DEFINE T == s.table
           x == s.entry
           e == T.entries[i]
<1>1. /\ i \in 0..(c - 1) /\ T \in Tables(c) /\ x.distance \in Nat
  BY RoundFacts
<1>r. /\ s = [table |-> s.table, done |-> FALSE, entry |-> x]
      /\ x = [key |-> x.key, value |-> x.value, distance |-> x.distance]
  BY RoundRecords
<1>2. /\ i \in Used(T) <=> e # Unused
      /\ i \in Used(T) => e.distance \in Nat
  BY <1>1, TableParts
<1>3. CASE e # Unused /\ e.key # x.key /\ e.distance < x.distance
  <2>1. PutRound(s, i) = [table |-> Stored(T, i, x), done |-> FALSE,
                          entry |-> [e EXCEPT !.distance = @ + 1]]
    BY <1>3 DEF PutRound, Stored
  <2>2. QED
    BY <1>2, <1>3, <2>1, RoundDisplaces
<1>4. CASE e # Unused /\ e.key # x.key /\ ~(e.distance < x.distance)
  <2>1. PutRound(s, i) = [s EXCEPT !.entry.distance = @ + 1]
    BY <1>4 DEF PutRound
  <2>2. e.distance >= x.distance
    BY <1>1, <1>2, <1>4
  <2>3. QED
    BY <1>2, <1>4, <2>1, <2>2, RoundPasses
<1>5. CASE ~(e # Unused /\ e.key # x.key)
  <2> DEFINE u == Stored(T, i, x)
             m == IF i \in Used(s.table) THEN s.table.size ELSE s.table.size + 1
             w == [u EXCEPT !.size = IF e = Unused THEN @ + 1 ELSE @]
             z == [table |-> [u EXCEPT !.size = m], done |-> TRUE, entry |-> x]
  <2>1. PutRound(s, i) = [s EXCEPT !.done = TRUE, !.table = w]
    BY <1>5 DEF PutRound, Stored
  <2>2. u.size = T.size
    BY <1>1 DEF Stored, Tables
  <2>3. w = [u EXCEPT !.size = m]
    BY <1>2, <2>2
  <2>4. PutRound(s, i) = z
    <3> DEFINE D == FALSE
               B == TRUE
    <3>1. s = [table |-> s.table, done |-> FALSE, entry |-> s.entry]
      BY <1>r
    <3>2. s = [table |-> T, done |-> D, entry |-> x]
      BY <3>1
    <3> HIDE DEF T, D, B, x, w, u, m
    <3>3. [s EXCEPT !.done = B, !.table = w] = [table |-> w, done |-> B, entry |-> x]
      <4> DEFINE a == [s EXCEPT !.done = B]
      <4>1. a = [table |-> T, done |-> B, entry |-> x]
        BY <3>2
      <4>2. [s EXCEPT !.done = B, !.table = w] = [a EXCEPT !.table = w]
        BY Zenon
      <4> HIDE DEF a
      <4>3. QED
        BY <4>1, <4>2
    <3>4. QED
      BY <2>1, <2>3, <3>3 DEF B
  <2>5. i \in Used(s.table) => s.table.entries[i].key = s.entry.key
    BY <1>2, <1>5
  <2>6. InTable(H, c, t, key, value, z)
    <3> DEFINE mm == m
               zz == z
    <3> HIDE DEF mm, zz
    <3>1. mm = (IF i \in Used(s.table) THEN s.table.size ELSE s.table.size + 1)
      BY DEF mm
    <3>2. zz = [table |-> [Stored(s.table, i, s.entry) EXCEPT !.size = mm], done |-> TRUE,
                entry |-> s.entry]
      BY DEF mm, zz
    <3>3. InTable(H, c, t, key, value, zz)
      BY <2>5, <3>1, <3>2, RoundEnds
    <3>4. QED
      BY <3>3 DEF zz
  <2>7. QED
    BY <2>4, <2>6
<1>6. QED
  BY <1>3, <1>4, <1>5

\* The state before the first round, and what round n makes of a state.
PutFirst(t, key, value) ==
  [table |-> t, done |-> FALSE, entry |-> [key |-> key, value |-> value, distance |-> 0]]

PutNext(t, key, n, s) == IF s.done THEN s ELSE PutRound(s, Slot(t, key, n - 1))

\* A function that is defined by its rounds.
ArePutRounds(t, key, value, c, f) ==
  f = [n \in 0..c |-> IF n = 0 THEN PutFirst(t, key, value) ELSE PutNext(t, key, n, f[n - 1])]

\* The rounds of a put are well defined.
LEMMA PutRoundsExist ==
  ASSUME NEW t, NEW key, NEW value, NEW c \in Nat
  PROVE  \E f : ArePutRounds(t, key, value, c, f)
<1> DEFINE G(n, s) == PutNext(t, key, n, s)
           A == PutFirst(t, key, value)
           S == {m \in Nat : \E f : f = [n \in 0..m |-> IF n = 0 THEN A ELSE G(n, f[n - 1])]}
<1> HIDE DEF G, A
<1>1. 0 \in S
  <2> DEFINE f == [n \in 0..0 |-> A]
  <2>1. f = [n \in 0..0 |-> IF n = 0 THEN A ELSE G(n, f[n - 1])]
    OBVIOUS
  <2> HIDE DEF f
  <2>2. QED
    BY <2>1
<1>2. ASSUME NEW m \in S PROVE m + 1 \in S
  <2>1. PICK f : f = [n \in 0..m |-> IF n = 0 THEN A ELSE G(n, f[n - 1])]
    BY <1>2
  <2>2. m \in Nat /\ m + 1 \in Nat
    OBVIOUS
  <2> DEFINE g == [n \in 0..(m + 1) |-> IF n <= m THEN f[n] ELSE G(m + 1, f[m])]
             h == [n \in 0..(m + 1) |-> IF n = 0 THEN A ELSE G(n, g[n - 1])]
  <2>3. \A n \in 0..m : f[n] = IF n = 0 THEN A ELSE G(n, f[n - 1])
    BY <2>1
  <2>4. \A n \in 0..m : g[n] = f[n]
    BY <2>2
  <2>5. g[m + 1] = G(m + 1, f[m])
    BY <2>2
  <2>6. ASSUME NEW n \in 0..(m + 1) PROVE g[n] = IF n = 0 THEN A ELSE G(n, g[n - 1])
    <3> HIDE DEF g
    <3>1. CASE n = 0
      BY <2>2, <2>3, <2>4, <3>1
    <3>2. CASE n # 0 /\ n <= m
      <4>1. n \in 0..m /\ n - 1 \in 0..m
        BY <2>2, <3>2
      <4>2. QED
        BY <2>3, <2>4, <3>2, <4>1
    <3>3. CASE n # 0 /\ ~(n <= m)
      <4>1. n = m + 1 /\ n - 1 = m /\ m \in 0..m
        BY <2>2, <3>3
      <4>2. QED
        BY <2>4, <2>5, <3>3, <4>1
    <3>4. QED
      BY <3>1, <3>2, <3>3
  <2>7. g = h
    BY <2>6
  <2> HIDE DEF g
  <2>8. QED
    BY <2>2, <2>7
<1>3. S = Nat
  <2>1. S \in SUBSET Nat
    OBVIOUS
  <2> HIDE DEF S
  <2>2. QED
    BY <1>1, <1>2, <2>1, Induct
<1>4. \E f : f = [n \in 0..c |-> IF n = 0 THEN A ELSE G(n, f[n - 1])]
  BY <1>3
<1>5. QED
  BY <1>4 DEF A, G, ArePutRounds

\* What PutRounds is, round by round.
LEMMA PutRoundsAre ==
  ASSUME NEW t, NEW key, NEW value, Capacity(t) \in Nat, NEW n \in 0..Capacity(t)
  PROVE  PutRounds(t, key, value)[n] =
           IF n = 0 THEN PutFirst(t, key, value)
           ELSE PutNext(t, key, n, PutRounds(t, key, value)[n - 1])
<1> DEFINE c == Capacity(t)
           R == PutRounds(t, key, value)
<1>1. PICK f : ArePutRounds(t, key, value, c, f)
  BY PutRoundsExist
<1>2. R = CHOOSE r : r = [m \in 0..c |-> IF m = 0 THEN PutFirst(t, key, value)
                                         ELSE PutNext(t, key, m, r[m - 1])]
  BY DEF PutRounds, PutFirst, PutNext
<1> HIDE DEF R, c
<1>3. R = [m \in 0..c |-> IF m = 0 THEN PutFirst(t, key, value)
                          ELSE PutNext(t, key, m, R[m - 1])]
  BY <1>1, <1>2 DEF ArePutRounds
<1>4. n \in 0..c
  BY DEF c
<1>5. R[n] = IF n = 0 THEN PutFirst(t, key, value) ELSE PutNext(t, key, n, R[n - 1])
  BY <1>3, <1>4
<1>6. QED
  BY <1>5 DEF R

\* Before the first round the new entry is in hand, at the start of its search.
LEMMA PutStarts ==
  ASSUME NEW H \in [Keys -> Nat], NEW c \in Nat \ {0}, NEW t, RobinHood(H, c, t),
         NEW key \in Keys, NEW value \in Values
  PROVE  InHand(H, c, t, key, value, 0, PutFirst(t, key, value))
<1> DEFINE x == [key |-> key, value |-> value, distance |-> 0]
           s == PutFirst(t, key, value)
<1>1. x \in Entries /\ x.key = key /\ x.value = value /\ x.distance = 0
  BY DEF Entries
<1>2. t \in Tables(c)
  BY DEF RobinHood
<1>3. s = [table |-> t, done |-> FALSE, entry |-> x]
  BY DEF PutFirst
<1> HIDE DEF x, s
<1>4. s \in States(c) /\ ~s.done /\ s.table = t /\ s.entry = x
  BY <1>1, <1>2, <1>3 DEF States
<1>5. Far(H, c, key, Place(H, c, key, 0)) = 0
  BY PlaceIn
<1>6. \A j \in Used(t) : t.entries[j].distance \in Nat
  BY <1>2, TableParts
<1>7. 0..(0 - 1) = {} /\ ~(0 > 0)
  OBVIOUS
<1>8. InHand(H, c, t, key, value, 0, s)
  BY <1>1, <1>4, <1>5, <1>6, <1>7 DEF InHand
<1>9. QED
  BY <1>8 DEF s

\* A put into a table that has an unused place ends, and has put the key.
LEMMA PutEnds ==
  ASSUME Hash \in [Keys -> Nat], NEW c \in Nat \ {0}, NEW t, RobinHood(Hash, c, t), Sized(t),
         Used(t) # 0..(c - 1), NEW key \in Keys, NEW value \in Values
  PROVE  InTable(Hash, c, t, key, value, internal_put(t, key, value))
<1> DEFINE R == PutRounds(t, key, value)
           Good(n) == \/ InHand(Hash, c, t, key, value, n, R[n])
                      \/ InTable(Hash, c, t, key, value, R[n])
           S == {n \in Nat : n <= c => Good(n)}
<1>1. t \in Tables(c) /\ Capacity(t) = c /\ DOMAIN t.entries = 0..(c - 1)
        /\ Used(t) \subseteq 0..(c - 1)
  BY TableParts DEF RobinHood
<1>2. R[0] = PutFirst(t, key, value)
  <2>1. 0 \in 0..Capacity(t) /\ Capacity(t) \in Nat
    BY <1>1
  <2>2. QED
    BY <2>1, PutRoundsAre
<1>3. \A n \in 0..(c - 1) : R[n + 1] = PutNext(t, key, n + 1, R[n])
  <2> SUFFICES ASSUME NEW n \in 0..(c - 1) PROVE R[n + 1] = PutNext(t, key, n + 1, R[n])
    OBVIOUS
  <2>1. n + 1 \in 0..Capacity(t) /\ Capacity(t) \in Nat /\ n + 1 # 0 /\ n + 1 - 1 = n
    BY <1>1
  <2>2. QED
    BY <2>1, PutRoundsAre
<1> HIDE DEF R
<1>4. 0 \in S
  <2>1. InHand(Hash, c, t, key, value, 0, R[0])
    BY <1>2, PutStarts
  <2>2. QED
    BY <2>1
<1>5. ASSUME NEW n \in S PROVE n + 1 \in S
  <2> SUFFICES ASSUME n + 1 <= c PROVE Good(n + 1)
    OBVIOUS
  <2>1. n \in 0..(c - 1) /\ n + 1 - 1 = n /\ n \in 0..c
    OBVIOUS
  <2>2. R[n + 1] = IF R[n].done THEN R[n] ELSE PutRound(R[n], Slot(t, key, n))
    BY <1>3, <2>1 DEF PutNext
  <2>3. CASE InTable(Hash, c, t, key, value, R[n])
    <3>1. R[n].done
      BY <2>3 DEF InTable
    <3>2. R[n + 1] = R[n]
      BY <2>2, <3>1
    <3>3. QED
      BY <2>3, <3>2
  <2>4. CASE InHand(Hash, c, t, key, value, n, R[n])
    <3>1. ~R[n].done
      BY <2>4 DEF InHand
    <3>2. R[n + 1] = PutRound(R[n], Place(Hash, c, key, n))
      BY <1>1, <2>1, <2>2, <3>1, SlotIs
    <3>3. \/ InHand(Hash, c, t, key, value, n + 1, PutRound(R[n], Place(Hash, c, key, n)))
          \/ InTable(Hash, c, t, key, value, PutRound(R[n], Place(Hash, c, key, n)))
      BY <1>1, <2>1, <2>4, RoundStep
    <3>4. QED
      BY <3>2, <3>3
  <2>5. n <= c
    BY <2>1
  <2>6. QED
    BY <2>3, <2>4, <2>5
<1>6. S = Nat
  <2>1. S \in SUBSET Nat
    OBVIOUS
  <2> HIDE DEF S
  <2>2. QED
    BY <1>4, <1>5, <2>1, Induct
<1>7. Good(c)
  BY <1>6
<1>8. ~InHand(Hash, c, t, key, value, c, R[c])
  <2> SUFFICES ASSUME InHand(Hash, c, t, key, value, c, R[c]) PROVE FALSE
    OBVIOUS
  <2>1. \A q \in 0..(c - 1) : Place(Hash, c, key, q) \in Used(t)
    BY DEF InHand
  <2>2. \A i \in 0..(c - 1) : i \in Used(t)
    <3> SUFFICES ASSUME NEW i \in 0..(c - 1) PROVE i \in Used(t)
      OBVIOUS
    <3>1. Far(Hash, c, key, i) \in 0..(c - 1) /\ Place(Hash, c, key, Far(Hash, c, key, i)) = i
      BY FarIn
    <3>2. QED
      BY <2>1, <3>1
  <2>3. QED
    BY <1>1, <2>2
<1>9. internal_put(t, key, value) = R[c]
  BY <1>1 DEF internal_put, R
<1>10. QED
  BY <1>7, <1>8, <1>9

\* A table that holds no more than another has no more used places.
LEMMA NoMoreUsed ==
  ASSUME NEW a \in Nat \ {0}, NEW c \in Nat \ {0}, NEW s \in Tables(a), NEW t \in Tables(c),
         Once(s), \A k, v : Has(s, k, v) => Has(t, k, v)
  PROVE  Cardinality(Used(s)) \in Nat /\ Cardinality(Used(t)) \in Nat
           /\ Cardinality(Used(s)) <= Cardinality(Used(t))
<1>1. IsFiniteSet(Used(s)) /\ IsFiniteSet(Used(t))
  BY TableParts
<1>2. \A i \in Used(s) : \E j \in Used(t) : t.entries[j].key = s.entries[i].key
  <2> SUFFICES ASSUME NEW i \in Used(s) PROVE \E j \in Used(t) : t.entries[j].key = s.entries[i].key
    OBVIOUS
  <2>1. Has(s, s.entries[i].key, s.entries[i].value)
    BY DEF Has
  <2>2. Has(t, s.entries[i].key, s.entries[i].value)
    BY <2>1
  <2>3. QED
    BY <2>2 DEF Has
<1> DEFINE f == [i \in Used(s) |-> CHOOSE j \in Used(t) : t.entries[j].key = s.entries[i].key]
<1>3. f \in [Used(s) -> Used(t)]
  BY <1>2
<1>4. \A i \in Used(s) : t.entries[f[i]].key = s.entries[i].key
  BY <1>2
<1> HIDE DEF f
<1>5. \A i, j \in Used(s) : f[i] = f[j] => i = j
  BY <1>4 DEF Once
<1>6. f \in Injection(Used(s), Used(t))
  BY <1>3, <1>5 DEF Injection, IsInjective
<1>7. QED
  BY <1>1, <1>6, FS_Injection, FS_CardinalityType

\* A table that is not full has an unused place.
LEMMA HasUnused ==
  ASSUME NEW c \in Nat \ {0}, NEW t \in Tables(c), Cardinality(Used(t)) < c
  PROVE  Used(t) # 0..(c - 1)
<1>1. Cardinality(0..(c - 1)) = c
  BY FS_Interval
<1>2. QED
  BY <1>1

\* An empty table.
LEMMA EmptyTable ==
  ASSUME NEW H, NEW c \in Nat \ {0}
  PROVE  /\ RobinHood(H, c, init_capacity(c)) /\ Sized(init_capacity(c))
         /\ Used(init_capacity(c)) = {} /\ init_capacity(c).size = 0
         /\ \A k, v : ~Has(init_capacity(c), k, v)
<1> DEFINE t == init_capacity(c)
<1>1. t \in Tables(c) /\ t.entries = [i \in 0..(c - 1) |-> Unused] /\ t.size = 0
  BY DEF Tables, init_capacity
<1>2. Used(t) = {}
  BY <1>1 DEF Used
<1>3. Cardinality({}) = 0
  BY FS_EmptySet
<1> HIDE DEF t
<1>4. RobinHood(H, c, t)
  BY <1>1, <1>2 DEF RobinHood, Placed, Once
<1>5. Sized(t) /\ \A k, v : ~Has(t, k, v)
  BY <1>1, <1>2, <1>3 DEF Sized, Has
<1>6. QED
  BY <1>1, <1>2, <1>4, <1>5 DEF t

\* The state before the first old element is dumped, and what an element makes
\* of a state.
DumpFirst(t) == [table |-> init_capacity(2 * Capacity(t)), done |-> TRUE]

DumpNext(t, n, s) ==
  LET e == t.entries[n - 1]
  IN IF e = Unused \/ ~s.done THEN s ELSE internal_put(s.table, e.key, e.value)

\* A function that is defined by the elements dumped.
AreDumps(t, c, f) ==
  f = [n \in 0..c |-> IF n = 0 THEN DumpFirst(t) ELSE DumpNext(t, n, f[n - 1])]

\* The dumps are well defined.
LEMMA DumpsExist ==
  ASSUME NEW t, NEW c \in Nat
  PROVE  \E f : AreDumps(t, c, f)
<1> DEFINE G(n, s) == DumpNext(t, n, s)
           A == DumpFirst(t)
           S == {m \in Nat : \E f : f = [n \in 0..m |-> IF n = 0 THEN A ELSE G(n, f[n - 1])]}
<1> HIDE DEF G, A
<1>1. 0 \in S
  <2> DEFINE f == [n \in 0..0 |-> A]
  <2>1. f = [n \in 0..0 |-> IF n = 0 THEN A ELSE G(n, f[n - 1])]
    OBVIOUS
  <2> HIDE DEF f
  <2>2. QED
    BY <2>1
<1>2. ASSUME NEW m \in S PROVE m + 1 \in S
  <2>1. PICK f : f = [n \in 0..m |-> IF n = 0 THEN A ELSE G(n, f[n - 1])]
    BY <1>2
  <2>2. m \in Nat /\ m + 1 \in Nat
    OBVIOUS
  <2> DEFINE g == [n \in 0..(m + 1) |-> IF n <= m THEN f[n] ELSE G(m + 1, f[m])]
             h == [n \in 0..(m + 1) |-> IF n = 0 THEN A ELSE G(n, g[n - 1])]
  <2>3. \A n \in 0..m : f[n] = IF n = 0 THEN A ELSE G(n, f[n - 1])
    BY <2>1
  <2>4. \A n \in 0..m : g[n] = f[n]
    BY <2>2
  <2>5. g[m + 1] = G(m + 1, f[m])
    BY <2>2
  <2>6. ASSUME NEW n \in 0..(m + 1) PROVE g[n] = IF n = 0 THEN A ELSE G(n, g[n - 1])
    <3> HIDE DEF g
    <3>1. CASE n = 0
      BY <2>2, <2>3, <2>4, <3>1
    <3>2. CASE n # 0 /\ n <= m
      <4>1. n \in 0..m /\ n - 1 \in 0..m
        BY <2>2, <3>2
      <4>2. QED
        BY <2>3, <2>4, <3>2, <4>1
    <3>3. CASE n # 0 /\ ~(n <= m)
      <4>1. n = m + 1 /\ n - 1 = m /\ m \in 0..m
        BY <2>2, <3>3
      <4>2. QED
        BY <2>4, <2>5, <3>3, <4>1
    <3>4. QED
      BY <3>1, <3>2, <3>3
  <2>7. g = h
    BY <2>6
  <2> HIDE DEF g
  <2>8. QED
    BY <2>2, <2>7
<1>3. S = Nat
  <2>1. S \in SUBSET Nat
    OBVIOUS
  <2> HIDE DEF S
  <2>2. QED
    BY <1>1, <1>2, <2>1, Induct
<1>4. \E f : f = [n \in 0..c |-> IF n = 0 THEN A ELSE G(n, f[n - 1])]
  BY <1>3
<1>5. QED
  BY <1>4 DEF A, G, AreDumps

\* What Dumps is, element by element.
LEMMA DumpsAre ==
  ASSUME NEW t, Capacity(t) \in Nat, NEW n \in 0..Capacity(t)
  PROVE  Dumps(t)[n] = IF n = 0 THEN DumpFirst(t) ELSE DumpNext(t, n, Dumps(t)[n - 1])
<1> DEFINE c == Capacity(t)
           R == Dumps(t)
<1>1. PICK f : AreDumps(t, c, f)
  BY DumpsExist
<1>2. R = CHOOSE r : r = [m \in 0..c |-> IF m = 0 THEN DumpFirst(t)
                                         ELSE DumpNext(t, m, r[m - 1])]
  BY DEF Dumps, DumpFirst, DumpNext
<1> HIDE DEF R, c
<1>3. R = [m \in 0..c |-> IF m = 0 THEN DumpFirst(t) ELSE DumpNext(t, m, R[m - 1])]
  BY <1>1, <1>2 DEF AreDumps
<1>4. n \in 0..c
  BY DEF c
<1>5. R[n] = IF n = 0 THEN DumpFirst(t) ELSE DumpNext(t, n, R[n - 1])
  BY <1>3, <1>4
<1>6. QED
  BY <1>5 DEF R

\* What t holds in its first n places.
HasBelow(t, n, k, v) ==
  \E i \in Used(t) : i < n /\ t.entries[i].key = k /\ t.entries[i].value = v

\* The state s once the first n places have been dumped.
Dumped(H, c, t, n, s) ==
  /\ s.done /\ RobinHood(H, 2 * c, s.table) /\ Sized(s.table)
  /\ \A k, v : Has(s.table, k, v) <=> HasBelow(t, n, k, v)

\* One place is dumped.
LEMMA DumpStep ==
  ASSUME Hash \in [Keys -> Nat], NEW c \in Nat \ {0}, NEW t, RobinHood(Hash, c, t),
         NEW n \in 0..(c - 1), NEW s, Dumped(Hash, c, t, n, s)
  PROVE  Dumped(Hash, c, t, n + 1, DumpNext(t, n + 1, s))
<1> DEFINE e == t.entries[n]
           z == DumpNext(t, n + 1, s)
           a == 2 * c
<1>1. n + 1 - 1 = n /\ a \in Nat \ {0} /\ c < a
  OBVIOUS
<1>2. t \in Tables(c) /\ Once(t) /\ Used(t) \subseteq 0..(c - 1) /\ (n \in Used(t) <=> e # Unused)
  BY TableParts DEF RobinHood
<1>3. s.done /\ RobinHood(Hash, a, s.table) /\ Sized(s.table)
  BY DEF Dumped
<1>4. \A k, v : Has(s.table, k, v) <=> HasBelow(t, n, k, v)
  BY DEF Dumped
<1>5. CASE e = Unused
  <2>1. z = s
    BY <1>1, <1>5 DEF DumpNext
  <2>2. ASSUME NEW k, NEW v PROVE HasBelow(t, n + 1, k, v) <=> HasBelow(t, n, k, v)
    <3>1. \A i \in Used(t) : i < n + 1 <=> i < n
      BY <1>2, <1>5
    <3>2. QED
      BY <3>1 DEF HasBelow
  <2>3. QED
    BY <1>3, <1>4, <2>1, <2>2 DEF Dumped
<1>6. CASE e # Unused
  <2>1. z = internal_put(s.table, e.key, e.value)
    BY <1>1, <1>3, <1>6 DEF DumpNext
  <2>2. e.key \in Keys /\ e.value \in Values /\ n \in Used(t)
    BY <1>2, <1>6, TableParts
  <2>3. Used(s.table) # 0..(a - 1)
    <3>1. ASSUME NEW k, NEW v, Has(s.table, k, v) PROVE Has(t, k, v)
      BY <1>4, <3>1 DEF HasBelow, Has
    <3>2. s.table \in Tables(a) /\ Once(s.table)
      BY <1>3 DEF RobinHood
    <3> HIDE DEF a
    <3>3. /\ Cardinality(Used(s.table)) \in Nat /\ Cardinality(Used(t)) \in Nat
          /\ Cardinality(Used(s.table)) <= Cardinality(Used(t))
      BY <1>1, <1>2, <3>1, <3>2, NoMoreUsed
    <3>4. Cardinality(Used(t)) <= c
      <4>1. IsFiniteSet(0..(c - 1))
        BY FS_Interval
      <4>2. Cardinality(0..(c - 1)) = c
        BY FS_Interval
      <4>3. QED
        BY <1>2, <4>1, <4>2, FS_Subset
    <3>5. Cardinality(Used(s.table)) < a
      BY <1>1, <3>3, <3>4 DEF a
    <3>6. QED
      BY <1>1, <3>2, <3>5, HasUnused
  <2>4. InTable(Hash, a, s.table, e.key, e.value, z)
    <3> HIDE DEF a
    <3>1. QED
      BY <1>1, <1>3, <2>1, <2>2, <2>3, PutEnds
  <2>5. ASSUME NEW k, NEW v PROVE Has(z.table, k, v) <=> HasBelow(t, n + 1, k, v)
    <3>1. Has(z.table, k, v) <=> Wanted(s.table, e.key, e.value, k, v)
      BY <2>4 DEF InTable
    <3>2. HasBelow(t, n, k, v) => k # e.key /\ HasBelow(t, n + 1, k, v)
      BY <1>2, <2>2 DEF HasBelow, Once
    <3>3. HasBelow(t, n + 1, k, v) => (k = e.key /\ v = e.value) \/ HasBelow(t, n, k, v)
      BY <1>2 DEF HasBelow
    <3>4. HasBelow(t, n + 1, e.key, e.value)
      <4>1. n \in Used(t) /\ n < n + 1
        BY <2>2
      <4>2. QED
        BY <4>1 DEF HasBelow
    <3>5. QED
      BY <1>4, <3>1, <3>2, <3>3, <3>4 DEF Wanted
  <2>6. QED
    BY <2>4, <2>5 DEF Dumped, InTable
<1>7. QED
  BY <1>5, <1>6

\* A table of twice the size holds what the old one held.
LEMMA GrownIs ==
  ASSUME Hash \in [Keys -> Nat], NEW c \in Nat \ {0}, NEW t, RobinHood(Hash, c, t), Sized(t)
  PROVE  /\ Grown(t).done /\ RobinHood(Hash, 2 * c, Grown(t).table) /\ Sized(Grown(t).table)
         /\ Grown(t).table.size = t.size
         /\ \A k, v : Has(Grown(t).table, k, v) <=> Has(t, k, v)
<1> DEFINE R == Dumps(t)
           S == {n \in Nat : n <= c => Dumped(Hash, c, t, n, R[n])}
<1>1. t \in Tables(c) /\ Once(t) /\ Capacity(t) = c /\ Used(t) \subseteq 0..(c - 1)
  BY TableParts DEF RobinHood
<1>2. R[0] = DumpFirst(t)
  <2>1. 0 \in 0..Capacity(t) /\ Capacity(t) \in Nat
    BY <1>1
  <2>2. QED
    BY <2>1, DumpsAre
<1>3. \A n \in 0..(c - 1) : R[n + 1] = DumpNext(t, n + 1, R[n])
  <2> SUFFICES ASSUME NEW n \in 0..(c - 1) PROVE R[n + 1] = DumpNext(t, n + 1, R[n])
    OBVIOUS
  <2>1. n + 1 \in 0..Capacity(t) /\ Capacity(t) \in Nat /\ n + 1 # 0 /\ n + 1 - 1 = n
    BY <1>1
  <2>2. QED
    BY <2>1, DumpsAre
<1> HIDE DEF R
<1>4. 0 \in S
  <2> DEFINE a == 2 * c
             e == init_capacity(a)
  <2>1. a \in Nat \ {0}
    OBVIOUS
  <2> HIDE DEF a
  <2>2. RobinHood(Hash, a, e) /\ Sized(e) /\ \A k, v : ~Has(e, k, v)
    BY <2>1, EmptyTable
  <2>3. R[0].table = e /\ R[0].done
    BY <1>1, <1>2 DEF DumpFirst, a
  <2>4. \A k, v : ~HasBelow(t, 0, k, v)
    <3>1. \A i \in Used(t) : ~(i < 0)
      BY <1>1
    <3>2. QED
      BY <3>1 DEF HasBelow
  <2> HIDE DEF e
  <2>5. Dumped(Hash, c, t, 0, R[0])
    BY <2>2, <2>3, <2>4 DEF Dumped, a
  <2>6. QED
    BY <2>5
<1>5. ASSUME NEW n \in S PROVE n + 1 \in S
  <2> SUFFICES ASSUME n + 1 <= c PROVE Dumped(Hash, c, t, n + 1, R[n + 1])
    OBVIOUS
  <2>1. n \in 0..(c - 1) /\ Dumped(Hash, c, t, n, R[n])
    OBVIOUS
  <2>2. Dumped(Hash, c, t, n + 1, DumpNext(t, n + 1, R[n]))
    BY <2>1, DumpStep
  <2>3. QED
    BY <1>3, <2>1, <2>2
<1>6. S = Nat
  <2>1. S \in SUBSET Nat
    OBVIOUS
  <2> HIDE DEF S
  <2>2. QED
    BY <1>4, <1>5, <2>1, Induct
<1>7. Dumped(Hash, c, t, c, R[c])
  BY <1>6
<1> DEFINE g == Grown(t)
<1>8. g = R[c]
  BY <1>1 DEF Grown, R
<1> HIDE DEF g
<1>9. ASSUME NEW k, NEW v PROVE Has(g.table, k, v) <=> Has(t, k, v)
  <2>1. Has(g.table, k, v) <=> HasBelow(t, c, k, v)
    BY <1>7, <1>8 DEF Dumped
  <2>2. \A i \in Used(t) : i < c
    BY <1>1
  <2>3. QED
    BY <2>1, <2>2 DEF HasBelow, Has
<1>10. g.done /\ RobinHood(Hash, 2 * c, g.table) /\ Sized(g.table)
  BY <1>7, <1>8 DEF Dumped
<1>11. g.table.size = t.size
  <2> DEFINE a == 2 * c
  <2>1. a \in Nat \ {0}
    OBVIOUS
  <2>2. g.table \in Tables(a) /\ Once(g.table)
    BY <1>10 DEF RobinHood
  <2> HIDE DEF a
  <2>3. /\ Cardinality(Used(g.table)) \in Nat /\ Cardinality(Used(t)) \in Nat
        /\ Cardinality(Used(g.table)) <= Cardinality(Used(t))
    BY <1>1, <1>9, <2>1, <2>2, NoMoreUsed
  <2>4. Cardinality(Used(t)) <= Cardinality(Used(g.table))
    BY <1>1, <1>9, <2>1, <2>2, NoMoreUsed
  <2>5. QED
    BY <1>10, <2>3, <2>4 DEF Sized
<1>12. QED
  BY <1>9, <1>10, <1>11 DEF g

\* The table of a put, grown or not.
LEMMA InsertedIs ==
  ASSUME Hash \in [Keys -> Nat], NEW c \in Nat \ {0}, NEW t, RobinHood(Hash, c, t), Sized(t),
         ~TooFull(t), NEW key \in Keys, NEW value \in Values, NEW z, z = Inserted(t, key, value)
  PROVE  /\ z.done /\ Sized(z.table) /\ ~TooFull(z.table)
         /\ \E a \in Nat \ {0} : RobinHood(Hash, a, z.table)
         /\ \A k, v : Has(z.table, k, v) <=> Wanted(t, key, value, k, v)
<1> DEFINE s == internal_put(t, key, value)
           g == Grown(s.table)
<1>1. t \in Tables(c) /\ Capacity(t) = c /\ t.size \in Nat
  BY TableParts DEF RobinHood
<1>2. t.size * 5 < c * 3 /\ t.size = Cardinality(Used(t))
  BY <1>1 DEF TooFull, Sized
<1>3. Used(t) # 0..(c - 1)
  <2>1. Cardinality(Used(t)) < c
    BY <1>1, <1>2
  <2>2. QED
    BY <1>1, <2>1, HasUnused
<1>4. InTable(Hash, c, t, key, value, s)
  BY <1>3, PutEnds
<1> HIDE DEF s
<1>5. s.done /\ RobinHood(Hash, c, s.table) /\ Sized(s.table) /\ s.table.size \in {t.size, t.size + 1}
  BY <1>4 DEF InTable
<1>6. \A k, v : Has(s.table, k, v) <=> Wanted(t, key, value, k, v)
  BY <1>4 DEF InTable
<1>7. CASE ~TooFull(s.table)
  <2>1. z = s
    BY <1>7 DEF Inserted, s
  <2>2. QED
    BY <1>5, <1>6, <1>7, <2>1
<1>8. CASE TooFull(s.table)
  <2>1. z = g
    BY <1>5, <1>8 DEF Inserted, s
  <2> DEFINE T == s.table
             a == 2 * c
  <2>2. RobinHood(Hash, c, T) /\ Sized(T)
    BY <1>5
  <2> HIDE DEF T, g
  <2>3. g = Grown(T)
    BY DEF g, T
  <2>4. /\ g.done /\ RobinHood(Hash, a, g.table) /\ Sized(g.table)
        /\ g.table.size = T.size
        /\ \A k, v : Has(g.table, k, v) <=> Has(T, k, v)
    BY <2>2, <2>3, GrownIs
  <2>5. a \in Nat \ {0}
    OBVIOUS
  <2>6. ~TooFull(g.table)
    <3>1. Capacity(g.table) = a
      <4> HIDE DEF a
      <4>1. QED
        BY <2>4, <2>5, TableParts DEF RobinHood
    <3>2. g.table.size \in {t.size, t.size + 1}
      BY <1>5, <2>4 DEF T
    <3>3. g.table.size * 5 < a * 3
      BY <1>1, <1>2, <3>2
    <3>4. QED
      BY <1>1, <3>1, <3>2, <3>3 DEF TooFull
  <2>7. \A k, v : Has(g.table, k, v) <=> Wanted(t, key, value, k, v)
    BY <1>6, <2>4 DEF T
  <2> HIDE DEF a
  <2>8. QED
    BY <2>1, <2>4, <2>5, <2>6, <2>7
<1>9. QED
  BY <1>7, <1>8

\* A search finds the one place that has the key.
LEMMA LookupFinds ==
  ASSUME Hash \in [Keys -> Nat], NEW c \in Nat \ {0}, NEW t, RobinHood(Hash, c, t),
         NEW i \in Used(t), NEW k, k = t.entries[i].key
  PROVE  /\ Rounds(t, k) = {t.entries[i].distance} /\ Found(t, k)
         /\ Least(Rounds(t, k)) = t.entries[i].distance
         /\ Slot(t, k, t.entries[i].distance) = i
<1> DEFINE d == t.entries[i].distance
           P(r) == Place(Hash, c, k, r)
<1>1. t \in Tables(c) /\ Placed(Hash, c, t) /\ Once(t)
  BY DEF RobinHood
<1>2. /\ DOMAIN t.entries = 0..(c - 1) /\ t.max_distance \in 0..(c - 1)
      /\ i \in 0..(c - 1) /\ k \in Keys /\ d \in Nat
      /\ \A j \in 0..(c - 1) : j \in Used(t) <=> t.entries[j] # Unused
  BY <1>1, TableParts
<1>3. d = Far(Hash, c, k, i) /\ d <= t.max_distance
  BY <1>1 DEF Placed, PlacedAt
<1>4. d \in 0..(c - 1) /\ P(d) = i
  <2>1. Far(Hash, c, k, i) \in 0..(c - 1) /\ Place(Hash, c, k, Far(Hash, c, k, i)) = i
    BY <1>2, FarIn
  <2>2. QED
    BY <1>3, <2>1
<1>5. \A r \in 0..c : Slot(t, k, r) = P(r) /\ P(r) \in 0..(c - 1)
  <2> SUFFICES ASSUME NEW r \in 0..c PROVE Slot(t, k, r) = P(r) /\ P(r) \in 0..(c - 1)
    OBVIOUS
  <2>1. Slot(t, k, r) = P(r)
    BY <1>2, SlotIs
  <2>2. QED
    BY <1>2, <2>1, PlaceIn
<1>6. \A q \in 0..d : P(q) \in Used(t)
  BY Chain
<1>7. d \in Rounds(t, k)
  <2>1. d \in 0..t.max_distance
    BY <1>2, <1>3
  <2>2. ASSUME NEW q \in 0..d PROVE t.entries[Slot(t, k, q)] # Unused
    <3>1. q \in 0..c
      BY <1>4
    <3>2. QED
      BY <1>2, <1>5, <1>6, <3>1
  <2>3. t.entries[Slot(t, k, d)].key = k
    BY <1>4, <1>5
  <2>4. QED
    BY <2>1, <2>2, <2>3 DEF Rounds
<1>8. ASSUME NEW r \in Rounds(t, k) PROVE r = d
  <2>1. /\ r \in 0..t.max_distance /\ t.entries[Slot(t, k, r)] # Unused
        /\ t.entries[Slot(t, k, r)].key = k
    <3>1. r \in 0..t.max_distance
      BY DEF Rounds
    <3>2. r \in 0..r
      BY <1>2, <3>1
    <3>3. QED
      BY <3>1, <3>2 DEF Rounds
  <2>2. r \in 0..c /\ r < c
    BY <1>2, <2>1
  <2>3. P(r) \in Used(t) /\ t.entries[P(r)].key = k
    BY <1>2, <1>5, <2>1, <2>2
  <2>4. P(r) = i
    BY <1>1, <2>3 DEF Once
  <2>5. Far(Hash, c, k, P(r)) = r
    BY <1>2, <2>2, PlaceIn
  <2>6. QED
    BY <1>3, <2>4, <2>5
<1>9. Rounds(t, k) = {d}
  BY <1>7, <1>8
<1> HIDE DEF d
<1>10. Least(Rounds(t, k)) = d
  BY <1>2, <1>9 DEF Least
<1>11. Slot(t, k, d) = i
  BY <1>4, <1>5
<1>12. QED
  BY <1>9, <1>10, <1>11 DEF Found, d

\* What a search finds is there.
LEMMA LookupIsThere ==
  ASSUME Hash \in [Keys -> Nat], NEW c \in Nat \ {0}, NEW t, RobinHood(Hash, c, t),
         NEW k \in Keys, Found(t, k)
  PROVE  \E i \in Used(t) : t.entries[i].key = k
<1>1. t \in Tables(c)
  BY DEF RobinHood
<1>2. DOMAIN t.entries = 0..(c - 1) /\ t.max_distance \in 0..(c - 1)
  BY <1>1, TableParts
<1>3. PICK r : r \in Rounds(t, k)
  BY DEF Found
<1>4. r \in 0..t.max_distance
  BY <1>3 DEF Rounds
<1>5. r \in 0..r /\ r \in 0..c
  BY <1>2, <1>4
<1>6. t.entries[Slot(t, k, r)] # Unused /\ t.entries[Slot(t, k, r)].key = k
  BY <1>3, <1>5 DEF Rounds
<1>7. Slot(t, k, r) \in 0..(c - 1)
  <2>1. Slot(t, k, r) = Place(Hash, c, k, r)
    BY <1>2, <1>5, SlotIs
  <2>2. QED
    BY <1>5, <2>1, PlaceIn
<1>8. QED
  BY <1>1, <1>6, <1>7, TableParts

-----------------------------------------------------------------------------
\* How far place j comes after place i.
Off(c, i, j) == IF j >= i THEN j - i ELSE j - i + c

\* The offset of the code, and the offsets of the places before and after.
LEMMA OffIs ==
  ASSUME NEW c \in Nat \ {0}, NEW i \in 0..(c - 1), NEW j \in 0..(c - 1)
  PROVE  /\ Off(c, i, j) \in 0..(c - 1) /\ (j - i) % c = Off(c, i, j)
         /\ (j + 1) % c = After(c, j)
         /\ Off(c, i, j) = 0 <=> j = i
         /\ Off(c, i, j) > 0 => Off(c, i, Before(c, j)) = Off(c, i, j) - 1
         /\ Off(c, i, j) = 0 => Off(c, i, Before(c, j)) = c - 1
         /\ Off(c, i, j) < c - 1 => Off(c, i, After(c, j)) = Off(c, i, j) + 1
<1>1. Off(c, i, j) \in 0..(c - 1)
  BY DEF Off
<1>2. (j - i) % c = Off(c, i, j)
  <2> DEFINE x == j - i
  <2>1. x \in Int /\ (j >= i => x \in 0..(c - 1)) /\ (~(j >= i) => x \in (-c)..(-1))
    OBVIOUS
  <2> HIDE DEF x
  <2>2. (j >= i => x % c = x) /\ (~(j >= i) => x % c = x + c)
    BY <2>1, NearRemainder
  <2>3. QED
    BY <2>2 DEF x, Off
<1>3. (j + 1) % c = After(c, j)
  <2> DEFINE x == j + 1
  <2>1. x \in Int /\ (j # c - 1 => x \in 0..(c - 1)) /\ (j = c - 1 => x \in c..(2 * c - 1) /\ x - c = 0)
    OBVIOUS
  <2> HIDE DEF x
  <2>2. (j # c - 1 => x % c = x) /\ (j = c - 1 => x % c = x - c)
    BY <2>1, NearRemainder
  <2>3. QED
    BY <2>1, <2>2 DEF x, After
<1>4. QED
  BY <1>1, <1>2, <1>3 DEF Off, Before, After

\* Places at the same offset are the same.
LEMMA OffOnce ==
  ASSUME NEW c \in Nat \ {0}, NEW i \in 0..(c - 1), NEW j \in 0..(c - 1), NEW l \in 0..(c - 1),
         Off(c, i, j) = Off(c, i, l)
  PROVE  j = l
  BY DEF Off

\* The place that comes n after place i.
OffPlace(c, i, n) == IF i + n < c THEN i + n ELSE i + n - c

\* There is a place at every offset.
LEMMA OffPlaceIs ==
  ASSUME NEW c \in Nat \ {0}, NEW i \in 0..(c - 1), NEW n \in 0..(c - 1)
  PROVE  OffPlace(c, i, n) \in 0..(c - 1) /\ Off(c, i, OffPlace(c, i, n)) = n
  BY DEF Off, OffPlace

\* n entries after place i may be moved back, and no more.
Gap(c, t, i, n) ==
  /\ n \in 0..(c - 2)
  /\ \A j \in 0..(c - 1) : Off(c, i, j) \in 1..n => j \in Used(t) /\ t.entries[j].distance > 0
  /\ \A j \in 0..(c - 1) : Off(c, i, j) = n + 1 => \/ t.entries[j] = Unused
                                                  \/ t.entries[j].distance = 0

\* The entry of the next place, moved back.
MovedBack(c, t, j) ==
  LET e == t.entries[After(c, j)]
  IN [key |-> e.key, value |-> e.value, distance |-> e.distance - 1]

\* The entries after a removal.
LEMMA ShiftedIs ==
  ASSUME NEW c \in Nat \ {0}, NEW t \in Tables(c), NEW i \in 0..(c - 1), NEW n, Gap(c, t, i, n),
         NEW s, s = Shifted(t, i, n)
  PROVE  /\ DOMAIN s.entries = 0..(c - 1) /\ s.size = t.size - 1
         /\ s = [entries |-> s.entries, size |-> s.size, max_distance |-> s.max_distance]
         /\ s.max_distance = t.max_distance
         /\ \A j \in 0..(c - 1) :
              /\ Off(c, i, j) < n => /\ s.entries[j] = MovedBack(c, t, j)
                                     /\ After(c, j) \in Used(t) /\ t.entries[After(c, j)].distance > 0
                                     /\ Off(c, i, After(c, j)) = Off(c, i, j) + 1
              /\ Off(c, i, j) = n => s.entries[j] = Unused
              /\ Off(c, i, j) > n => s.entries[j] = t.entries[j]
<1> DEFINE F == [j \in 0..(c - 1) |->
                   IF Off(c, i, j) < n
                   THEN [t.entries[After(c, j)] EXCEPT !.distance = @ - 1]
                   ELSE IF Off(c, i, j) = n THEN Unused ELSE t.entries[j]]
<1>1. DOMAIN t.entries = 0..(c - 1) /\ Capacity(t) = c /\ n \in 0..(c - 2)
  BY TableParts DEF Gap
<1>2. \A j \in 0..(c - 1) : /\ Off(c, i, j) \in 0..(c - 1) /\ (j - i) % c = Off(c, i, j)
                            /\ (j + 1) % c = After(c, j)
  BY OffIs
<1>3. s = [[t EXCEPT !.entries = F] EXCEPT !.size = t.size - 1]
  <2>1. F = [j \in DOMAIN t.entries |->
               IF (j - i) % Capacity(t) < n
               THEN [t.entries[(j + 1) % Capacity(t)] EXCEPT !.distance = @ - 1]
               ELSE IF (j - i) % Capacity(t) = n THEN Unused ELSE t.entries[j]]
    BY <1>1, <1>2
  <2> HIDE DEF F
  <2>2. s = [t EXCEPT !.entries = F, !.size = @ - 1]
    BY <2>1 DEF Shifted
  <2>3. t.size = [t EXCEPT !.entries = F].size
    BY DEF Tables
  <2>4. QED
    BY <2>2, <2>3
<1> HIDE DEF F
<1>4. /\ s.entries = F /\ s.size = t.size - 1 /\ s.max_distance = t.max_distance
      /\ s = [entries |-> F, size |-> t.size - 1, max_distance |-> t.max_distance]
  BY <1>3 DEF Tables
<1>5. ASSUME NEW j \in 0..(c - 1), Off(c, i, j) < n
      PROVE  /\ F[j] = MovedBack(c, t, j)
             /\ After(c, j) \in Used(t) /\ t.entries[After(c, j)].distance > 0
             /\ Off(c, i, After(c, j)) = Off(c, i, j) + 1
  <2> DEFINE o == Off(c, i, j)
             l == After(c, j)
  <2>1. o \in 0..(c - 1) /\ l \in 0..(c - 1)
    BY <1>2, Neighbours
  <2>2. o < c - 1
    BY <1>1, <1>5, <2>1
  <2>3. Off(c, i, l) = o + 1
    BY <2>2, OffIs
  <2>4. o + 1 \in 1..n
    BY <1>1, <1>5, <2>1
  <2>5. l \in Used(t) /\ t.entries[l].distance > 0
    BY <2>1, <2>3, <2>4 DEF Gap
  <2>6. t.entries[l] \in Entries
    BY <2>5, TableParts
  <2>7. F[j] = [t.entries[l] EXCEPT !.distance = @ - 1]
    BY <1>5 DEF F
  <2>8. F[j] = MovedBack(c, t, j)
    <3> DEFINE e == t.entries[l]
    <3>1. F[j] = [e EXCEPT !.distance = e.distance - 1]
      BY <2>7
    <3>2. MovedBack(c, t, j) = [key |-> e.key, value |-> e.value, distance |-> e.distance - 1]
      BY DEF MovedBack
    <3> HIDE DEF e
    <3>3. e \in Entries
      BY <2>6 DEF e
    <3>4. QED
      BY <3>1, <3>2, <3>3 DEF Entries
  <2>9. QED
    BY <2>3, <2>5, <2>8
<1>6. ASSUME NEW j \in 0..(c - 1)
      PROVE  /\ Off(c, i, j) = n => F[j] = Unused
             /\ Off(c, i, j) > n => F[j] = t.entries[j]
  <2>1. Off(c, i, j) \in 0..(c - 1)
    BY <1>2
  <2>2. n \in Nat
    BY <1>1
  <2>3. QED
    BY <2>1, <2>2 DEF F
<1>7. DOMAIN F = 0..(c - 1)
  BY DEF F
<1>8. QED
  BY <1>4, <1>5, <1>6, <1>7

\* Moving entries back keeps the table a Robin Hood table.
LEMMA Shift ==
  ASSUME NEW H \in [Keys -> Nat], NEW c \in Nat \ {0}, NEW t, RobinHood(H, c, t), Sized(t),
         NEW i \in Used(t), NEW n, Gap(c, t, i, n), NEW s, s = Shifted(t, i, n)
  PROVE  /\ RobinHood(H, c, s) /\ Sized(s) /\ s.size = t.size - 1
         /\ \A k, v : Has(s, k, v) <=> Has(t, k, v) /\ k # t.entries[i].key
<1> DEFINE O(j) == Off(c, i, j)
           b == OffPlace(c, i, n)
<1>0. t \in Tables(c) /\ Placed(H, c, t) /\ Once(t)
  BY DEF RobinHood
<1>1. /\ DOMAIN t.entries = 0..(c - 1) /\ i \in 0..(c - 1) /\ n \in 0..(c - 2)
      /\ t.size \in Nat /\ t.max_distance \in 0..(c - 1)
      /\ Used(t) \subseteq 0..(c - 1) /\ IsFiniteSet(Used(t))
      /\ \A j \in 0..(c - 1) : j \in Used(t) <=> t.entries[j] # Unused
      /\ \A j \in Used(t) : /\ t.entries[j] \in Entries /\ t.entries[j].key \in Keys
                            /\ t.entries[j].value \in Values /\ t.entries[j].distance \in Nat
  BY <1>0, TableParts DEF Gap
<1>n. n \in Nat /\ n < c - 1 /\ i \in 0..(c - 1)
  BY <1>1
<1>2. \A j \in Used(t) : /\ t.entries[j].distance = Far(H, c, t.entries[j].key, j)
                         /\ t.entries[j].distance <= t.max_distance
                         /\ t.entries[j].distance > 0 =>
                              /\ t.entries[Before(c, j)] # Unused
                              /\ t.entries[Before(c, j)].distance >= t.entries[j].distance - 1
  BY <1>0 DEF Placed, PlacedAt
<1>3. /\ DOMAIN s.entries = 0..(c - 1) /\ s.size = t.size - 1
      /\ s = [entries |-> s.entries, size |-> s.size, max_distance |-> s.max_distance]
      /\ s.max_distance = t.max_distance
  BY <1>0, <1>1, ShiftedIs
<1>4. \A j \in 0..(c - 1) :
        /\ O(j) < n => /\ s.entries[j] = MovedBack(c, t, j)
                       /\ After(c, j) \in Used(t) /\ t.entries[After(c, j)].distance > 0
                       /\ O(After(c, j)) = O(j) + 1
        /\ O(j) = n => s.entries[j] = Unused
        /\ O(j) > n => s.entries[j] = t.entries[j]
  BY <1>0, <1>1, ShiftedIs
<1>5. \A j \in 0..(c - 1) :
        /\ O(j) \in 0..(c - 1) /\ (O(j) = 0 <=> j = i)
        /\ O(j) > 0 => O(Before(c, j)) = O(j) - 1
        /\ O(j) = 0 => O(Before(c, j)) = c - 1
        /\ Before(c, j) \in 0..(c - 1) /\ After(c, j) \in 0..(c - 1)
        /\ Before(c, After(c, j)) = j /\ After(c, Before(c, j)) = j
  <2> SUFFICES ASSUME NEW j \in 0..(c - 1)
               PROVE  /\ O(j) \in 0..(c - 1) /\ (O(j) = 0 <=> j = i)
                      /\ O(j) > 0 => O(Before(c, j)) = O(j) - 1
                      /\ O(j) = 0 => O(Before(c, j)) = c - 1
                      /\ Before(c, j) \in 0..(c - 1) /\ After(c, j) \in 0..(c - 1)
                      /\ Before(c, After(c, j)) = j /\ After(c, Before(c, j)) = j
    BY Zenon
  <2>1. /\ O(j) \in 0..(c - 1) /\ (O(j) = 0 <=> j = i)
        /\ O(j) > 0 => O(Before(c, j)) = O(j) - 1
        /\ O(j) = 0 => O(Before(c, j)) = c - 1
    BY <1>n DEF Off, Before
  <2>2. /\ Before(c, j) \in 0..(c - 1) /\ After(c, j) \in 0..(c - 1)
        /\ Before(c, After(c, j)) = j /\ After(c, Before(c, j)) = j
    BY Neighbours
  <2>3. QED
    BY <2>1, <2>2
<1>6. \A j, l \in 0..(c - 1) : O(j) = O(l) => j = l
  BY <1>1, OffOnce
<1>7. b \in 0..(c - 1) /\ O(b) = n
  <2>1. n \in 0..(c - 1)
    BY <1>1
  <2>2. QED
    BY <1>1, <2>1, OffPlaceIs
<1>8. \A j \in 0..(c - 1) : O(j) \in 1..n => j \in Used(t) /\ t.entries[j].distance > 0
  BY DEF Gap
<1>9. \A j \in 0..(c - 1) : O(j) = n + 1 => t.entries[j] = Unused \/ t.entries[j].distance = 0
  BY DEF Gap
<1> HIDE DEF O, b
<1>10. \A j \in 0..(c - 1) : O(j) < n \/ O(j) = n \/ O(j) > n
  BY <1>n, <1>5
\* The entries that moved.
<1>11. ASSUME NEW j \in 0..(c - 1), O(j) < n
       PROVE  LET e == t.entries[After(c, j)]
                  f == s.entries[j]
              IN /\ f \in Entries /\ f # Unused /\ f.key = e.key /\ f.value = e.value
                 /\ f.distance = e.distance - 1 /\ f.distance \in Nat
                 /\ f.distance = Far(H, c, f.key, j) /\ f.distance <= t.max_distance
                 /\ e.distance \in Nat
  <2> DEFINE l == After(c, j)
             e == t.entries[l]
             f == s.entries[j]
  <2>1. l \in Used(t) /\ e.distance > 0 /\ f = MovedBack(c, t, j)
    BY <1>4, <1>11
  <2>2. e.key \in Keys /\ e.value \in Values /\ e.distance \in Nat
    BY <1>1, <2>1
  <2>3. f = [key |-> e.key, value |-> e.value, distance |-> e.distance - 1]
    BY <2>1 DEF MovedBack
  <2>4. e.distance - 1 \in Nat
    BY <2>1, <2>2
  <2>5. f \in Entries /\ f.key = e.key /\ f.value = e.value /\ f.distance = e.distance - 1
    BY <2>2, <2>3, <2>4 DEF Entries
  <2>6. f # Unused
    BY <2>5, HashMapAssumption DEF Entries
  <2>7. e.distance = Far(H, c, e.key, l) /\ e.distance <= t.max_distance
    BY <1>2, <2>1
  <2>8. Far(H, c, e.key, j) = e.distance - 1
    <3>1. l \in 0..(c - 1) /\ Before(c, l) = j
      BY <1>5
    <3>2. Far(H, c, e.key, l) > 0
      BY <2>1, <2>7
    <3>3. Far(H, c, e.key, Before(c, l)) = Far(H, c, e.key, l) - 1
      BY <2>2, <3>1, <3>2, FarIn
    <3>4. QED
      BY <2>7, <3>1, <3>3
  <2>9. e.distance - 1 <= t.max_distance
    BY <1>1, <2>2, <2>7
  <2>10. QED
    BY <2>2, <2>4, <2>5, <2>6, <2>8, <2>9
<1>12. \A j \in Used(t) : O(j) > n => s.entries[j] = t.entries[j]
  BY <1>1, <1>4
<1>13. b \in Used(t)
  <2>1. CASE n = 0
    BY <1>5, <1>7, <2>1
  <2>2. CASE n # 0
    <3>1. n \in 1..n
      BY <1>1, <2>2
    <3>2. QED
      BY <1>7, <1>8, <3>1
  <2>3. QED
    BY <2>1, <2>2
<1>14. s.entries \in [0..(c - 1) -> Entries \cup {Unused}]
  <2>1. ASSUME NEW j \in 0..(c - 1) PROVE s.entries[j] \in Entries \cup {Unused}
    <3>1. CASE O(j) < n
      BY <1>11, <3>1
    <3>2. CASE O(j) = n
      BY <1>4, <3>2
    <3>3. CASE O(j) > n
      BY <1>1, <1>4, <3>3
    <3>4. QED
      BY <1>10, <3>1, <3>2, <3>3
  <2>2. s.entries = [j \in 0..(c - 1) |-> s.entries[j]]
    <3>1. s.entries = [t EXCEPT !.entries = s.entries].entries
      BY <1>0 DEF Tables
    <3>2. QED
      BY <1>0, <1>1, <1>3, TableParts DEF Shifted
  <2>3. QED
    BY <2>1, <2>2
<1>15. Used(s) = Used(t) \ {b}
  <2>1. ASSUME NEW j \in 0..(c - 1) PROVE s.entries[j] # Unused <=> (t.entries[j] # Unused /\ j # b)
    <3>1. CASE O(j) < n
      <4>0. n # O(j)
        BY <1>n, <3>1
      <4>1. s.entries[j] # Unused /\ j # b
        BY <1>7, <1>11, <3>1, <4>0
      <4>2. j \in Used(t)
        <5>1. CASE j = i
          BY <5>1
        <5>2. CASE j # i
          <6>1. O(j) \in 1..n
            <7>1. O(j) \in 0..(c - 1) /\ O(j) # 0
              BY <1>5, <5>2
            <7>2. QED
              BY <1>n, <3>1, <7>1
          <6>2. QED
            BY <1>8, <6>1
        <5>3. QED
          BY <5>1, <5>2
      <4>3. QED
        BY <1>1, <4>1, <4>2
    <3>2. CASE O(j) = n
      BY <1>4, <1>6, <1>7, <3>2
    <3>3. CASE O(j) > n
      <4>1. j # b
        BY <1>1, <1>5, <1>7, <3>3
      <4>2. QED
        BY <1>4, <3>3, <4>1
    <3>4. QED
      BY <1>10, <3>1, <3>2, <3>3
  <2>2. \A j : j \in Used(s) <=> j \in 0..(c - 1) /\ s.entries[j] # Unused
    BY <1>3 DEF Used
  <2>3. \A j : j \in Used(t) <=> j \in 0..(c - 1) /\ t.entries[j] # Unused
    BY <1>1 DEF Used
  <2>4. QED
    BY <2>1, <2>2, <2>3
<1>16. Sized(s) /\ s.size \in Nat
  <2>1. /\ IsFiniteSet(Used(s))
        /\ Cardinality(Used(s)) = Cardinality(Used(t)) - 1
    <3>1. IsFiniteSet(Used(t))
      BY <1>1
    <3>2. /\ IsFiniteSet(Used(t) \ {b})
          /\ Cardinality(Used(t) \ {b}) = Cardinality(Used(t)) - 1
      BY <1>13, <3>1, FS_RemoveElement
    <3>3. QED
      BY <1>15, <3>2
  <2>2. Cardinality(Used(s)) \in Nat
    BY <2>1, FS_CardinalityType
  <2>3. QED
    BY <1>3, <2>1, <2>2 DEF Sized
<1>17. s \in Tables(c)
  BY <1>1, <1>3, <1>14, <1>16 DEF Tables
<1>18. ASSUME NEW j \in Used(s)
       PROVE  j \in Used(t) /\ j \in 0..(c - 1) /\ j # b /\ O(j) # n
  BY <1>1, <1>6, <1>7, <1>15
<1>19. Placed(H, c, s)
  <2> SUFFICES ASSUME NEW j \in Used(s) PROVE PlacedAt(H, c, s, j)
    BY DEF Placed
  <2> DEFINE a == Before(c, j)
  <2>1. j \in Used(t) /\ j \in 0..(c - 1) /\ O(j) # n /\ a \in 0..(c - 1)
    BY <1>5, <1>18
  <2>2. CASE O(j) < n
    <3> DEFINE e == t.entries[After(c, j)]
    <3>1. /\ s.entries[j].distance = e.distance - 1 /\ s.entries[j].distance \in Nat
          /\ s.entries[j].distance = Far(H, c, s.entries[j].key, j)
          /\ s.entries[j].distance <= t.max_distance /\ e.distance \in Nat
      BY <1>11, <2>1, <2>2
    <3>2. t.entries[j] # Unused /\ t.entries[j].distance >= e.distance - 1
             /\ t.entries[j].distance \in Nat
      <4>1. After(c, j) \in Used(t) /\ e.distance > 0 /\ Before(c, After(c, j)) = j
        BY <1>4, <1>5, <2>1, <2>2
      <4>2. QED
        BY <1>1, <1>2, <2>1, <4>1
    <3>3. ASSUME s.entries[j].distance > 0
          PROVE  s.entries[a] # Unused /\ s.entries[a].distance >= s.entries[j].distance - 1
      <4>1. CASE O(j) = 0
        <5>1. O(a) = c - 1 /\ c - 1 > n
          BY <1>1, <1>5, <2>1, <4>1
        <5>2. s.entries[a] = t.entries[a]
          BY <1>4, <2>1, <5>1
        <5>3. t.entries[j].distance > 0
          BY <3>1, <3>2, <3>3
        <5>4. t.entries[a] # Unused /\ t.entries[a].distance >= t.entries[j].distance - 1
          BY <1>2, <2>1, <5>3
        <5>5. t.entries[a].distance \in Nat
          BY <1>1, <2>1, <5>4
        <5>6. QED
          BY <3>1, <3>2, <5>2, <5>4, <5>5
      <4>2. CASE O(j) # 0
        <5>1. O(a) < n /\ After(c, a) = j
          <6>1. O(j) \in 0..(c - 1) /\ After(c, a) = j
            BY <1>5, <2>1
          <6>2. O(j) > 0
            BY <4>2, <6>1
          <6>3. O(a) = O(j) - 1
            BY <1>5, <2>1, <6>2
          <6>4. QED
            BY <1>n, <2>2, <6>1, <6>3
        <5>2. s.entries[a] # Unused /\ s.entries[a].distance = t.entries[j].distance - 1
          BY <1>11, <2>1, <5>1
        <5>3. QED
          BY <3>1, <3>2, <5>2
      <4>3. QED
        BY <4>1, <4>2
    <3>4. QED
      BY <1>3, <3>1, <3>3 DEF PlacedAt
  <2>3. CASE O(j) > n
    <3>1. s.entries[j] = t.entries[j] /\ t.entries[j].distance \in Nat
      BY <1>1, <1>4, <2>1, <2>3
    <3>2. ASSUME t.entries[j].distance > 0 PROVE s.entries[a] = t.entries[a]
      <4>1. O(j) # n + 1
        BY <1>1, <1>9, <2>1, <3>1, <3>2
      <4>2. O(a) > n
        <5>1. O(j) \in 0..(c - 1)
          BY <1>5, <2>1
        <5>2. O(j) > 0
          BY <1>n, <2>3, <5>1
        <5>3. O(a) = O(j) - 1
          BY <1>5, <2>1, <5>2
        <5>4. QED
          BY <1>n, <2>3, <4>1, <5>1, <5>3
      <4>3. QED
        BY <1>4, <2>1, <4>2
    <3>3. QED
      BY <1>2, <1>3, <2>1, <3>1, <3>2 DEF PlacedAt
  <2>4. QED
    BY <1>10, <2>1, <2>2, <2>3
\* Where an entry comes from.
<1> DEFINE From(j) == IF O(j) < n THEN After(c, j) ELSE j
<1>20. ASSUME NEW j \in Used(s)
       PROVE  /\ From(j) \in Used(t) /\ O(From(j)) = IF O(j) < n THEN O(j) + 1 ELSE O(j)
              /\ From(j) # i
              /\ s.entries[j].key = t.entries[From(j)].key
              /\ s.entries[j].value = t.entries[From(j)].value
  <2>1. j \in Used(t) /\ j \in 0..(c - 1) /\ O(j) # n /\ O(j) \in 0..(c - 1)
    BY <1>5, <1>18
  <2>2. CASE O(j) < n
    <3>1. /\ From(j) \in Used(t) /\ O(From(j)) = O(j) + 1 /\ s.entries[j].key = t.entries[From(j)].key
          /\ s.entries[j].value = t.entries[From(j)].value
      BY <1>4, <1>11, <2>1, <2>2
    <3>2. O(j) + 1 # 0 /\ O(i) = 0
      BY <1>n, <1>5, <2>1
    <3>3. QED
      BY <2>2, <3>1, <3>2
  <2>3. CASE O(j) > n
    <3>1. ~(O(j) < n) /\ O(j) # 0
      BY <1>1, <2>1, <2>3
    <3>2. From(j) = j /\ s.entries[j] = t.entries[j] /\ j # i
      BY <1>4, <1>5, <2>1, <2>3, <3>1
    <3>3. QED
      BY <2>1, <3>1, <3>2
  <2>4. QED
    BY <1>10, <2>1, <2>2, <2>3
<1> HIDE DEF From
<1>21. Once(s)
  <2> SUFFICES ASSUME NEW j \in Used(s), NEW l \in Used(s), s.entries[j].key = s.entries[l].key
               PROVE  j = l
    BY DEF Once
  <2>1. From(j) = From(l)
    BY <1>0, <1>20 DEF Once
  <2>2. /\ j \in 0..(c - 1) /\ l \in 0..(c - 1) /\ O(j) # n /\ O(l) # n
        /\ O(j) \in 0..(c - 1) /\ O(l) \in 0..(c - 1)
    BY <1>5, <1>18
  <2>3. O(j) = O(l)
    BY <1>1, <1>20, <2>1, <2>2
  <2>4. QED
    BY <1>6, <2>2, <2>3
<1>22. ASSUME NEW k, NEW v
       PROVE  Has(s, k, v) <=> Has(t, k, v) /\ k # t.entries[i].key
  <2>1. ASSUME Has(s, k, v) PROVE Has(t, k, v) /\ k # t.entries[i].key
    <3>1. PICK j \in Used(s) : s.entries[j].key = k /\ s.entries[j].value = v
      BY <2>1 DEF Has
    <3>2. From(j) \in Used(t) /\ t.entries[From(j)].key = k /\ t.entries[From(j)].value = v /\ From(j) # i
      BY <1>20, <3>1
    <3>3. QED
      BY <1>0, <3>2 DEF Has, Once
  <2>2. ASSUME Has(t, k, v), k # t.entries[i].key PROVE Has(s, k, v)
    <3>1. PICK l \in Used(t) : t.entries[l].key = k /\ t.entries[l].value = v
      BY <2>2 DEF Has
    <3>2. l # i /\ l \in 0..(c - 1) /\ O(l) \in 0..(c - 1) /\ O(l) # 0
      BY <1>1, <1>5, <2>2, <3>1
    <3>3. CASE O(l) > n
      <4>1. l # b /\ s.entries[l] = t.entries[l]
        BY <1>1, <1>4, <1>7, <3>2, <3>3
      <4>2. l \in Used(s)
        BY <1>15, <4>1
      <4>3. QED
        BY <3>1, <4>1, <4>2 DEF Has
    <3>4. CASE ~(O(l) > n)
      <4> DEFINE j == Before(c, l)
      <4>1. j \in 0..(c - 1) /\ After(c, j) = l /\ O(j) < n
        <5>1. j \in 0..(c - 1) /\ After(c, j) = l /\ O(l) > 0
          BY <1>5, <3>2
        <5>2. O(j) = O(l) - 1
          BY <1>5, <3>2, <5>1
        <5>3. QED
          BY <1>n, <3>2, <3>4, <5>1, <5>2
      <4>2. s.entries[j] # Unused /\ s.entries[j].key = k /\ s.entries[j].value = v
        BY <1>11, <3>1, <4>1
      <4>3. j \in Used(s)
        BY <1>3, <4>1, <4>2 DEF Used
      <4>4. QED
        BY <4>2, <4>3 DEF Has
    <3>5. QED
      BY <3>3, <3>4
  <2>3. QED
    BY <2>1, <2>2
<1>23. QED
  BY <1>0, <1>3, <1>16, <1>17, <1>19, <1>21, <1>22 DEF RobinHood

\* The rounds go through the places in order.
LEMMA RoundsGoOn ==
  ASSUME NEW H \in [Keys -> Nat], NEW c \in Nat \ {0}, NEW k \in Keys,
         NEW i \in 0..(c - 1), NEW j \in 0..(c - 1), Far(H, c, k, i) + Off(c, i, j) < c
  PROVE  Place(H, c, k, Far(H, c, k, i) + Off(c, i, j)) = j
<1> DEFINE h == Start(H, c, k)
<1>1. h \in 0..(c - 1)
  BY StartIn
<1> DEFINE d == Far(H, c, k, i)
           o == Off(c, i, j)
<1>2. d = (IF i >= h THEN i - h ELSE i - h + c) /\ o = (IF j >= i THEN j - i ELSE j - i + c)
  BY DEF Far, Off
<1>3. Place(H, c, k, d + o) = IF h + (d + o) < c THEN h + (d + o) ELSE h + (d + o) - c
  BY DEF Place
<1>4. d + o < c
  OBVIOUS
<1> HIDE DEF h, d, o
<1>5. Place(H, c, k, d + o) = j
  BY <1>1, <1>2, <1>3, <1>4
<1>6. QED
  BY <1>5 DEF d, o

\* A removal of a key that is there finds an end of the shifting and leaves
\* the other keys.
LEMMA RemoveIs ==
  ASSUME Hash \in [Keys -> Nat], NEW c \in Nat \ {0}, NEW t, RobinHood(Hash, c, t), Sized(t),
         Used(t) # 0..(c - 1), NEW key \in Keys, Found(t, key), NEW z,
         z = Shifted(t, Slot(t, key, Least(Rounds(t, key))),
                     Least(Ends(t, key)) - Least(Rounds(t, key)))
  PROVE  /\ Ends(t, key) # {} /\ RobinHood(Hash, c, z) /\ Sized(z) /\ z.size = t.size - 1
         /\ \A k, v : Has(z, k, v) <=> Has(t, k, v) /\ k # key
<1> DEFINE P(r) == Place(Hash, c, key, r)
           E == Ends(t, key)
           m == Least(E)
<1>0. t \in Tables(c) /\ Placed(Hash, c, t)
  BY DEF RobinHood
<1>1. PICK i \in Used(t) : t.entries[i].key = key
  <2>1. \E i \in Used(t) : t.entries[i].key = key
    BY LookupIsThere
  <2>2. QED
    BY <2>1
<1> DEFINE d == t.entries[i].distance
           n == m - d
<1>2. /\ DOMAIN t.entries = 0..(c - 1) /\ Capacity(t) = c /\ i \in 0..(c - 1) /\ d \in Nat
      /\ Used(t) \subseteq 0..(c - 1)
      /\ \A j \in 0..(c - 1) : j \in Used(t) <=> t.entries[j] # Unused
      /\ \A j \in Used(t) : t.entries[j].distance \in Nat
  BY <1>0, TableParts
<1>3. Least(Rounds(t, key)) = d /\ Slot(t, key, d) = i
  BY <1>1, LookupFinds
<1>4. d = Far(Hash, c, key, i)
  BY <1>0, <1>1 DEF Placed, PlacedAt
<1>5. d \in 0..(c - 1)
  <2>1. Far(Hash, c, key, i) \in 0..(c - 1)
    BY <1>2, FarIn
  <2>2. QED
    BY <1>4, <2>1
<1>6. \A q \in 0..d : P(q) \in Used(t)
  BY <1>1, Chain
<1>7. \A r \in 0..c : Slot(t, key, r) = P(r) /\ P(r) \in 0..(c - 1)
  <2> SUFFICES ASSUME NEW r \in 0..c PROVE Slot(t, key, r) = P(r) /\ P(r) \in 0..(c - 1)
    OBVIOUS
  <2>1. Slot(t, key, r) = P(r)
    BY <1>2, SlotIs
  <2>2. QED
    BY <2>1, PlaceIn
<1>8. \A r : r \in E <=> /\ r \in d..(c - 1)
                         /\ t.entries[P(r + 1)] = Unused \/ t.entries[P(r + 1)].distance = 0
  <2>1. \A r \in d..(c - 1) : r + 1 \in 0..c
    BY <1>5
  <2>2. \A r \in d..(c - 1) : Slot(t, key, r + 1) = P(r + 1)
    BY <1>7, <2>1
  <2>3. E = {r \in d..(c - 1) : t.entries[Slot(t, key, r + 1)] = Unused
                                 \/ t.entries[Slot(t, key, r + 1)].distance = 0}
    BY <1>2, <1>3 DEF Ends
  <2> HIDE DEF E, d, P
  <2>4. QED
    BY <2>2, <2>3
<1> HIDE DEF E, d, P
<1>9. PICK f \in Nat : f > d /\ f < c /\ P(f) \notin Used(t)
  <2>1. PICK u \in 0..(c - 1) : u \notin Used(t)
    BY <1>2
  <2> DEFINE f == Far(Hash, c, key, u)
  <2>2. f \in 0..(c - 1) /\ P(f) = u
    BY FarIn DEF P
  <2> HIDE DEF f
  <2>3. f \notin 0..d
    BY <1>6, <2>1, <2>2
  <2>4. f \in Nat /\ f > d /\ f < c
    BY <1>5, <2>2, <2>3
  <2>5. QED
    BY <2>1, <2>2, <2>4
<1>10. f - 1 \in E
  <2>1. f - 1 \in d..(c - 1) /\ f - 1 + 1 = f /\ f \in 0..c
    BY <1>5, <1>9
  <2>2. t.entries[P(f)] = Unused
    BY <1>2, <1>7, <1>9, <2>1
  <2>3. QED
    BY <1>8, <2>1, <2>2
<1>11. m \in E /\ \A r \in E : m <= r
  <2>1. E \in SUBSET Nat
    BY <1>5, <1>8
  <2>2. \E r \in E : \A q \in E : r <= q
    BY <1>10, <2>1, LeastNat
  <2>3. QED
    BY <2>2 DEF Least
<1> HIDE DEF m
<1>12. m \in d..(c - 1) /\ m < c - 1 /\ n \in 0..(c - 2)
  <2>1. m \in d..(c - 1)
    BY <1>8, <1>11
  <2>2. m <= f - 1
    BY <1>10, <1>11
  <2>3. QED
    BY <1>5, <1>9, <2>1, <2>2
<1>13. ASSUME NEW j \in 0..(c - 1), d + Off(c, i, j) < c
       PROVE  P(d + Off(c, i, j)) = j
  BY <1>2, <1>4, <1>13, RoundsGoOn DEF P
<1> HIDE DEF n
<1>14. Gap(c, t, i, n)
  <2>1. ASSUME NEW j \in 0..(c - 1), Off(c, i, j) \in 1..n
        PROVE  j \in Used(t) /\ t.entries[j].distance > 0
    <3> DEFINE o == Off(c, i, j)
               r == d + o - 1
    <3> HIDE DEF o
    <3>1. o \in 1..n /\ o \in Int
      BY <2>1 DEF o
    <3>2. r \in d..(c - 1) /\ r < m /\ r + 1 = d + o /\ d + o < c
      BY <1>5, <1>12, <3>1 DEF n
    <3>3. P(d + o) = j
      BY <1>13, <3>2 DEF o
    <3>4. r \notin E
      BY <1>11, <1>12, <3>2
    <3>5. t.entries[j] # Unused /\ t.entries[j].distance # 0
      BY <1>8, <3>2, <3>3, <3>4
    <3>6. j \in Used(t) /\ t.entries[j].distance \in Nat
      BY <1>2, <3>5
    <3>7. QED
      BY <3>5, <3>6
  <2>2. ASSUME NEW j \in 0..(c - 1), Off(c, i, j) = n + 1
        PROVE  t.entries[j] = Unused \/ t.entries[j].distance = 0
    <3>1. d + (n + 1) = m + 1 /\ m + 1 < c
      BY <1>5, <1>12 DEF n
    <3>2. P(m + 1) = j
      BY <1>13, <2>2, <3>1
    <3>3. QED
      BY <1>8, <1>11, <3>2
  <2>3. QED
    BY <1>12, <2>1, <2>2 DEF Gap
<1>15. z = Shifted(t, i, n)
  BY <1>3 DEF n, m, E
<1>16. /\ RobinHood(Hash, c, z) /\ Sized(z) /\ z.size = t.size - 1
       /\ \A k, v : Has(z, k, v) <=> Has(t, k, v) /\ k # t.entries[i].key
  BY <1>14, <1>15, Shift
<1>17. E # {}
  BY <1>10
<1>18. QED
  BY <1>1, <1>16, <1>17 DEF E

GoodTable(H, t) ==
  /\ Capacity(t) \in Nat \ {0} /\ RobinHood(H, Capacity(t), t)
  /\ Sized(t) /\ ~TooFull(t)

\* The places the iterator has been at.
Behind(t, n) == {i \in Used(t) : i < n}

KeysAt(t, S) == {t.entries[i].key : i \in S}

\* The counters of changes.
Counted ==
  /\ modification_count \in 0..(CountRange - 1) /\ since \in 0..CountRange
  /\ iter = Unused => since = 0
  /\ iter # Unused => iter \in [count : Nat, index : Nat, initial : 0..(CountRange - 1)]
  /\ iter # Unused /\ since < CountRange =>
       modification_count = (iter.initial + since) % CountRange

\* An iterator over a table that has not changed.
Iterates ==
  iter # Unused /\ since = 0 =>
    /\ iter.index <= Capacity(table)
    /\ iter.count = Cardinality(Behind(table, iter.index))
    /\ visited = KeysAt(table, Behind(table, iter.index))

Panics ==
  /\ panic \in {"no", "concurrent modification", "no next item"}
  /\ panic = "no next item" => since = CountRange

Inv ==
  /\ Hash \in HashFunctions /\ GoodTable(Hash, table)
  /\ Counted /\ Iterates /\ Panics

\* The table after put().
LEMMA PutTable ==
  ASSUME Hash \in [Keys -> Nat], GoodTable(Hash, table), NEW key \in Keys, NEW value \in Values,
         put(key, value)
  PROVE  /\ GoodTable(Hash, table') /\ panic' = panic /\ Changed
         /\ \A k, v : Has(table', k, v) <=> Wanted(table, key, value, k, v)
<1> DEFINE z == Inserted(table, key, value)
           c == Capacity(table)
<1>1. c \in Nat \ {0} /\ RobinHood(Hash, c, table) /\ Sized(table) /\ ~TooFull(table)
  BY DEF GoodTable
<1> HIDE DEF z, c
<1>2. /\ z.done /\ Sized(z.table) /\ ~TooFull(z.table)
      /\ \E a \in Nat \ {0} : RobinHood(Hash, a, z.table)
      /\ \A k, v : Has(z.table, k, v) <=> Wanted(table, key, value, k, v)
  BY <1>1, InsertedIs DEF z
<1>3. table' = z.table /\ panic' = panic /\ Changed
  BY <1>2 DEF put, z
<1>4. PICK a \in Nat \ {0} : RobinHood(Hash, a, z.table)
  BY <1>2
<1>5. Capacity(z.table) = a
  BY <1>4, TableParts DEF RobinHood
<1>6. GoodTable(Hash, z.table)
  BY <1>2, <1>4, <1>5 DEF GoodTable
<1>7. QED
  BY <1>2, <1>3, <1>6

\* A good table has an unused place.
LEMMA GoodHasUnused ==
  ASSUME NEW H, NEW t, GoodTable(H, t)
  PROVE  /\ Used(t) # 0..(Capacity(t) - 1) /\ t.size \in Nat /\ t.size < Capacity(t)
         /\ t.size = Cardinality(Used(t)) /\ t \in Tables(Capacity(t))
<1> DEFINE c == Capacity(t)
<1>1. c \in Nat \ {0} /\ RobinHood(H, c, t) /\ Sized(t) /\ ~(t.size * 5 >= c * 3)
  BY DEF GoodTable, TooFull
<1> HIDE DEF c
<1>2. t \in Tables(c) /\ t.size \in Nat /\ t.size = Cardinality(Used(t))
  BY <1>1, TableParts DEF RobinHood, Sized
<1>3. t.size < c
  BY <1>1, <1>2
<1>4. Used(t) # 0..(c - 1)
  BY <1>1, <1>2, <1>3, HasUnused
<1>5. QED
  BY <1>2, <1>3, <1>4 DEF c

\* The table after remove().
LEMMA RemoveTable ==
  ASSUME Hash \in [Keys -> Nat], GoodTable(Hash, table), NEW key \in Keys, remove(key)
  PROVE  /\ GoodTable(Hash, table') /\ panic' = panic /\ Changed /\ Found(table, key)
         /\ \A k, v : Has(table', k, v) <=> Has(table, k, v) /\ k # key
<1> DEFINE c == Capacity(table)
           z == Shifted(table, Slot(table, key, Least(Rounds(table, key))),
                        Least(Ends(table, key)) - Least(Rounds(table, key)))
<1>1. c \in Nat \ {0} /\ RobinHood(Hash, c, table) /\ Sized(table)
        /\ ~(table.size * 5 >= c * 3)
  BY DEF GoodTable, TooFull
<1>2. Used(table) # 0..(c - 1) /\ table.size \in Nat
  BY GoodHasUnused
<1>3. Found(table, key) /\ Changed
  BY DEF remove
<1> HIDE DEF c, z
<1>4. /\ Ends(table, key) # {} /\ RobinHood(Hash, c, z) /\ Sized(z) /\ z.size = table.size - 1
      /\ \A k, v : Has(z, k, v) <=> Has(table, k, v) /\ k # key
  BY <1>1, <1>2, <1>3, RemoveIs DEF z
<1>5. table' = z /\ panic' = panic
  BY <1>4 DEF remove, z
<1>6. Capacity(z) = c
  BY <1>1, <1>4, TableParts DEF RobinHood
<1>7. ~TooFull(z)
  BY <1>1, <1>2, <1>4, <1>6 DEF TooFull
<1>8. GoodTable(Hash, z)
  BY <1>1, <1>4, <1>6, <1>7 DEF GoodTable
<1>9. QED
  BY <1>3, <1>4, <1>5, <1>8

\* An empty table is a good one.
LEMMA EmptyIsGood ==
  ASSUME NEW H, NEW c \in Nat \ {0}
  PROVE  GoodTable(H, init_capacity(c)) /\ Capacity(init_capacity(c)) = c
<1> DEFINE t == init_capacity(c)
<1>1. RobinHood(H, c, t) /\ Sized(t) /\ t.size = 0
  BY EmptyTable
<1> HIDE DEF t
<1>2. Capacity(t) = c
  BY <1>1, TableParts DEF RobinHood
<1>3. ~TooFull(t)
  BY <1>1, <1>2 DEF TooFull
<1>4. QED
  BY <1>1, <1>2, <1>3 DEF GoodTable, t

\* A change is counted.
LEMMA ChangedKeeps ==
  ASSUME Counted, Panics, Changed, panic' = panic
  PROVE  Counted' /\ Panics' /\ Iterates'
<1> DEFINE R == CountRange
           N == modification_count
           M == (modification_count + 1) % CountRange
<1>1. R \in Nat \ {0} /\ N \in 0..(R - 1) /\ since \in 0..R
  BY HashMapAssumption DEF Counted
<1>2. N' = M /\ iter' = iter /\ panic' = panic
        /\ since' = IF iter # Unused /\ since < R THEN since + 1 ELSE since
  BY DEF Changed
<1>3. M \in 0..(R - 1)
  <2>1. N + 1 \in Int
    BY <1>1
  <2>2. QED
    BY <1>1, <2>1, Quotient
<1>4. since' \in 0..R
  BY <1>1, <1>2
<1>5. iter' = Unused => since' = 0
  BY <1>2 DEF Counted
<1>6. iter' # Unused => iter' \in [count : Nat, index : Nat, initial : 0..(R - 1)] /\ since' > 0
  BY <1>1, <1>2 DEF Counted
<1>7. ASSUME iter' # Unused, since' < R PROVE N' = (iter'.initial + since') % R
  <2> DEFINE a == iter.initial
  <2>1. since < R /\ since' = since + 1
    BY <1>1, <1>2, <1>7
  <2>2. a \in 0..(R - 1) /\ N = (a + since) % R
    BY <1>2, <1>7, <2>1 DEF Counted
  <2> HIDE DEF a
  <2>3. M = (a + (since + 1)) % R
    <3>1. a + since \in Int /\ a + since + 1 \in Int /\ a + since >= 0 /\ a + since < 2 * R - 1
      BY <1>1, <1>7, <2>1, <2>2
    <3>2. CASE a + since < R - 1
      <4>1. a + since \in 0..(R - 1) /\ a + since + 1 \in 0..(R - 1)
        BY <1>1, <3>1, <3>2
      <4>2. N = a + since
        BY <1>1, <2>2, <3>1, <4>1, NearRemainder
      <4>3. N + 1 = a + (since + 1)
        BY <1>1, <2>2, <4>2
      <4>4. QED
        BY <4>3
    <3>3. CASE a + since = R - 1
      <4>1. a + since \in 0..(R - 1)
        BY <1>1, <3>1, <3>3
      <4>2. N = a + since
        BY <1>1, <2>2, <3>1, <4>1, NearRemainder
      <4>3. N + 1 = a + (since + 1)
        BY <1>1, <2>2, <4>2
      <4>4. QED
        BY <4>3
    <3>4. CASE a + since > R - 1
      <4> DEFINE x == a + since
                 y == a + since + 1
      <4>1. x \in R..(2 * R - 1) /\ y \in R..(2 * R - 1) /\ x \in Int /\ y \in Int
            /\ y - R = x - R + 1 /\ y - R \in 0..(R - 1) /\ y - R \in Int
        BY <1>1, <3>1, <3>4
      <4>2. y = a + (since + 1)
        BY <1>1, <2>2
      <4> HIDE DEF x, y
      <4>3. x % R = x - R /\ y % R = y - R /\ (y - R) % R = y - R
        BY <1>1, <4>1, NearRemainder
      <4>4. N = x - R
        BY <2>2, <4>3 DEF x
      <4>5. M = (y - R) % R
        BY <4>1, <4>4
      <4>6. QED
        BY <4>2, <4>3, <4>5
    <3>5. QED
      BY <1>1, <3>1, <3>2, <3>3, <3>4
  <2>4. QED
    BY <1>2, <2>1, <2>3 DEF a
<1>8. Counted'
  BY <1>2, <1>3, <1>4, <1>5, <1>6, <1>7 DEF Counted
<1>9. Panics'
  BY <1>2 DEF Panics, Changed
<1>10. Iterates'
  <2>1. ~(iter' # Unused /\ since' = 0)
    BY <1>4, <1>6
  <2>2. QED
    BY <2>1 DEF Iterates
<1>11. QED
  BY <1>8, <1>9, <1>10

\* An iterator is not Unused.
LEMMA IteratorIs ==
  ASSUME NEW a \in Nat, NEW b \in Nat, NEW d \in 0..(CountRange - 1)
  PROVE  /\ [count |-> a, index |-> b, initial |-> d] # Unused
         /\ [count |-> a, index |-> b, initial |-> d]
              \in [count : Nat, index : Nat, initial : 0..(CountRange - 1)]
<1>1. d \in Nat
  BY HashMapAssumption
<1>2. [count |-> a, index |-> b, initial |-> d] \in [count : Nat, index : Nat, initial : Nat]
  BY <1>1
<1>3. QED
  BY <1>2, HashMapAssumption

\* Before the iterator starts it has been nowhere.
LEMMA BehindNothing ==
  ASSUME NEW t, Used(t) \subseteq Nat
  PROVE  Behind(t, 0) = {} /\ KeysAt(t, Behind(t, 0)) = {} /\ Cardinality(Behind(t, 0)) = 0
<1>1. Behind(t, 0) = {}
  BY DEF Behind
<1>2. QED
  BY <1>1, FS_EmptySet DEF KeysAt

\* A new table of InitCapacity places, with no iterator, satisfies the invariant.
LEMMA InvInit == Init => Inv
<1> SUFFICES ASSUME Init PROVE Inv
  OBVIOUS
<1>1. InitCapacity \in Nat \ {0} /\ CountRange \in Nat \ {0}
  BY HashMapAssumption
<1>2. GoodTable(Hash, table)
  BY <1>1, EmptyIsGood DEF Init
<1>3. Counted
  BY <1>1 DEF Init, Counted
<1>4. Iterates /\ Panics /\ Hash \in HashFunctions
  BY DEF Init, Iterates, Panics
<1>5. QED
  BY <1>2, <1>3, <1>4 DEF Inv

\* entry_iterator() keeps the invariant.
LEMMA IteratorKeeps ==
  ASSUME Inv, entry_iterator
  PROVE  Inv'
<1> DEFINE i == [count |-> 0, index |-> 0, initial |-> modification_count]
<1>1. /\ iter' = i /\ visited' = {} /\ since' = 0 /\ panic = "no"
      /\ Hash' = Hash /\ table' = table /\ modification_count' = modification_count /\ panic' = panic
  BY DEF entry_iterator
<1>2. CountRange \in Nat \ {0} /\ modification_count \in 0..(CountRange - 1)
  BY HashMapAssumption DEF Inv, Counted
<1>3. i # Unused /\ i \in [count : Nat, index : Nat, initial : 0..(CountRange - 1)]
  BY <1>2, IteratorIs
<1>4. i.count = 0 /\ i.index = 0 /\ i.initial = modification_count
  OBVIOUS
<1> HIDE DEF i
<1>5. Counted'
  <2>1. (modification_count + 0) % CountRange = modification_count
    <3>1. modification_count \in Int /\ modification_count + 0 = modification_count
      BY <1>2
    <3>2. modification_count % CountRange = modification_count
      BY <1>2, <3>1, NearRemainder
    <3>3. QED
      BY <3>1, <3>2
  <2>2. 0 \in 0..CountRange
    BY <1>2
  <2>3. QED
    BY <1>1, <1>2, <1>3, <1>4, <2>1, <2>2 DEF Counted
<1>6. Iterates'
  <2>1. Capacity(table) \in Nat \ {0} /\ table \in Tables(Capacity(table))
    BY GoodHasUnused DEF Inv, GoodTable
  <2>2. Used(table) \subseteq Nat
    BY <2>1, TableParts
  <2>3. Behind(table, 0) = {} /\ KeysAt(table, Behind(table, 0)) = {} /\ Cardinality(Behind(table, 0)) = 0
    BY <2>2, BehindNothing
  <2>4. 0 <= Capacity(table)
    BY <2>1
  <2>5. QED
    BY <1>1, <1>4, <2>3, <2>4 DEF Iterates
<1>7. Panics'
  BY <1>1 DEF Panics
<1>8. QED
  BY <1>1, <1>5, <1>6, <1>7 DEF Inv

\* If the count is the iterator's, the table has not changed or the count has
\* gone round.
LEMMA SameCount ==
  ASSUME Counted, iter # Unused, iter.initial = modification_count
  PROVE  since \in {0, CountRange}
<1> DEFINE R == CountRange
           a == iter.initial
<1>1. R \in Nat \ {0} /\ since \in 0..R /\ a \in 0..(R - 1)
  BY HashMapAssumption DEF Counted
<1>2. SUFFICES ASSUME since # 0, since # R PROVE FALSE
  OBVIOUS
<1>3. since < R /\ since > 0
  BY <1>1, <1>2
<1>4. a = (a + since) % R
  BY <1>3 DEF Counted
<1> HIDE DEF a, R
<1> DEFINE x == a + since
<1>5. CASE x < R
  <2>1. x \in Int /\ x \in 0..(R - 1)
    BY <1>1, <1>3, <1>5
  <2> HIDE DEF x
  <2>2. x % R = x
    BY <1>1, <2>1, NearRemainder
  <2>3. QED
    BY <1>1, <1>3, <1>4, <2>2 DEF x
<1>6. CASE ~(x < R)
  <2>1. x \in Int /\ x \in R..(2 * R - 1)
    BY <1>1, <1>3, <1>6
  <2> HIDE DEF x
  <2>2. x % R = x - R
    BY <1>1, <2>1, NearRemainder
  <2>3. QED
    BY <1>1, <1>3, <1>4, <2>2 DEF x
<1>7. QED
  BY <1>5, <1>6

\* next() returns the entry of the next used place.
LEMMA NextReturns ==
  ASSUME Inv, iter # Unused, since = 0, iter.count < table.size
  PROVE  /\ Ahead # {} /\ Least(Ahead) \in Used(table) /\ Least(Ahead) < Capacity(table)
         /\ Behind(table, Least(Ahead) + 1) = Behind(table, iter.index) \cup {Least(Ahead)}
         /\ Least(Ahead) \notin Behind(table, iter.index)
<1> DEFINE n == iter.index
           l == Least(Ahead)
           c == Capacity(table)
           B == Behind(table, n)
<1>1. n \in Nat /\ iter.count \in Nat
  BY DEF Inv, Counted
<1>2. c \in Nat \ {0} /\ table \in Tables(c) /\ table.size = Cardinality(Used(table))
  BY GoodHasUnused DEF Inv, GoodTable
<1>3. Used(table) \subseteq 0..(c - 1) /\ IsFiniteSet(Used(table))
  BY <1>2, TableParts
<1>4. Ahead = {i \in Used(table) : i >= n}
  BY DEF Ahead
<1>5. iter.count = Cardinality(B)
  BY DEF Inv, Iterates
<1>6. Ahead # {}
  <2> SUFFICES ASSUME Ahead = {} PROVE FALSE
    OBVIOUS
  <2>1. B = Used(table)
    BY <1>1, <1>3, <1>4 DEF Behind
  <2>2. QED
    BY <1>1, <1>2, <1>5, <2>1
<1>7. l \in Ahead /\ \A i \in Ahead : l <= i
  <2>1. Ahead \in SUBSET Nat
    BY <1>3, <1>4
  <2>2. \E i \in Ahead : \A j \in Ahead : i <= j
    BY <1>6, <2>1, LeastNat
  <2>3. QED
    BY <2>2 DEF Least
<1> HIDE DEF l, n, c
<1>8. l \in Used(table) /\ l >= n /\ l \in 0..(c - 1)
  BY <1>3, <1>4, <1>7
<1>9. Behind(table, l + 1) = B \cup {l}
  <2>1. ASSUME NEW i \in Used(table) PROVE i < l + 1 <=> (i < n \/ i = l)
    <3>1. i \in Nat /\ l \in Nat /\ n \in Nat
      BY <1>1, <1>3, <1>8
    <3>2. i >= n => l <= i
      BY <1>4, <1>7
    <3>3. QED
      BY <1>8, <3>1, <3>2
  <2>2. QED
    BY <1>8, <2>1 DEF Behind
<1>10. l \notin B
  BY <1>1, <1>8 DEF Behind
<1>11. QED
  BY <1>2, <1>6, <1>8, <1>9, <1>10 DEF l, n, c

\* next() keeps the invariant.
LEMMA NextKeeps ==
  ASSUME Inv, next
  PROVE  Inv'
<1>1. /\ panic = "no" /\ iter # Unused
      /\ Hash' = Hash /\ table' = table /\ modification_count' = modification_count
  BY DEF next
<1>2. Counted /\ Iterates /\ Panics /\ Hash \in HashFunctions /\ GoodTable(Hash, table)
  BY DEF Inv
<1>3. CountRange \in Nat \ {0} /\ since \in 0..CountRange
  BY <1>2, HashMapAssumption DEF Counted
<1>4. CASE panic' = "concurrent modification" /\ iter' = iter /\ visited' = visited /\ since' = since
  <2>1. Counted'
    BY <1>1, <1>2, <1>4 DEF Counted
  <2>2. Iterates'
    BY <1>1, <1>2, <1>4 DEF Iterates
  <2>3. Panics'
    BY <1>4 DEF Panics
  <2>4. QED
    BY <1>1, <1>2, <2>1, <2>2, <2>3 DEF Inv
<1>5. CASE iter' = Unused /\ visited' = {} /\ since' = 0 /\ panic' = panic
  <2>1. Counted'
    BY <1>1, <1>2, <1>3, <1>5 DEF Counted
  <2>2. Iterates'
    BY <1>5 DEF Iterates
  <2>3. Panics'
    BY <1>1, <1>5 DEF Panics
  <2>4. QED
    BY <1>1, <1>2, <2>1, <2>2, <2>3 DEF Inv
<1>6. CASE /\ iter.initial = modification_count /\ iter.count < table.size
           /\ IF Ahead = {}
              THEN panic' = "no next item" /\ UNCHANGED <<iter, visited>>
              ELSE /\ iter' = NextAfter(Least(Ahead))
                   /\ visited' = visited \cup {table.entries[Least(Ahead)].key}
                   /\ UNCHANGED panic
           /\ UNCHANGED since
  <2>1. since \in {0, CountRange} /\ since' = since
    BY <1>1, <1>2, <1>6, SameCount
  <2>2. CASE Ahead = {}
    <3>1. panic' = "no next item" /\ iter' = iter /\ visited' = visited
      BY <1>6, <2>2
    <3>2. since = CountRange
      BY <1>1, <1>6, <2>1, <2>2, NextReturns
    <3>3. Counted'
      BY <1>1, <1>2, <2>1, <3>1 DEF Counted
    <3>4. Iterates'
      BY <1>1, <1>2, <2>1, <3>1 DEF Iterates
    <3>5. Panics'
      BY <2>1, <3>1, <3>2 DEF Panics
    <3>6. QED
      BY <1>1, <1>2, <3>3, <3>4, <3>5 DEF Inv
  <2>3. CASE Ahead # {}
    <3> DEFINE l == Least(Ahead)
               i == [count |-> iter.count + 1, index |-> l + 1, initial |-> iter.initial]
               c == Capacity(table)
    <3>1. iter' = NextAfter(l) /\ visited' = visited \cup {table.entries[l].key} /\ panic' = panic
      BY <1>6, <2>3
    <3>2. iter \in [count : Nat, index : Nat, initial : 0..(CountRange - 1)]
      BY <1>1, <1>2 DEF Counted
    <3>3. NextAfter(l) = i
      <4> DEFINE x == l + 1
                 j == [iter EXCEPT !.count = @ + 1]
      <4> HIDE DEF x
      <4>1. j = [count |-> iter.count + 1, index |-> iter.index, initial |-> iter.initial]
        BY <3>2
      <4>2. NextAfter(l) = [j EXCEPT !.index = x]
        BY Zenon DEF NextAfter, x
      <4> HIDE DEF j
      <4>3. [j EXCEPT !.index = x] = [count |-> iter.count + 1, index |-> x, initial |-> iter.initial]
        BY <4>1
      <4>4. QED
        BY <4>2, <4>3 DEF x
    <3>4. l \in Nat
      <4>1. c \in Nat \ {0} /\ table \in Tables(c)
        BY <1>2, GoodHasUnused DEF GoodTable
      <4>2. Used(table) \subseteq 0..(c - 1)
        BY <4>1, TableParts
      <4>3. Ahead \in SUBSET Nat
        BY <4>2 DEF Ahead
      <4>4. \E a \in Ahead : \A b \in Ahead : a <= b
        BY <2>3, <4>3, LeastNat
      <4>5. l \in Ahead
        BY <4>4 DEF Least
      <4>6. QED
        BY <4>3, <4>5
    <3> HIDE DEF l
    <3>5. /\ i # Unused /\ i \in [count : Nat, index : Nat, initial : 0..(CountRange - 1)]
          /\ i.initial = iter.initial /\ i.count = iter.count + 1 /\ i.index = l + 1
      <4>1. iter.count + 1 \in Nat /\ l + 1 \in Nat /\ iter.initial \in 0..(CountRange - 1)
        BY <3>2, <3>4
      <4>2. QED
        BY <4>1, IteratorIs
    <3> HIDE DEF i
    <3>6. Counted'
      BY <1>1, <1>2, <2>1, <3>1, <3>3, <3>5 DEF Counted
    <3>7. Iterates'
      <4> SUFFICES ASSUME since = 0
                   PROVE  /\ i.index <= c
                          /\ i.count = Cardinality(Behind(table, i.index))
                          /\ visited' = KeysAt(table, Behind(table, i.index))
        BY <1>1, <2>1, <3>1, <3>3 DEF Iterates
      <4> DEFINE B == Behind(table, iter.index)
      <4>1. /\ l \in Used(table) /\ l < c
            /\ Behind(table, l + 1) = B \cup {l} /\ l \notin B
        BY <1>1, <1>6, NextReturns DEF l
      <4>2. iter.count = Cardinality(B) /\ visited = KeysAt(table, B)
        BY <1>1, <1>2 DEF Iterates
      <4>3. c \in Nat \ {0} /\ table \in Tables(c)
        BY <1>2, GoodHasUnused DEF GoodTable
      <4>4. IsFiniteSet(B)
        <5>1. IsFiniteSet(Used(table))
          BY <4>3, TableParts
        <5>2. B \subseteq Used(table)
          BY DEF Behind
        <5>3. QED
          BY <5>1, <5>2, FS_Subset
      <4> HIDE DEF B, c
      <4>5. Cardinality(B \cup {l}) = iter.count + 1
        BY <4>1, <4>2, <4>4, FS_AddElement
      <4>6. KeysAt(table, B \cup {l}) = visited \cup {table.entries[l].key}
        BY <4>2 DEF KeysAt
      <4>7. l + 1 <= c
        BY <3>4, <4>1, <4>3
      <4>8. QED
        BY <3>1, <3>5, <4>1, <4>5, <4>6, <4>7
    <3>8. Panics'
      BY <1>1, <3>1 DEF Panics
    <3>9. QED
      BY <1>1, <1>2, <3>6, <3>7, <3>8 DEF Inv
  <2>4. QED
    BY <2>2, <2>3
<1>7. QED
  BY <1>4, <1>5, <1>6 DEF next

\* A change keeps the invariant.
LEMMA ChangeKeeps ==
  ASSUME Inv, Changed, panic' = panic, GoodTable(Hash, table')
  PROVE  Inv'
<1>1. Counted' /\ Panics' /\ Iterates'
  BY ChangedKeeps DEF Inv
<1>2. Hash' = Hash
  BY DEF Changed
<1>3. QED
  BY <1>1, <1>2 DEF Inv

\* HashFunction gives a number for every key.
LEMMA HashIs == Inv => Hash \in [Keys -> Nat]
  BY HashMapAssumption DEF Inv

\* Every operation of the table and of the iterator keeps the invariant.
LEMMA InvNext == Inv /\ [Next]_vars => Inv'
<1> SUFFICES ASSUME Inv, [Next]_vars PROVE Inv'
  OBVIOUS
<1>0. Hash \in [Keys -> Nat] /\ GoodTable(Hash, table)
  BY HashIs DEF Inv
<1>1. ASSUME NEW k \in Keys, remove(k) PROVE Inv'
  BY <1>0, <1>1, RemoveTable, ChangeKeeps
<1>2. ASSUME NEW k \in Keys, NEW v \in Values, put(k, v) PROVE Inv'
  BY <1>0, <1>2, PutTable, ChangeKeeps
<1>3. ASSUME NEW k \in Keys, NEW v \in Values, put_unique(k, v) PROVE Inv'
  BY <1>2, <1>3 DEF put_unique
<1>4. CASE clear
  <2>1. Changed /\ panic' = panic /\ table' = init_capacity(Capacity(table))
    BY <1>4 DEF clear
  <2>2. Capacity(table) \in Nat \ {0}
    BY <1>0 DEF GoodTable
  <2>3. GoodTable(Hash, table')
    BY <2>1, <2>2, EmptyIsGood
  <2>4. QED
    BY <2>1, <2>3, ChangeKeeps
<1>5. CASE entry_iterator
  BY <1>5, IteratorKeeps
<1>6. CASE next
  BY <1>6, NextKeeps
<1>7. CASE UNCHANGED vars
  BY <1>7 DEF vars, Inv, Counted, Iterates, Panics
<1>8. QED
  BY <1>1, <1>2, <1>3, <1>4, <1>5, <1>6, <1>7 DEF Next

\* The inductive invariant: after any sequence of calls the table is a Robin
\* Hood table under 60%, its size is the number of its entries, and an iterator
\* over a table that has not changed has returned what is behind it.
THEOREM InvHolds == Spec => []Inv
  BY InvInit, InvNext, PTL DEF Spec

\* The invariant gives the types.
LEMMA InvTypeOK == Inv => TypeOK
<1> SUFFICES ASSUME Inv PROVE TypeOK
  OBVIOUS
<1> DEFINE c == Capacity(table)
<1>1. /\ c \in Nat \ {0} /\ table \in Tables(c) /\ table.size \in Nat /\ table.size < c
  BY GoodHasUnused DEF Inv, GoodTable
<1>2. /\ DOMAIN table.entries = 0..(c - 1) /\ table.max_distance \in 0..(c - 1)
      /\ \A i \in Used(table) : table.entries[i] \in Entries
  BY <1>1, TableParts
<1>3. table.size \in 0..c /\ table.max_distance \in Nat
  BY <1>1, <1>2
<1>4. modification_count \in 0..(CountRange - 1) /\ since \in 0..CountRange
  BY DEF Inv, Counted
<1>5. iter = Unused \/ iter.index \in 0..c \/ since > 0
  <2> SUFFICES ASSUME iter # Unused, ~(since > 0) PROVE iter.index \in 0..c
    OBVIOUS
  <2>1. since = 0
    BY <1>4, HashMapAssumption
  <2>2. iter.index \in Nat /\ iter.index <= c
    BY <2>1 DEF Inv, Counted, Iterates
  <2>3. QED
    BY <1>1, <2>2
<1>6. Hash \in HashFunctions
  BY DEF Inv
<1>7. QED
  BY <1>2, <1>3, <1>4, <1>5, <1>6 DEF TypeOK

\* The invariant, which relates neighbours, gives what holds all along a search.
LEMMA InvWellPlaced == Inv => WellPlaced
<1> SUFFICES ASSUME Inv PROVE WellPlaced
  OBVIOUS
<1> DEFINE c == Capacity(table)
<1>0. Hash \in [Keys -> Nat]
  BY HashIs
<1>1. c \in Nat \ {0} /\ RobinHood(Hash, c, table)
  BY DEF Inv, GoodTable
<1> HIDE DEF c
<1>2. table \in Tables(c) /\ Placed(Hash, c, table) /\ Once(table)
  BY <1>1 DEF RobinHood
<1>3. DOMAIN table.entries = 0..(c - 1)
  BY <1>1, <1>2, TableParts
<1>4. ASSUME NEW i \in Used(table)
      PROVE  LET e == table.entries[i] IN
             /\ e.distance = (i - Hash[e.key]) % c
             /\ e.distance <= table.max_distance
             /\ \A q \in 0..(e.distance - 1) :
                  LET f == table.entries[Slot(table, e.key, q)] IN
                  f # Unused /\ f.distance >= q
  <2> DEFINE e == table.entries[i]
  <2>1. i \in 0..(c - 1) /\ e.key \in Keys /\ e.distance \in Nat
    BY <1>1, <1>2, TableParts
  <2>2. e.distance = Far(Hash, c, e.key, i) /\ e.distance <= table.max_distance
    BY <1>2 DEF Placed, PlacedAt
  <2>3. e.distance = (i - Hash[e.key]) % c
    BY <1>0, <1>1, <2>1, <2>2, FarIs
  <2>4. e.distance < c
    <3>1. Far(Hash, c, e.key, i) \in 0..(c - 1)
      BY <1>0, <1>1, <2>1, FarIn
    <3>2. QED
      BY <1>1, <2>2, <3>1
  <2>5. ASSUME NEW q \in 0..(e.distance - 1)
        PROVE  /\ table.entries[Slot(table, e.key, q)] # Unused
               /\ table.entries[Slot(table, e.key, q)].distance >= q
    <3>1. q \in 0..e.distance /\ q \in 0..c
      BY <1>1, <2>1, <2>4
    <3> DEFINE p == Place(Hash, c, e.key, q)
    <3>2. p \in Used(table) /\ table.entries[p].distance >= q
      BY <1>0, <1>1, <3>1, Chain
    <3>3. Slot(table, e.key, q) = p
      BY <1>0, <1>1, <1>3, <2>1, <3>1, SlotIs
    <3>4. table.entries[p] # Unused
      BY <3>2 DEF Used
    <3>5. QED
      BY <3>2, <3>3, <3>4
  <2>6. QED
    BY <2>2, <2>3, <2>5
<1>5. QED
  BY <1>2, <1>4, InvTypeOK DEF WellPlaced, Once, c

\* After any sequence of put(), put_unique(), remove() and clear(), with the
\* displacements, shifts and growths they make, every entry is within reach of
\* a search from its start and no key is stored twice (hash_map.hpp, lines
\* 90-118 and 175-219).
THEOREM PlacesCorrect == Spec => []WellPlaced
  BY InvHolds, InvWellPlaced, PTL

-----------------------------------------------------------------------------
\* The map a table holds.
ContentsOf(t) ==
  [k \in {t.entries[i].key : i \in Used(t)} |->
     t.entries[CHOOSE i \in Used(t) : t.entries[i].key = k].value]

\* Contents has the value of every key that is stored.
LEMMA ContentsIs ==
  ASSUME NEW t, Once(t), NEW k
  PROVE  /\ DOMAIN ContentsOf(t) = KeysAt(t, Used(t))
         /\ \A i \in Used(t) : t.entries[i].key = k =>
              k \in DOMAIN ContentsOf(t) /\ ContentsOf(t)[k] = t.entries[i].value
         /\ k \in DOMAIN ContentsOf(t) => \E i \in Used(t) : t.entries[i].key = k
         /\ k \in DOMAIN ContentsOf(t) => Has(t, k, ContentsOf(t)[k])
         /\ \A v : Has(t, k, v) => k \in DOMAIN ContentsOf(t) /\ ContentsOf(t)[k] = v
<1> DEFINE C == ContentsOf(t)
<1>1. DOMAIN C = KeysAt(t, Used(t))
  BY DEF ContentsOf, KeysAt
<1>2. ASSUME NEW i \in Used(t), t.entries[i].key = k
      PROVE  k \in DOMAIN C /\ C[k] = t.entries[i].value
  <2>1. k \in DOMAIN C
    BY <1>1, <1>2 DEF KeysAt
  <2>2. (CHOOSE j \in Used(t) : t.entries[j].key = k) = i
    BY <1>2 DEF Once
  <2>3. k \in {t.entries[j].key : j \in Used(t)}
    BY <1>2
  <2>4. C[k] = t.entries[CHOOSE j \in Used(t) : t.entries[j].key = k].value
    BY <2>3 DEF ContentsOf
  <2>5. QED
    BY <2>1, <2>2, <2>4
<1>3. k \in DOMAIN C => \E i \in Used(t) : t.entries[i].key = k
  BY <1>1 DEF KeysAt
<1> HIDE DEF C
<1>4. k \in DOMAIN C => Has(t, k, C[k])
  BY <1>2, <1>3 DEF Has
<1>5. ASSUME NEW v, Has(t, k, v) PROVE k \in DOMAIN C /\ C[k] = v
  BY <1>2, <1>5 DEF Has
<1>6. QED
  BY <1>1, <1>2, <1>3, <1>4, <1>5 DEF C

\* The invariant makes the search of internal_get() exact.
LEMMA InvLookupsAgree == Inv => LookupsAgree
<1> SUFFICES ASSUME Inv, NEW k \in Keys
             PROVE  /\ Found(table, k) <=> k \in DOMAIN Contents
                    /\ Found(table, k) => internal_get(table, k) = Contents[k]
  BY DEF LookupsAgree
<1> DEFINE c == Capacity(table)
<1>0. Hash \in [Keys -> Nat]
  BY HashIs
<1>1. c \in Nat \ {0} /\ RobinHood(Hash, c, table)
  BY DEF Inv, GoodTable
<1> HIDE DEF c
<1>2. Once(table)
  BY <1>1 DEF RobinHood
<1>3. Contents = ContentsOf(table)
  BY DEF Contents, ContentsOf
<1>4. ASSUME Found(table, k)
      PROVE  k \in DOMAIN Contents /\ internal_get(table, k) = Contents[k]
  <2>1. PICK i \in Used(table) : table.entries[i].key = k
    BY <1>0, <1>1, <1>4, LookupIsThere
  <2>2. k \in DOMAIN Contents /\ Contents[k] = table.entries[i].value
    BY <1>2, <1>3, <2>1, ContentsIs
  <2>3. Slot(table, k, Least(Rounds(table, k))) = i
    BY <1>0, <1>1, <2>1, LookupFinds
  <2>4. QED
    BY <2>2, <2>3 DEF internal_get
<1>5. ASSUME k \in DOMAIN Contents PROVE Found(table, k)
  <2>1. PICK i \in Used(table) : table.entries[i].key = k
    BY <1>2, <1>3, <1>5, ContentsIs
  <2>2. QED
    BY <1>0, <1>1, <2>1, LookupFinds
<1>6. QED
  BY <1>4, <1>5

\* internal_get() finds every key that is stored, with its value, and no other,
\* although it stops at the first unused entry or after
\* _max_distance_from_start_index rounds (hash_map.hpp, lines 222-235).
THEOREM LookupsCorrect == Spec => []LookupsAgree
  BY InvHolds, InvLookupsAgree, PTL

\* _size counts the used entries and stays under 60% of the capacity, and the
\* zig_panic() calls of put(), remove() and next() that guard the table against
\* itself (hash_map.hpp, lines 115, 135 and 218) are not reached unless
\* _modification_count has gone round.
THEOREM Consistent == Spec => []NeverInconsistent
<1>1. Inv => NeverInconsistent
  <2> SUFFICES ASSUME Inv PROVE NeverInconsistent
    OBVIOUS
  <2>1. table.size = Cardinality(Used(table)) /\ ~TooFull(table)
    BY GoodHasUnused DEF Inv, GoodTable
  <2>2. ASSUME since < CountRange PROVE panic \in {"no", "concurrent modification"}
    <3>1. since # CountRange
      BY <2>2, HashMapAssumption
    <3>2. QED
      BY <3>1 DEF Inv, Panics
  <2>3. QED
    BY <2>1, <2>2 DEF NeverInconsistent
<1>2. QED
  BY <1>1, InvHolds, PTL

\* An iterator over a table that was not changed returns no entry twice, and
\* NULL only once it has returned every entry (hash_map.hpp, lines 120-154).
THEOREM IterationsCorrect == Spec => []IterationComplete
<1>1. Inv => IterationComplete
  <2> SUFFICES ASSUME Inv, iter # Unused, since = 0
               PROVE  /\ Cardinality(visited) = iter.count
                      /\ iter.count >= table.size => visited = DOMAIN Contents
    BY DEF IterationComplete
  <2> DEFINE B == Behind(table, iter.index)
             U == Used(table)
  <2>1. iter.count = Cardinality(B) /\ visited = KeysAt(table, B)
    BY DEF Inv, Iterates
  <2>2. /\ Capacity(table) \in Nat \ {0} /\ table \in Tables(Capacity(table)) /\ Once(table)
        /\ table.size = Cardinality(U)
    BY GoodHasUnused DEF Inv, GoodTable, RobinHood
  <2>3. IsFiniteSet(U) /\ B \subseteq U
    BY <2>2, TableParts DEF Behind
  <2>4. IsFiniteSet(B) /\ Cardinality(B) <= Cardinality(U) /\ (Cardinality(U) = Cardinality(B) => U = B)
    BY <2>3, FS_Subset
  <2> HIDE DEF B, U
  <2>5. Cardinality(visited) = Cardinality(B)
    <3> DEFINE f == [i \in B |-> table.entries[i].key]
    <3>1. f \in [B -> visited] /\ \A i \in B : f[i] = table.entries[i].key
      BY <2>1 DEF KeysAt
    <3>2. \A k \in visited : \E i \in B : f[i] = k
      BY <2>1 DEF KeysAt
    <3>3. \A i, j \in B : f[i] = f[j] => i = j
      BY <2>2, <2>3 DEF Once, U
    <3> HIDE DEF f
    <3>4. f \in Bijection(B, visited)
      BY <3>1, <3>2, <3>3 DEF Bijection, Injection, Surjection, IsInjective
    <3>5. QED
      BY <2>4, <3>4, FS_Bijection DEF ExistsBijection
  <2>6. ASSUME iter.count >= table.size PROVE visited = DOMAIN Contents
    <3>1. Cardinality(U) \in Nat /\ Cardinality(B) \in Nat
      BY <2>3, <2>4, FS_CardinalityType
    <3>2. U = B
      BY <2>1, <2>2, <2>4, <2>6, <3>1
    <3>3. Contents = ContentsOf(table)
      BY DEF Contents, ContentsOf
    <3>4. DOMAIN Contents = KeysAt(table, U)
      BY <2>2, <3>3, ContentsIs DEF U
    <3>5. QED
      BY <2>1, <3>2, <3>4
  <2>7. QED
    BY <2>1, <2>5, <2>6
<1>2. QED
  BY <1>1, InvHolds, PTL

\* next() returns no entry of a table that was changed since the iterator was
\* made, unless _modification_count has gone round (hash_map.hpp, line 130).
THEOREM IteratorNotices == Spec => ChangesNoticed
<1>1. Inv /\ [Next]_vars =>
        [iter # Unused /\ iter' # Unused /\ iter'.count > iter.count => since \in {0, CountRange}]_vars
  <2> SUFFICES ASSUME Inv, Next, iter # Unused, iter' # Unused, iter'.count > iter.count
               PROVE  since \in {0, CountRange}
    OBVIOUS
  <2>1. iter.count \in Nat
    BY DEF Inv, Counted
  <2>2. iter' # iter
    BY <2>1
  <2>3. ~Changed
    BY <2>2 DEF Changed
  <2>4. CASE entry_iterator
    <3>1. iter'.count = 0
      BY <2>4 DEF entry_iterator
    <3>2. QED
      BY <2>1, <3>1
  <2>5. CASE next
    <3>1. iter.initial = modification_count
      BY <2>2, <2>5 DEF next
    <3>2. QED
      BY <3>1, SameCount DEF Inv
  <2>6. QED
    BY <2>3, <2>4, <2>5 DEF Next, remove, put, put_unique, clear
<1>2. QED
  BY <1>1, InvHolds, PTL DEF Spec, ChangesNoticed

-----------------------------------------------------------------------------
\* Every call changes the map as the abstract one is changed, or not at all.
LEMMA StepRefines ==
  ASSUME Inv, Inv', [Next]_vars
  PROVE  [ImplementsMap!Next]_Contents
<1>0. Hash \in [Keys -> Nat] /\ GoodTable(Hash, table)
  BY HashIs DEF Inv
<1>1. Contents = ContentsOf(table) /\ Contents' = ContentsOf(table')
  BY DEF Contents, ContentsOf
<1>2. Once(table) /\ Once(table')
  BY DEF Inv, GoodTable, RobinHood
<1> DEFINE C == ContentsOf(table)
           D == ContentsOf(table')
<1>3. \A k : k \in DOMAIN C => Has(table, k, C[k])
  BY <1>2, ContentsIs
<1>4. \A k, v : Has(table, k, v) => k \in DOMAIN C /\ C[k] = v
  BY <1>2, ContentsIs
<1>5. \A k : k \in DOMAIN D => Has(table', k, D[k])
  BY <1>2, ContentsIs
<1>6. \A k, v : Has(table', k, v) => k \in DOMAIN D /\ D[k] = v
  BY <1>2, ContentsIs
<1>7. D = [k \in DOMAIN D |-> D[k]]
  BY DEF ContentsOf
<1> HIDE DEF C, D
<1>8. ASSUME NEW key \in Keys, NEW value \in Values, put(key, value)
      PROVE  ImplementsMap!Put(key, value)
  <2>1. \A k, v : Has(table', k, v) <=> Wanted(table, key, value, k, v)
    BY <1>0, <1>8, PutTable
  <2>2. ASSUME NEW k PROVE k \in DOMAIN D <=> k \in DOMAIN C \cup {key}
    <3>1. ASSUME k \in DOMAIN D PROVE k \in DOMAIN C \cup {key}
      <4>1. Wanted(table, key, value, k, D[k])
        BY <1>5, <2>1, <3>1
      <4>2. QED
        BY <1>4, <4>1 DEF Wanted
    <3>2. ASSUME k = key PROVE k \in DOMAIN D
      <4>1. Has(table', k, value)
        BY <2>1, <3>2 DEF Wanted
      <4>2. QED
        BY <1>6, <4>1
    <3>3. ASSUME k \in DOMAIN C, k # key PROVE k \in DOMAIN D
      <4>1. Has(table', k, C[k])
        BY <1>3, <2>1, <3>3 DEF Wanted
      <4>2. QED
        BY <1>6, <4>1
    <3>4. QED
      BY <3>1, <3>2, <3>3
  <2>3. ASSUME NEW k \in DOMAIN D PROVE D[k] = IF k = key THEN value ELSE C[k]
    <3>1. Wanted(table, key, value, k, D[k])
      BY <1>5, <2>1
    <3>2. QED
      BY <1>4, <3>1 DEF Wanted
  <2>4. DOMAIN D = DOMAIN C \cup {key}
    BY <2>2
  <2>5. D = [k \in DOMAIN C \cup {key} |-> IF k = key THEN value ELSE C[k]]
    BY <1>7, <2>3, <2>4
  <2>6. QED
    BY <1>1, <2>5 DEF ImplementsMap!Put, C, D
<1>9. ASSUME NEW key \in Keys, remove(key) PROVE ImplementsMap!Remove(key)
  <2>1. Found(table, key) /\ \A k, v : Has(table', k, v) <=> Has(table, k, v) /\ k # key
    BY <1>0, <1>9, RemoveTable
  <2>2. key \in DOMAIN C
    BY <1>1, <2>1, InvLookupsAgree DEF LookupsAgree, C
  <2>3. DOMAIN D = DOMAIN C \ {key}
    BY <1>3, <1>4, <1>5, <1>6, <2>1
  <2>4. ASSUME NEW k \in DOMAIN D PROVE D[k] = C[k]
    BY <1>4, <1>5, <2>1
  <2>5. D = [k \in DOMAIN C \ {key} |-> C[k]]
    BY <1>7, <2>3, <2>4
  <2>6. QED
    BY <1>1, <2>2, <2>5 DEF ImplementsMap!Remove, C, D
<1>10. CASE clear
  <2>1. Capacity(table) \in Nat \ {0} /\ table' = init_capacity(Capacity(table))
    BY <1>0, <1>10 DEF clear, GoodTable
  <2>2. \A k, v : ~Has(table', k, v)
    BY <2>1, EmptyTable
  <2>3. DOMAIN D = {}
    BY <1>5, <2>2
  <2>4. D = [k \in {} |-> CHOOSE v \in Values : TRUE]
    BY <1>7, <2>3
  <2>5. QED
    BY <1>1, <2>4 DEF ImplementsMap!Next, ImplementsMap!Clear, D
<1>11. CASE table' = table
  BY <1>1, <1>11
<1>12. QED
  BY <1>8, <1>9, <1>10, <1>11 DEF Next, put_unique, entry_iterator, next, vars, ImplementsMap!Next

\* The hash table is a map: put() and put_unique() set one key, remove() takes
\* one away, clear() all, and neither a growth nor the iterator changes it.
THEOREM MapRefinement == Spec => MapSpec
<1>1. Init => ImplementsMap!Init
  <2> SUFFICES ASSUME Init PROVE Contents = [k \in {} |-> CHOOSE v \in Values : TRUE]
    BY DEF ImplementsMap!Init
  <2>1. Used(table) = {}
    BY HashMapAssumption, EmptyTable DEF Init
  <2>2. QED
    BY <2>1 DEF Contents
<1>2. QED
  BY <1>1, InvHolds, StepRefines, PTL DEF Spec, MapSpec, ImplementsMap!Spec
=============================================================================
