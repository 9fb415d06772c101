-------------------------- MODULE CacheHashProofs --------------------------
EXTENDS CacheHash, TLAPS, SequenceTheorems, WellFoundedInduction

\* A set of natural numbers that is not empty has a least element.
LEMMA LeastNat ==
  ASSUME NEW T \in SUBSET Nat, T # {}
  PROVE  \E x \in T : \A y \in T : x <= y
<1> DEFINE R == {p \in Nat \X Nat : p[1] < p[2]}
<1>1. IsWellFoundedOn(OpToRel(<, Nat), Nat)
  BY NatLessThanWellFounded
<1>2. OpToRel(<, Nat) = R
  BY DEF OpToRel
<1>3. IsWellFoundedOn(R, Nat)
  BY <1>1, <1>2
<1> HIDE DEF R
<1>4. PICK x \in T : \A y \in T : ~(<<y, x>> \in R)
  BY <1>3, WFMin
<1>5. ASSUME NEW y \in T PROVE x <= y
  <2>1. <<y, x>> \in Nat \X Nat /\ <<y, x>>[1] = y /\ <<y, x>>[2] = x
    OBVIOUS
  <2>2. ~(<<y, x>>[1] < <<y, x>>[2])
    BY <1>4, <2>1 DEF R
  <2>3. QED
    BY <2>1, <2>2
<1>6. QED
  BY <1>5

\* Induction, stated with sets.
LEMMA Induct ==
  ASSUME NEW S \in SUBSET Nat, 0 \in S, \A n \in S : n + 1 \in S
  PROVE  S = Nat
<1> SUFFICES ASSUME Nat \ S # {} PROVE FALSE
  OBVIOUS
<1>1. PICK x \in Nat \ S : \A y \in Nat \ S : x <= y
  BY LeastNat
<1>2. x # 0 /\ x - 1 \in Nat /\ x - 1 \notin Nat \ S
  BY <1>1
<1>3. QED
  BY <1>2

-----------------------------------------------------------------------------

(***************************************************************************)
(* Powers of two.                                                          *)
(***************************************************************************)

\* The recursive definition of Pow2 defines a function.
LEMMA Pow2Defined ==
  Pow2 = [k \in Nat |-> IF k = 0 THEN 1 ELSE 2 * Pow2[k - 1]]
<1> DEFINE Good(n) == {f \in [0..n -> Nat] :
                         f[0] = 1 /\ \A k \in 0..(n - 1) : f[k + 1] = 2 * f[k]}
           S1 == {n \in Nat : \E f : f \in Good(n)}
           S2 == {k \in Nat : \A m, n \in Nat : \A f \in Good(m), g \in Good(n) :
                                k <= m /\ k <= n => f[k] = g[k]}
           F(n) == CHOOSE f : f \in Good(n)
           h == [n \in Nat |-> F(n)[n]]
<1>1. 0 \in S1
  <2>1. [k \in 0..0 |-> 1] \in Good(0)
    OBVIOUS
  <2>2. QED
    BY <2>1
<1>2. ASSUME NEW n \in S1 PROVE n + 1 \in S1
  <2>1. PICK f : f \in Good(n)
    OBVIOUS
  <2> DEFINE g == [k \in 0..(n + 1) |-> IF k <= n THEN f[k] ELSE 2 * f[n]]
  <2>2. g \in [0..(n + 1) -> Nat] /\ g[0] = 1
    BY <2>1
  <2>3. ASSUME NEW k \in 0..n PROVE g[k + 1] = 2 * g[k]
    <3>1. CASE k = n
      BY <3>1
    <3>2. CASE k # n
      BY <3>2, <2>1
    <3>3. QED
      BY <3>1, <3>2
  <2>4. (n + 1) - 1 = n /\ n + 1 \in Nat
    OBVIOUS
  <2>5. g \in Good(n + 1)
    <3> HIDE DEF g
    <3>1. QED
      BY <2>2, <2>3, <2>4
  <2>6. QED
    <3> HIDE DEF g, Good
    <3>1. QED
      BY <2>4, <2>5
<1>3. S1 = Nat
  <2>1. S1 \in SUBSET Nat
    OBVIOUS
  <2> HIDE DEF S1
  <2>2. QED
    BY <1>1, <1>2, <2>1, Induct
<1>4. 0 \in S2
  OBVIOUS
<1>5. ASSUME NEW k \in S2 PROVE k + 1 \in S2
  <2> HIDE DEF Good
  <2>1. k \in Nat
    OBVIOUS
  <2> SUFFICES ASSUME NEW m \in Nat, NEW n \in Nat, NEW f \in Good(m), NEW g \in Good(n),
                      k + 1 <= m, k + 1 <= n
               PROVE  f[k + 1] = g[k + 1]
    BY <2>1
  <2>2. f[k] = g[k]
    BY <2>1
  <2> HIDE DEF S2
  <2>3. k \in 0..(m - 1) /\ k \in 0..(n - 1)
    BY <2>1
  <2>4. QED
    BY <2>2, <2>3 DEF Good
<1>6. S2 = Nat
  <2>1. S2 \in SUBSET Nat
    OBVIOUS
  <2> HIDE DEF S2
  <2>2. QED
    BY <1>4, <1>5, <2>1, Induct
<1>7. ASSUME NEW n \in Nat PROVE F(n) \in Good(n)
  BY <1>3
<1>8. h[0] = 1
  BY <1>7
<1>9. ASSUME NEW n \in Nat, n # 0 PROVE h[n] = 2 * h[n - 1]
  <2> HIDE DEF F
  <2>1. F(n) \in Good(n) /\ F(n - 1) \in Good(n - 1) /\ n - 1 \in Nat
    <3> HIDE DEF Good
    <3>1. n - 1 \in Nat
      BY <1>9
    <3>2. QED
      BY <3>1, <1>7
  <2>2. n - 1 \in 0..(n - 1) /\ (n - 1) + 1 = n
    BY <1>9
  <2>3. F(n)[n] = 2 * F(n)[n - 1]
    <3>1. \A f \in Good(n) : f[(n - 1) + 1] = 2 * f[n - 1]
      BY <2>2
    <3> HIDE DEF Good
    <3>2. QED
      BY <2>1, <2>2, <3>1
  <2>4. F(n)[n - 1] = F(n - 1)[n - 1]
    <3>1. n - 1 \in S2
      BY <1>6, <2>1
    <3> HIDE DEF Good
    <3>2. QED
      BY <3>1, <2>1
  <2>5. QED
    BY <2>1, <2>3, <2>4
<1>10. h = [k \in Nat |-> IF k = 0 THEN 1 ELSE 2 * h[k - 1]]
  <2> HIDE DEF F
  <2>1. \A n \in Nat : h[n] = IF n = 0 THEN 1 ELSE 2 * h[n - 1]
    BY <1>8, <1>9
  <2>2. h = [n \in Nat |-> h[n]]
    OBVIOUS
  <2> HIDE DEF h
  <2>3. QED
    BY <2>1, <2>2
<1>11. QED
  <2> HIDE DEF h
  <2>1. \E f : f = [k \in Nat |-> IF k = 0 THEN 1 ELSE 2 * f[k - 1]]
    BY <1>10
  <2>2. QED
    BY <2>1 DEF Pow2

LEMMA Pow2Step ==
  /\ Pow2[0] = 1
  /\ \A k \in Nat : Pow2[k] \in Nat \ {0} /\ Pow2[k + 1] = 2 * Pow2[k] /\ Pow2[k] > k
<1>1. Pow2[0] = 1
  BY Pow2Defined
<1>2. \A k \in Nat : Pow2[k + 1] = 2 * Pow2[k]
  <2> SUFFICES ASSUME NEW k \in Nat PROVE Pow2[k + 1] = 2 * Pow2[k]
    OBVIOUS
  <2>1. k + 1 \in Nat /\ k + 1 # 0 /\ (k + 1) - 1 = k
    OBVIOUS
  <2>2. \A j \in Nat : Pow2[j] = IF j = 0 THEN 1 ELSE 2 * Pow2[j - 1]
    BY Pow2Defined
  <2>3. QED
    BY <2>1, <2>2
<1> DEFINE S == {k \in Nat : Pow2[k] \in Nat \ {0} /\ Pow2[k] > k}
<1>3. S = Nat
  <2>1. S \in SUBSET Nat /\ 0 \in S
    BY <1>1
  <2>2. \A k \in S : k + 1 \in S
    BY <1>2
  <2> HIDE DEF S
  <2>3. QED
    BY <2>1, <2>2, Induct
<1>4. QED
  BY <1>1, <1>2, <1>3

\* The greater of two powers of two is a multiple of the smaller.
LEMMA Pow2Divides ==
  ASSUME NEW j \in Nat, NEW k \in Nat, j <= k
  PROVE  \E m \in Nat \ {0} : Pow2[k] = m * Pow2[j]
<1> DEFINE S == {n \in Nat : \E m \in Nat \ {0} : Pow2[j + n] = m * Pow2[j]}
<1>1. 0 \in S
  <2>1. Pow2[j + 0] = 1 * Pow2[j]
    BY Pow2Step
  <2>2. QED
    BY <2>1
<1>2. ASSUME NEW n \in S PROVE n + 1 \in S
  <2>1. PICK m \in Nat \ {0} : Pow2[j + n] = m * Pow2[j]
    OBVIOUS
  <2>2. Pow2[j + (n + 1)] = 2 * Pow2[j + n]
    <3>1. j + n \in Nat /\ j + (n + 1) = (j + n) + 1
      OBVIOUS
    <3>2. QED
      BY <3>1, Pow2Step
  <2>3. Pow2[j] \in Nat
    BY Pow2Step
  <2>4. Pow2[j + (n + 1)] = (2 * m) * Pow2[j]
    BY <2>1, <2>2, <2>3
  <2>5. 2 * m \in Nat \ {0}
    OBVIOUS
  <2>6. QED
    BY <2>4, <2>5
<1>3. S = Nat
  <2>1. S \in SUBSET Nat
    OBVIOUS
  <2> HIDE DEF S
  <2>2. QED
    BY <1>1, <1>2, <2>1, Induct
<1>4. k - j \in S /\ j + (k - j) = k
  <2>1. k - j \in Nat
    OBVIOUS
  <2> HIDE DEF S
  <2>2. QED
    BY <1>3, <2>1
<1>5. QED
  BY <1>4

LEMMA Division ==
  ASSUME NEW a \in Nat, NEW b \in Nat \ {0}
  PROVE  \E q \in Nat, r \in 0..(b - 1) : a = q * b + r /\ a % b = r
<1> DEFINE u == a \div b
           v == a % b
<1>1. u \in Nat
  OBVIOUS
<1>2. v \in 0..(b - 1)
  OBVIOUS
<1>3. a = b * u + v
  OBVIOUS
<1> SUFFICES \E q \in Nat, r \in 0..(b - 1) : a = q * b + r /\ v = r
  OBVIOUS
<1> HIDE DEF u, v
<1>4. a = u * b + v
  BY <1>1, <1>2, <1>3
<1>5. QED
  BY <1>1, <1>2, <1>4

\* Division leaves one remainder.
LEMMA OneRemainder ==
  ASSUME NEW a \in Nat, NEW b \in Nat \ {0}, NEW q \in Nat, NEW r \in 0..(b - 1), a = q * b + r
  PROVE  a % b = r
<1>1. PICK u \in Nat, v \in 0..(b - 1) : a = u * b + v /\ a % b = v
  BY Division
<1> SUFFICES v = r
  BY <1>1
<1>2. CASE q = u
  BY <1>1, <1>2
<1>3. CASE q >= u + 1
  <2>1. q * b >= (u + 1) * b
    BY <1>1, <1>3
  <2>2. (u + 1) * b = u * b + b
    BY <1>1
  <2>3. QED
    BY <1>1, <2>1, <2>2
<1>4. CASE u >= q + 1
  <2>1. u * b >= (q + 1) * b
    BY <1>1, <1>4
  <2>2. (q + 1) * b = q * b + b
    BY <1>1
  <2>3. QED
    BY <1>1, <2>1, <2>2
<1>5. QED
  BY <1>1, <1>2, <1>3, <1>4

\* A number divides a multiple of its multiple.
LEMMA DividesMultiple ==
  ASSUME NEW t \in Nat, NEW a \in Nat \ {0}, NEW b \in Nat \ {0}, NEW m \in Nat,
         b = m * a, t % b = 0
  PROVE  t % a = 0
<1>1. PICK q \in Nat : t = q * b
  <2>1. PICK q \in Nat, r \in 0..(b - 1) : t = q * b + r /\ t % b = r
    BY Division
  <2>2. QED
    BY <2>1
<1>2. t = (q * m) * a + 0 /\ q * m \in Nat /\ 0 \in 0..(a - 1)
  BY <1>1
<1>3. QED
  BY <1>2, OneRemainder

\* 1 << ctzll(t) is the greatest power of two that divides t.
LEMMA LowBitDivides ==
  ASSUME NEW t \in Nat \ {0}
  PROVE  \E k \in Nat : /\ LowBit(t) = Pow2[k]
                        /\ t % Pow2[k] = 0 /\ t % (2 * Pow2[k]) # 0
<1> DEFINE T == {k \in Nat : t % Pow2[k + 1] # 0}
<1>1. t \in T
  <2>1. Pow2[t + 1] \in Nat \ {0} /\ Pow2[t + 1] > t
    BY Pow2Step
  <2>2. t = 0 * Pow2[t + 1] + t /\ t \in 0..(Pow2[t + 1] - 1)
    BY <2>1
  <2>3. t % Pow2[t + 1] = t
    BY <2>1, <2>2, OneRemainder
  <2>4. QED
    BY <2>3
<1>2. PICK k \in T : \A j \in T : k <= j
  <2>1. T \in SUBSET Nat /\ T # {}
    BY <1>1
  <2> HIDE DEF T
  <2>2. QED
    BY <2>1, LeastNat
<1>3. k \in 0..t
  BY <1>1, <1>2
<1>4. t % Pow2[k] = 0
  <2>1. CASE k = 0
    BY <2>1, Pow2Step
  <2>2. CASE k # 0
    <3>1. k - 1 \in Nat /\ (k - 1) + 1 = k
      BY <2>2, <1>3
    <3>2. k - 1 \notin T
      BY <1>2, <3>1
    <3>3. QED
      BY <3>1, <3>2
  <2>3. QED
    BY <2>1, <2>2
<1>5. t % (2 * Pow2[k]) # 0
  BY <1>2, Pow2Step
<1>6. \E b \in {Pow2[j] : j \in 0..t} : t % b = 0 /\ t % (2 * b) # 0
  BY <1>3, <1>4, <1>5
<1>7. /\ LowBit(t) \in {Pow2[j] : j \in 0..t}
      /\ t % LowBit(t) = 0 /\ t % (2 * LowBit(t)) # 0
  BY <1>6 DEF LowBit
<1>8. PICK j \in 0..t : LowBit(t) = Pow2[j]
  BY <1>7
<1>9. QED
  BY <1>7, <1>8

LEMMA StampType ==
  ASSUME now \in Nat
  PROVE  Stamp \in Nat /\ Stamp <= now
<1>1. Granule \in Nat \ {0}
  BY CacheAssumption
<1>2. PICK q \in Nat, r \in 0..(Granule - 1) : now = q * Granule + r /\ now % Granule = r
  BY <1>1, Division
<1>3. Stamp = q * Granule
  BY <1>1, <1>2 DEF Stamp
<1>4. QED
  BY <1>1, <1>2, <1>3

\* A time stamp that a write could still get is problematic: this is what
\* makes it safe to trust the ones that are not.
LEMMA StampIsProblematic ==
  ASSUME PowerOfTwo, now \in Nat
  PROVE  is_problematic_timestamp(Stamp)
<1>1. PICK g \in Nat : Granule = Pow2[g]
  BY CacheAssumption DEF PowerOfTwo
<1>2. Granule \in Nat \ {0}
  BY CacheAssumption
<1>3. PICK q \in Nat, r \in 0..(Granule - 1) : now = q * Granule + r /\ now % Granule = r
  BY <1>2, Division
<1>4. Stamp = q * Granule
  BY <1>2, <1>3 DEF Stamp
<1>5. Stamp \in Nat /\ Stamp <= now /\ now = Stamp + r
  BY <1>2, <1>3, <1>4
<1>6. Stamp % Granule = 0
  <2>1. Stamp = q * Granule + 0 /\ 0 \in 0..(Granule - 1)
    BY <1>2, <1>4, <1>5
  <2>2. QED
    BY <1>2, <1>5, <2>1, OneRemainder
<1>7. ASSUME Stamp # 0 PROVE now - (now % LowBit(Stamp)) = Stamp
  <2>1. PICK k \in Nat : /\ LowBit(Stamp) = Pow2[k]
                         /\ Stamp % Pow2[k] = 0 /\ Stamp % (2 * Pow2[k]) # 0
    BY <1>5, <1>7, LowBitDivides
  <2> DEFINE b == Pow2[k]
  <2>2. b \in Nat \ {0} /\ 2 * b = Pow2[k + 1]
    BY Pow2Step
  <2>3. g <= k
    <3> SUFFICES ASSUME k + 1 <= g PROVE FALSE
      BY <1>1
    <3>1. PICK m \in Nat \ {0} : Granule = m * Pow2[k + 1]
      BY <1>1, Pow2Divides
    <3>2. 2 * b \in Nat \ {0}
      BY <2>2
    <3>3. Stamp % (2 * b) = 0
      BY <1>2, <1>5, <1>6, <2>2, <3>1, <3>2, DividesMultiple
    <3>4. QED
      BY <2>1, <3>3
  <2>4. PICK m \in Nat \ {0} : b = m * Granule
    BY <1>1, <2>3, Pow2Divides
  <2> HIDE DEF b
  <2>5. Granule <= b
    BY <1>2, <2>2, <2>4
  <2>6. PICK u \in Nat : Stamp = u * b
    <3>1. PICK u \in Nat, v \in 0..(b - 1) : Stamp = u * b + v /\ Stamp % b = v
      BY <1>5, <2>2, Division
    <3>2. Stamp % b = 0
      BY <2>1 DEF b
    <3>3. v = 0 /\ u * b \in Nat
      BY <2>2, <3>1, <3>2
    <3>4. QED
      BY <3>1, <3>3
  <2>7. now = u * b + r /\ r \in 0..(b - 1)
    BY <1>2, <1>3, <1>5, <2>2, <2>5, <2>6
  <2>8. now % b = r
    BY <2>2, <2>7, OneRemainder
  <2>9. QED
    BY <1>5, <2>1, <2>8 DEF b
<1>8. QED
  BY <1>5, <1>6, <1>7 DEF is_problematic_timestamp

-----------------------------------------------------------------------------
(***************************************************************************)
(* Where a process is.  Shape(q) is what the record of a process looks     *)
(* like at each place, whatever a write that was cut short has left of the *)
(* manifest.                                                               *)
(***************************************************************************)
ProcType ==
  [pc : Places, lines : Seq(Entries \cup {Torn}), i : Nat \ {0}, files : Seq(Entries),
   hash : Seq(Contents), fd : Contents \cup {Null}, changed : BOOLEAN, dirty : BOOLEAN, todo : Seq(Files),
   built : Seq(Contents), disturbed : BOOLEAN]

Types ==
  /\ now \in 1..MaxTime
  /\ disk \in [Files -> [content : Contents, attr : Attrs]]
  /\ manifest \in Seq(Entries \cup {Torn})
  /\ lock \in Procs \cup {Nobody}
  /\ \A d \in DOMAIN artifacts : d \in Seq(Contents) /\ artifacts[d] \in Seq(Contents)
  /\ proc \in [Procs -> ProcType]
  /\ tainted \subseteq Seq(Contents)
  /\ edits \in 0..MaxEdits

Locked == \A p \in Procs : proc[p].pc # "idle" <=> lock = p

\* A line that was written is complete, and those of the inputs come first.
LinesWritten(s) ==
  \A k \in 1..Len(s) :
    s[k] # Torn => /\ s[k].path # Null /\ s[k].digest # Null
                   /\ k <= NumInputs => s[k].path = Inputs[k]

Checking == {"check", "rehash"}
Filling == {"fill", "fillhash"}
Building == {"build", "add", "addhash", "use", "write"}

Shape(q) ==
  /\ LinesWritten(q.lines)
  /\ q.pc # "idle" => /\ NumInputs <= Len(q.files)
                      /\ \A k \in 1..NumInputs : q.files[k].path = Inputs[k]
  /\ q.pc \in Checking \cup Filling => \A k \in 1..Len(q.files) :
       /\ k < q.i => q.files[k].path # Null /\ q.files[k].digest # Null
       /\ k >= q.i /\ q.pc # "rehash" => q.files[k].digest = Null
       /\ k > q.i => q.files[k].digest = Null
  /\ q.pc \in Checking \cup Filling => q.i - 1 <= Len(q.files)
  /\ q.pc \in Checking => q.i - 1 <= Len(q.lines)
  /\ q.pc = "check" => Len(q.files) \in {NumInputs, q.i - 1}
  /\ q.pc = "rehash" => /\ q.i <= Len(q.lines) /\ q.lines[q.i] # Torn
                        /\ q.i <= Len(q.files) /\ Len(q.files) \in {NumInputs, q.i}
                        /\ q.files[q.i].path = q.lines[q.i].path
                        /\ q.files[q.i].digest = q.lines[q.i].digest
  /\ q.pc \in Filling => \A k \in 1..Len(q.files) :
       k >= q.i /\ k > NumInputs => q.files[k].path = Null
  /\ q.pc = "fillhash" => q.i <= NumInputs
  /\ q.pc \in Building => \A k \in 1..Len(q.files) :
       q.files[k].digest = Null =>
         q.files[k].path = Null \/ (q.pc = "addhash" /\ k = Len(q.files))
  /\ q.pc = "addhash" => /\ q.todo # <<>> /\ Len(q.files) > NumInputs
                         /\ q.files[Len(q.files)].path = Head(q.todo)
                         /\ q.files[Len(q.files)].digest = Null
  /\ q.pc = "write" => \A k \in 1..Len(q.files) : q.files[k].path # Null

\* changed says whether a digest differs from that of its line.
Compared(q) ==
  q.pc \in Checking =>
    /\ \A k \in 1..(q.i - 1) : q.lines[k] # Torn
    /\ ~q.changed => \A k \in 1..(q.i - 1) : q.files[k].digest = q.lines[k].digest
    /\ q.changed => \E k \in 1..(q.i - 1) : q.files[k].digest # q.lines[k].digest

Shaped ==
  /\ LinesWritten(manifest)
  /\ \A p \in Procs : Shape(proc[p]) /\ Compared(proc[p])

(***************************************************************************)
(* Time stamps.  An entry whose time stamp is in the past can not become   *)
(* wrong: a later edit gives the file another one.                         *)
(***************************************************************************)
DiskSound ==
  \A f \in Files : disk[f].attr.mtime <= Stamp /\ disk[f].attr.inode >= 1

Older(e) ==
  e.path # Null =>
    /\ e.attr.inode <= disk[e.path].attr.inode
    /\ e.attr.inode = 0 \/ e.attr.mtime < Stamp

Sound(e) == Older(e) /\ Truthful(e)

FilesSound(q) ==
  \A k \in 1..Len(q.files) :
    /\ Older(q.files[k])
    /\ ~(q.pc = "rehash" /\ k = q.i) => Truthful(q.files[k])

LinesSound(s) == \A k \in 1..Len(s) : s[k] # Torn => Sound(s[k])

\* A descriptor whose file has lost its name shows a file that is gone: its
\* attributes are those of no file any more, and the build was noted as
\* disturbed, unless the file is one that a build would read anew.
Descriptor(q) ==
  q.pc \in Hashing /\ q.fd # Null =>
    LET e == q.files[Current(q)] IN
    /\ e.path \in Files /\ e.attr.inode < disk[e.path].attr.inode
    /\ q.disturbed \/ (q.pc = "rehash" /\ q.i > NumInputs)

Descriptors == \A p \in Procs : Descriptor(proc[p])

AllSound ==
  /\ DiskSound /\ LinesSound(manifest)
  /\ \A p \in Procs : LinesSound(proc[p].lines) /\ FilesSound(proc[p])

(***************************************************************************)
(* The hash and the artifacts, when a write that was cut short leaves no   *)
(* whole line.                                                             *)
(***************************************************************************)
Whole(s) ==
  \/ s = <<>> \/ s = <<Torn>>
  \/ NumInputs <= Len(s) /\ \A k \in 1..Len(s) : s[k] # Torn

Hashed(q, n) == Len(q.hash) = n /\ \A k \in 1..n : q.hash[k] = q.files[k].digest

HashShape(q) ==
  /\ q.pc \in Checking /\ ~q.changed => Hashed(q, q.i - 1)
  /\ q.pc \in Filling => Hashed(q, q.i - 1) /\ q.i <= NumInputs + 1
  /\ q.pc \in Filling \cup {"build"} => Len(q.files) = NumInputs
  /\ q.pc \in {"build", "add", "use", "write"} => Hashed(q, Len(q.files))
  /\ q.pc = "addhash" => Hashed(q, Len(q.files) - 1)

AllHashed ==
  /\ Whole(manifest)
  /\ \A p \in Procs :
       /\ HashShape(proc[p])
       /\ proc[p].pc \notin {"idle", "write"} => proc[p].lines = manifest
       /\ proc[p].pc = "write" => manifest = <<>>

\* An artifact was compiled from the contents its digest stands for.
RightObject(d, object) ==
  object = d /\ Len(d) = NumInputs + Len(Imports(SubSeq(d, 1, NumInputs)))

\* The number of files that have been added.
Added(q) == IF q.pc = "addhash" THEN Len(q.files) - 1 ELSE Len(q.files)

BuildRight(q) ==
  /\ q.pc \in Checking \cup Filling \cup {"build"} /\ ~q.disturbed =>
       \A k \in 1..NumInputs :
         q.pc = "build" \/ k < q.i => disk[Inputs[k]].content = q.files[k].digest
  /\ q.pc \in {"add", "addhash"} =>
       /\ Len(q.built) = Added(q) + Len(q.todo)
       /\ Len(q.built) = NumInputs + Len(Imports(SubSeq(q.built, 1, NumInputs)))
       /\ ~q.disturbed =>
            /\ \A k \in 1..Added(q) : q.built[k] = q.files[k].digest
            /\ \A j \in 1..Len(q.todo) :
                 disk[q.todo[j]].content = q.built[Added(q) + j]
  /\ q.pc \in {"use", "write"} => q.hash \in DOMAIN artifacts

AllRight ==
  /\ \A d \in DOMAIN artifacts : d \notin tainted => RightObject(d, artifacts[d])
  /\ manifest # <<>> /\ (\A k \in 1..Len(manifest) : manifest[k] # Torn) =>
       Digests(manifest) \in DOMAIN artifacts
  /\ \A p \in Procs : BuildRight(proc[p])

-----------------------------------------------------------------------------
(***************************************************************************)
(* The operators of the model.                                             *)
(***************************************************************************)
LEMMA FunctionIsSeq ==
  ASSUME NEW S, NEW n \in Nat, NEW f \in [1..n -> S]
  PROVE  f \in Seq(S) /\ Len(f) = n
<1>1. f \in Seq(S)
  BY SeqDef
<1>2. DOMAIN f = 1..n /\ DOMAIN f = 1..Len(f) /\ Len(f) \in Nat
  BY <1>1, LenProperties
<1>3. QED
  BY <1>1, <1>2

LEMMA PutProperties ==
  ASSUME NEW s \in Seq(Entries), NEW i \in 1..(Len(s) + 1), NEW e \in Entries
  PROVE  /\ Put(s, i, e) \in Seq(Entries)
         /\ Len(Put(s, i, e)) = IF i <= Len(s) THEN Len(s) ELSE i
         /\ Put(s, i, e)[i] = e
         /\ \A k \in 1..Len(s) : k # i => Put(s, i, e)[k] = s[k]
<1>1. Len(s) \in Nat
  OBVIOUS
<1>2. CASE i <= Len(s)
  BY <1>1, <1>2, ExceptSeq DEF Put
<1>3. CASE ~(i <= Len(s))
  <2>1. i = Len(s) + 1 /\ Put(s, i, e) = Append(s, e)
    BY <1>1, <1>3 DEF Put
  <2>2. QED
    BY <1>1, <1>3, <2>1, AppendProperties
<1>4. QED
  BY <1>2, <1>3

LEMMA DigestsProperties ==
  ASSUME NEW es \in Seq(Entries), \A k \in 1..Len(es) : es[k].digest # Null
  PROVE  /\ Digests(es) \in Seq(Contents)
         /\ Len(Digests(es)) = Len(es)
         /\ \A k \in 1..Len(es) : Digests(es)[k] = es[k].digest
<1>1. Len(es) \in Nat /\ \A k \in 1..Len(es) : es[k] \in Entries
  BY ElementOfSeq
<1>2. \A k \in 1..Len(es) : es[k].digest \in Contents
  BY <1>1 DEF Entries
<1>3. Digests(es) \in [1..Len(es) -> Contents]
  BY <1>2 DEF Digests
<1>4. QED
  BY <1>1, <1>3, FunctionIsSeq DEF Digests

LEMMA ConstantTypes ==
  /\ NumInputs \in Nat \ {0}
  /\ \A k \in 1..NumInputs : Inputs[k] \in Files /\ Inputs[k] # Null
  /\ ZeroAttr \in Attrs
  /\ \A f \in Files \cup {Null} : Unhashed(f) \in Entries
  /\ \A f \in Files : f # Null
  /\ \A c \in Contents : c # Null
<1>1. NumInputs \in Nat \ {0}
  BY CacheAssumption, EmptySeq DEF NumInputs
<1>2. \A k \in 1..NumInputs : Inputs[k] \in Files /\ Inputs[k] # Null
  BY CacheAssumption, ElementOfSeq DEF NumInputs
<1>3. ZeroAttr \in Attrs
  BY CacheAssumption DEF ZeroAttr, Attrs
<1>4. QED
  BY <1>1, <1>2, <1>3, CacheAssumption DEF Unhashed, Entries

LEMMA RecordedType ==
  ASSUME Types, NEW f \in Files
  PROVE  Recorded(f) \in Attrs
  BY ConstantTypes DEF Types, Recorded

LEMMA ContentType ==
  ASSUME Types, NEW fs \in Seq(Files)
  PROVE  /\ Content(fs) \in Seq(Contents) /\ Len(Content(fs)) = Len(fs)
         /\ \A k \in 1..Len(fs) : Content(fs)[k] = disk[fs[k]].content
<1>1. Len(fs) \in Nat /\ \A k \in 1..Len(fs) : fs[k] \in Files
  BY ElementOfSeq
<1>2. \A k \in 1..Len(fs) : disk[fs[k]].content \in Contents
  BY <1>1 DEF Types
<1>3. Content(fs) \in [1..Len(fs) -> Contents]
  BY <1>2 DEF Content
<1>4. QED
  BY <1>1, <1>3, FunctionIsSeq DEF Content

\* What the compiler reads.
LEMMA CompileType ==
  ASSUME Types
  PROVE  /\ Content(Inputs) \in [1..NumInputs -> Contents]
         /\ Imports(Content(Inputs)) \in Seq(Files)
         /\ Inputs \o Imports(Content(Inputs)) \in Seq(Files)
         /\ Content(Inputs \o Imports(Content(Inputs))) \in Seq(Contents)
<1>1. Inputs \in Seq(Files)
  BY CacheAssumption
<1>2. Content(Inputs) \in [1..NumInputs -> Contents]
  BY <1>1, ContentType, LenProperties DEF NumInputs
<1>3. Imports(Content(Inputs)) \in Seq(Files)
  BY <1>2, CacheAssumption DEF NumInputs
<1>4. Inputs \o Imports(Content(Inputs)) \in Seq(Files)
  BY <1>1, <1>3, ConcatProperties
<1>5. QED
  BY <1>2, <1>3, <1>4, ContentType

-----------------------------------------------------------------------------
(***************************************************************************)
(* Types and shape.                                                        *)
(***************************************************************************)
Base == Types /\ Locked /\ Shaped

\* The record of a process that has just opened the manifest.
Opened ==
  [cache_init EXCEPT !.pc = "check", !.lines = manifest,
     !.files = [k \in 1..NumInputs |-> Unhashed(Inputs[k])]]

LEMMA OpenedType ==
  ASSUME Types
  PROVE  /\ cache_init \in ProcType /\ Opened \in ProcType
         /\ Opened.pc = "check" /\ Opened.lines = manifest /\ Opened.i = 1
         /\ Opened.hash = <<>> /\ ~Opened.changed /\ ~Opened.disturbed
         /\ Len(Opened.files) = NumInputs
         /\ \A k \in 1..NumInputs : Opened.files[k] = Unhashed(Inputs[k])
<1>1. cache_init \in ProcType
  BY EmptySeq DEF cache_init, ProcType, Places
<1> DEFINE fs == [k \in 1..NumInputs |-> Unhashed(Inputs[k])]
<1>2. fs \in [1..NumInputs -> Entries]
  BY ConstantTypes
<1>3. fs \in Seq(Entries) /\ Len(fs) = NumInputs
  BY <1>2, ConstantTypes, FunctionIsSeq
<1>4. \A k \in 1..NumInputs : fs[k] = Unhashed(Inputs[k])
  OBVIOUS
<1> HIDE DEF fs
<1>5. Opened = [cache_init EXCEPT !.pc = "check", !.lines = manifest, !.files = fs]
  BY DEF Opened, fs
<1>6. manifest \in Seq(Entries \cup {Torn})
  BY DEF Types
<1>7. Opened \in ProcType
  BY <1>1, <1>3, <1>5, <1>6 DEF ProcType, Places
<1>8. QED
  BY <1>1, <1>3, <1>4, <1>5, <1>7 DEF cache_init

\* The types of the fields of a process's record.
LEMMA FieldTypes ==
  ASSUME Types, NEW p \in Procs
  PROVE  /\ proc[p] \in ProcType
         /\ proc[p].lines \in Seq(Entries \cup {Torn}) /\ proc[p].files \in Seq(Entries)
         /\ Len(proc[p].lines) \in Nat /\ Len(proc[p].files) \in Nat /\ Len(proc[p].todo) \in Nat
         /\ proc[p].hash \in Seq(Contents) /\ proc[p].built \in Seq(Contents)
         /\ proc[p].todo \in Seq(Files) /\ proc[p].i \in Nat \ {0}
         /\ proc[p].changed \in BOOLEAN /\ proc[p].disturbed \in BOOLEAN
         /\ proc[p].pc \in Places /\ proc[p].fd \in Contents \cup {Null}
         /\ \A k \in 1..Len(proc[p].files) : proc[p].files[k] \in Entries
         /\ \A k \in 1..Len(proc[p].lines) : proc[p].lines[k] \in Entries \cup {Torn}
<1>1. proc[p] \in ProcType
  BY DEF Types
<1>2. /\ proc[p].lines \in Seq(Entries \cup {Torn}) /\ proc[p].files \in Seq(Entries)
      /\ proc[p].hash \in Seq(Contents) /\ proc[p].built \in Seq(Contents)
      /\ proc[p].todo \in Seq(Files) /\ proc[p].i \in Nat \ {0}
      /\ proc[p].changed \in BOOLEAN /\ proc[p].disturbed \in BOOLEAN
      /\ proc[p].pc \in Places /\ proc[p].fd \in Contents \cup {Null}
  BY <1>1 DEF ProcType
<1>3. QED
  BY <1>1, <1>2, ElementOfSeq

\* What Shape says of the entry or the line that is being worked on.
LEMMA CurrentLine ==
  ASSUME Base, NEW p \in Procs, proc[p].pc \in Checking, HasLine(p),
         proc[p].lines[proc[p].i] # Torn
  PROVE  /\ proc[p].i \in 1..Len(proc[p].lines)
         /\ proc[p].lines[proc[p].i] \in Entries
         /\ proc[p].lines[proc[p].i].path \in Files
         /\ proc[p].lines[proc[p].i].digest \in Contents
         /\ proc[p].i <= NumInputs => proc[p].lines[proc[p].i].path = Inputs[proc[p].i]
<1>1. proc[p].i \in 1..Len(proc[p].lines)
  BY FieldTypes DEF HasLine, Base
<1>2. proc[p].lines[proc[p].i] \in Entries
  BY <1>1, FieldTypes DEF Base
<1>3. LinesWritten(proc[p].lines)
  BY DEF Base, Shaped, Shape
<1>4. QED
  BY <1>1, <1>2, <1>3 DEF LinesWritten, Entries

\* The other processes stay where they are.
Only(p) == proc' \in [Procs -> ProcType] /\ \A x \in Procs : x # p => proc'[x] = proc[x]

LEMMA Moved ==
  ASSUME Types, NEW p \in Procs, NEW r \in ProcType, proc' = [proc EXCEPT ![p] = r]
  PROVE  Only(p) /\ proc'[p] = r
  BY DEF Types, Only

\* What a step leaves alone in the record of its process.
SameBuild(p) ==
  /\ proc'[p].todo = proc[p].todo /\ proc'[p].built = proc[p].built
  /\ proc'[p].disturbed = proc[p].disturbed

LEMMA TrustStep ==
  ASSUME Base, NEW p \in Procs, Trust(p)
  PROVE  LET q == proc[p]  r == proc'[p]  e == q.lines[q.i] IN
         /\ Only(p) /\ SameBuild(p)
         /\ q.pc = "check" /\ HasLine(p) /\ e # Torn /\ e.attr = disk[e.path].attr
         /\ r.pc = "check" /\ r.lines = q.lines /\ r.i = q.i + 1 /\ r.changed = q.changed
         /\ Len(r.files) = IF q.i <= Len(q.files) THEN Len(q.files) ELSE q.i
         /\ r.files[q.i] = e
         /\ \A k \in 1..Len(q.files) : k # q.i => r.files[k] = q.files[k]
         /\ r.hash = IF q.changed THEN q.hash ELSE Append(q.hash, e.digest)
<1> DEFINE q == proc[p]
           e == q.lines[q.i]
           fs == Put(q.files, q.i, e)
           h == Update(q.hash, q.changed, e.digest)
           r == [q EXCEPT !.files = fs, !.hash = h, !.i = q.i + 1]
<1>1. q.pc = "check" /\ HasLine(p) /\ e # Torn /\ e.attr = disk[e.path].attr
  BY DEF Trust
<1>2. q.i \in 1..Len(q.lines) /\ e \in Entries /\ e.digest \in Contents
  BY <1>1, CurrentLine DEF Checking
<1>3. q.i \in 1..(Len(q.files) + 1) /\ q.files \in Seq(Entries)
  <2>1. Shape(q) /\ q.files \in Seq(Entries) /\ q.i \in Nat \ {0} /\ Len(q.files) \in Nat
    BY FieldTypes DEF Base, Shaped
  <2>2. q.i - 1 <= Len(q.files)
    BY <1>1, <2>1 DEF Shape, Checking
  <2>3. QED
    BY <2>1, <2>2
<1>4. proc' = [proc EXCEPT ![p] = r]
  BY DEF Trust
<1>5. q \in ProcType
  BY DEF Base, Types
<1>6. h \in Seq(Contents) /\ h = IF q.changed THEN q.hash ELSE Append(q.hash, e.digest)
  BY <1>2, FieldTypes DEF Base, Update
<1> HIDE DEF q, e
<1>7. /\ fs \in Seq(Entries)
      /\ Len(fs) = IF q.i <= Len(q.files) THEN Len(q.files) ELSE q.i
      /\ fs[q.i] = e /\ \A k \in 1..Len(q.files) : k # q.i => fs[k] = q.files[k]
  BY <1>2, <1>3, PutProperties
<1> HIDE DEF fs, h
<1>8. r \in ProcType
  <2>1. fs \in Seq(Entries) /\ h \in Seq(Contents) /\ q.i + 1 \in Nat \ {0}
    BY <1>3, <1>6, <1>7
  <2>2. QED
    BY <1>5, <2>1 DEF ProcType
<1>9. /\ r.pc = q.pc /\ r.lines = q.lines /\ r.i = q.i + 1 /\ r.changed = q.changed
      /\ r.files = fs /\ r.hash = h
      /\ r.todo = q.todo /\ r.built = q.built /\ r.disturbed = q.disturbed
  BY <1>5 DEF ProcType
<1> HIDE DEF r
<1>10. Only(p) /\ proc'[p] = r
  BY <1>4, <1>8, Moved DEF Base
<1>11. QED
  BY <1>1, <1>6, <1>7, <1>9, <1>10 DEF SameBuild, q, e

LEMMA DistrustStep ==
  ASSUME Base, NEW p \in Procs, Distrust(p)
  PROVE  LET q == proc[p]  r == proc'[p]  e == q.lines[q.i] IN
         /\ Only(p) /\ SameBuild(p)
         /\ q.pc = "check" /\ HasLine(p) /\ e # Torn
         /\ r.pc = "rehash" /\ r.lines = q.lines /\ r.i = q.i /\ r.changed = q.changed
         /\ Len(r.files) = IF q.i <= Len(q.files) THEN Len(q.files) ELSE q.i
         /\ r.files[q.i] = [e EXCEPT !.attr = Recorded(e.path)]
         /\ \A k \in 1..Len(q.files) : k # q.i => r.files[k] = q.files[k]
         /\ r.hash = q.hash /\ r.fd = Null
<1> DEFINE q == proc[p]
           e == q.lines[q.i]
           u == [e EXCEPT !.attr = Recorded(e.path)]
           fs == Put(q.files, q.i, u)
           r == [q EXCEPT !.files = fs, !.dirty = TRUE, !.fd = Null, !.pc = "rehash"]
<1>1. q.pc = "check" /\ HasLine(p) /\ e # Torn
  BY DEF Distrust
<1>2. q.i \in 1..Len(q.lines) /\ e \in Entries /\ e.path \in Files
  BY <1>1, CurrentLine DEF Checking
<1>3. q.i \in 1..(Len(q.files) + 1) /\ q.files \in Seq(Entries)
  BY <1>1, FieldTypes DEF Base, Shaped, Shape, Checking
<1>4. proc' = [proc EXCEPT ![p] = r]
  BY DEF Distrust
<1>5. q \in ProcType
  BY DEF Base, Types
<1>6. u \in Entries
  BY <1>2, RecordedType DEF Entries, Base
<1> HIDE DEF q, e, u
<1>7. /\ fs \in Seq(Entries)
      /\ Len(fs) = IF q.i <= Len(q.files) THEN Len(q.files) ELSE q.i
      /\ fs[q.i] = u /\ \A k \in 1..Len(q.files) : k # q.i => fs[k] = q.files[k]
  BY <1>3, <1>6, PutProperties
<1> HIDE DEF fs
<1>8. r \in ProcType
  BY <1>5, <1>7 DEF ProcType, Places
<1>9. /\ r.pc = "rehash" /\ r.lines = q.lines /\ r.i = q.i /\ r.changed = q.changed
      /\ r.files = fs /\ r.hash = q.hash /\ r.fd = Null
      /\ r.todo = q.todo /\ r.built = q.built /\ r.disturbed = q.disturbed
  BY <1>5 DEF ProcType
<1> HIDE DEF r
<1>10. Only(p) /\ proc'[p] = r
  BY <1>4, <1>8, Moved DEF Base
<1>11. QED
  BY <1>1, <1>7, <1>9, <1>10 DEF SameBuild, q, e, u

\* One field of one entry is set.
LEMMA SetDigest ==
  ASSUME NEW s \in Seq(Entries), NEW i \in 1..Len(s), NEW c \in Contents
  PROVE  LET t == [s EXCEPT ![i].digest = c] IN
         /\ t \in Seq(Entries) /\ Len(t) = Len(s)
         /\ t[i].path = s[i].path /\ t[i].attr = s[i].attr /\ t[i].digest = c
         /\ \A k \in 1..Len(s) : k # i => t[k] = s[k]
<1> DEFINE e == [s[i] EXCEPT !.digest = c]
<1>1. s[i] \in Entries
  BY ElementOfSeq
<1>2. e \in Entries /\ e.path = s[i].path /\ e.attr = s[i].attr /\ e.digest = c
  BY <1>1 DEF Entries
<1>3. [s EXCEPT ![i].digest = c] = [s EXCEPT ![i] = e]
  OBVIOUS
<1> HIDE DEF e
<1>4. QED
  BY <1>2, <1>3, ExceptSeq

LEMMA SetAttr ==
  ASSUME NEW s \in Seq(Entries), NEW i \in 1..Len(s), NEW a \in Attrs
  PROVE  LET t == [s EXCEPT ![i].attr = a] IN
         /\ t \in Seq(Entries) /\ Len(t) = Len(s)
         /\ t[i].path = s[i].path /\ t[i].attr = a /\ t[i].digest = s[i].digest
         /\ \A k \in 1..Len(s) : k # i => t[k] = s[k]
<1> DEFINE e == [s[i] EXCEPT !.attr = a]
<1>1. s[i] \in Entries
  BY ElementOfSeq
<1>2. e \in Entries /\ e.path = s[i].path /\ e.attr = a /\ e.digest = s[i].digest
  BY <1>1 DEF Entries
<1>3. [s EXCEPT ![i].attr = a] = [s EXCEPT ![i] = e]
  OBVIOUS
<1> HIDE DEF e
<1>4. QED
  BY <1>2, <1>3, ExceptSeq

\* The digest of the file that is open.
LEMMA HashedContent ==
  ASSUME Types, NEW p \in Procs, proc[p].files[Current(proc[p])].path \in Files
  PROVE  LET q == proc[p]  f == q.files[Current(q)].path IN
         /\ hash_file(q) \in Contents
         /\ q.fd = Null => hash_file(q) = disk[f].content
<1> DEFINE q == proc[p]
           f == q.files[Current(q)].path
<1>1. q.fd \in Contents \cup {Null} /\ disk[f].content \in Contents
  BY FieldTypes DEF Types
<1>2. hash_file(q) = IF q.fd = Null THEN disk[f].content ELSE q.fd
  BY DEF hash_file
<1> HIDE DEF q, f
<1>3. QED
  BY <1>1, <1>2 DEF q, f

LEMMA RehashStep ==
  ASSUME Base, NEW p \in Procs, Rehash(p)
  PROVE  LET q == proc[p]  r == proc'[p]  e == q.files[q.i]  d == hash_file(q) IN
         /\ Only(p) /\ SameBuild(p)
         /\ q.fd = Null => d = disk[e.path].content
         /\ q.pc = "rehash" /\ q.i \in 1..Len(q.files) /\ q.i \in 1..Len(q.lines)
         /\ e.path \in Files /\ d \in Contents
         /\ r.pc = "check" /\ r.lines = q.lines /\ r.i = q.i + 1
         /\ r.changed = (q.changed \/ d # e.digest)
         /\ Len(r.files) = Len(q.files)
         /\ r.files[q.i].path = e.path /\ r.files[q.i].attr = e.attr
         /\ r.files[q.i].digest = d
         /\ \A k \in 1..Len(q.files) : k # q.i => r.files[k] = q.files[k]
         /\ r.hash = IF r.changed THEN q.hash ELSE Append(q.hash, d)
<1> DEFINE q == proc[p]
           e == q.files[q.i]
           d == hash_file(q)
           fs == [q.files EXCEPT ![q.i].digest = d]
           c == (q.changed \/ d # e.digest)
           h == Update(q.hash, c, d)
           r == [q EXCEPT !.files = fs, !.fd = Null, !.changed = c, !.hash = h,
                          !.i = q.i + 1, !.pc = "check"]
<1>1. q.pc = "rehash" /\ proc' = [proc EXCEPT ![p] = r]
  BY DEF Rehash
<1>2. /\ q \in ProcType /\ q.files \in Seq(Entries) /\ q.hash \in Seq(Contents)
      /\ q.i \in Nat \ {0} /\ Len(q.files) \in Nat /\ Len(q.lines) \in Nat
  BY FieldTypes DEF Base
<1>3. Shape(q)
  BY DEF Base, Shaped
<1>4. q.i \in 1..Len(q.files) /\ q.i \in 1..Len(q.lines) /\ HasLine(p) /\ q.lines[q.i] # Torn
  <2>1. q.i <= Len(q.lines) /\ q.i <= Len(q.files) /\ q.lines[q.i] # Torn
    BY <1>1, <1>3 DEF Shape
  <2>2. QED
    BY <1>2, <2>1 DEF HasLine
<1>5. e.path \in Files
  <2>1. e.path = q.lines[q.i].path
    BY <1>1, <1>3 DEF Shape
  <2>2. q.lines[q.i].path \in Files
    BY <1>1, <1>4, CurrentLine DEF Checking
  <2>3. QED
    BY <2>1, <2>2
<1>6. d \in Contents /\ (q.fd = Null => d = disk[e.path].content)
  BY <1>1, <1>5, HashedContent DEF Base, Current
<1> HIDE DEF q, d
<1>7. /\ fs \in Seq(Entries) /\ Len(fs) = Len(q.files)
      /\ fs[q.i].path = e.path /\ fs[q.i].attr = e.attr /\ fs[q.i].digest = d
      /\ \A k \in 1..Len(q.files) : k # q.i => fs[k] = q.files[k]
  BY <1>2, <1>4, <1>6, SetDigest
<1>8. h \in Seq(Contents) /\ h = (IF c THEN q.hash ELSE Append(q.hash, d))
  BY <1>2, <1>6 DEF Update
<1>9. c \in BOOLEAN /\ q.i + 1 \in Nat \ {0}
  BY <1>2
<1> HIDE DEF fs, h, c
<1>10. r \in ProcType
  <2>1. fs \in Seq(Entries) /\ h \in Seq(Contents)
    BY <1>7, <1>8
  <2>2. QED
    BY <1>2, <1>9, <2>1 DEF ProcType, Places
<1>11. /\ r.pc = "check" /\ r.lines = q.lines /\ r.i = q.i + 1 /\ r.changed = c
       /\ r.files = fs /\ r.hash = h
       /\ r.todo = q.todo /\ r.built = q.built /\ r.disturbed = q.disturbed
  BY <1>2 DEF ProcType
<1> HIDE DEF r
<1>12. Only(p) /\ proc'[p] = r
  BY <1>1, <1>10, Moved DEF Base
<1>13. QED
  BY <1>1, <1>4, <1>5, <1>6, <1>7, <1>8, <1>11, <1>12 DEF SameBuild, q, d, c

\* A step that only moves on, and may note that the manifest must be written.
LEMMA PcStep ==
  ASSUME Base, NEW p \in Procs, NEW l \in Places, NEW b \in BOOLEAN,
         proc' = [proc EXCEPT ![p] = [proc[p] EXCEPT !.dirty = b, !.pc = l]]
  PROVE  LET q == proc[p]  r == proc'[p] IN
         /\ Only(p) /\ SameBuild(p)
         /\ r.pc = l /\ r.lines = q.lines /\ r.i = q.i /\ r.changed = q.changed
         /\ r.files = q.files /\ r.hash = q.hash
<1> DEFINE q == proc[p]
           r == [q EXCEPT !.dirty = b, !.pc = l]
<1>1. q \in ProcType
  BY FieldTypes DEF Base
<1> HIDE DEF q
<1>2. r \in ProcType
  BY <1>1 DEF ProcType
<1>3. /\ r.pc = l /\ r.lines = q.lines /\ r.i = q.i /\ r.changed = q.changed
      /\ r.files = q.files /\ r.hash = q.hash
      /\ r.todo = q.todo /\ r.built = q.built /\ r.disturbed = q.disturbed
  BY <1>1 DEF ProcType
<1>4. proc' = [proc EXCEPT ![p] = r]
  BY DEF q
<1> HIDE DEF r
<1>5. Only(p) /\ proc'[p] = r
  BY <1>2, <1>4, Moved DEF Base
<1>6. QED
  BY <1>3, <1>5 DEF SameBuild, q

LEMMA SetPc ==
  ASSUME Base, NEW p \in Procs, NEW l \in Places,
         proc' = [proc EXCEPT ![p].pc = l]
  PROVE  LET q == proc[p]  r == proc'[p] IN
         /\ Only(p) /\ SameBuild(p)
         /\ r.pc = l /\ r.lines = q.lines /\ r.i = q.i /\ r.changed = q.changed
         /\ r.files = q.files /\ r.hash = q.hash
<1>1. proc[p] \in ProcType
  BY FieldTypes DEF Base
<1>2. [proc[p] EXCEPT !.pc = l] = [proc[p] EXCEPT !.dirty = proc[p].dirty, !.pc = l]
  BY <1>1 DEF ProcType
<1>3. proc[p].dirty \in BOOLEAN
  BY <1>1 DEF ProcType
<1>4. proc' = [proc EXCEPT ![p] = [proc[p] EXCEPT !.pc = l]]
  BY DEF Base, Types
<1> DEFINE b == proc[p].dirty
<1>5. b \in BOOLEAN /\ proc' = [proc EXCEPT ![p] = [proc[p] EXCEPT !.dirty = b, !.pc = l]]
  BY <1>2, <1>3, <1>4
<1> HIDE DEF b
<1>6. QED
  BY <1>5, PcStep

LEMMA InvalidFormatStep ==
  ASSUME Base, NEW p \in Procs, InvalidFormat(p)
  PROVE  LET q == proc[p]  r == proc'[p] IN
         /\ Only(p) /\ SameBuild(p)
         /\ q.pc = "check" /\ HasLine(p) /\ q.lines[q.i] = Torn
         /\ r.pc = "fill" /\ r.lines = q.lines /\ r.i = q.i /\ r.changed = q.changed
         /\ r.hash = q.hash
         /\ ~PastInputs(p) => r.files = q.files
         /\ PastInputs(p) => /\ Len(r.files) = Len(q.files) + 1
                             /\ r.files[Len(q.files) + 1] = Unhashed(Null)
         /\ \A k \in 1..Len(q.files) : r.files[k] = q.files[k]
<1> DEFINE q == proc[p]
           fs == IF PastInputs(p) THEN Append(q.files, Unhashed(Null)) ELSE q.files
           r == [q EXCEPT !.files = fs, !.dirty = TRUE, !.pc = "fill"]
<1>1. /\ q.pc = "check" /\ HasLine(p) /\ q.lines[q.i] = Torn
      /\ proc' = [proc EXCEPT ![p] = r]
  BY DEF InvalidFormat
<1>2. q \in ProcType /\ q.files \in Seq(Entries)
  BY FieldTypes DEF Base
<1>3. Unhashed(Null) \in Entries
  BY ConstantTypes
<1> HIDE DEF q
<1>4. /\ fs \in Seq(Entries)
      /\ ~PastInputs(p) => fs = q.files
      /\ PastInputs(p) => /\ Len(fs) = Len(q.files) + 1
                          /\ fs[Len(q.files) + 1] = Unhashed(Null)
      /\ \A k \in 1..Len(q.files) : fs[k] = q.files[k]
  BY <1>2, <1>3, AppendProperties
<1> HIDE DEF fs
<1>5. r \in ProcType
  BY <1>2, <1>4 DEF ProcType, Places
<1>6. /\ r.pc = "fill" /\ r.lines = q.lines /\ r.i = q.i /\ r.changed = q.changed
      /\ r.files = fs /\ r.hash = q.hash
      /\ r.todo = q.todo /\ r.built = q.built /\ r.disturbed = q.disturbed
  BY <1>2 DEF ProcType
<1> HIDE DEF r
<1>7. Only(p) /\ proc'[p] = r
  BY <1>1, <1>5, Moved DEF Base
<1>8. QED
  BY <1>1, <1>4, <1>6, <1>7 DEF SameBuild, q

LEMMA MissStep ==
  ASSUME Base, NEW p \in Procs, Miss(p)
  PROVE  LET q == proc[p]  r == proc'[p] IN
         /\ Only(p) /\ SameBuild(p)
         /\ q.pc = "check" /\ q.i > NumInputs /\ q.changed
         /\ r.pc = "build" /\ r.lines = q.lines /\ r.i = q.i /\ r.changed = q.changed
         /\ Len(r.files) = NumInputs /\ NumInputs <= Len(q.files)
         /\ \A k \in 1..NumInputs : r.files[k] = q.files[k]
         /\ Len(r.hash) = NumInputs
         /\ \A k \in 1..NumInputs : r.hash[k] = q.files[k].digest
<1> DEFINE q == proc[p]
           fs == SubSeq(q.files, 1, NumInputs)
           h == Digests(fs)
           r == [q EXCEPT !.files = fs, !.hash = h, !.pc = "build"]
<1>1. /\ q.pc = "check" /\ q.i > NumInputs /\ q.changed
      /\ proc' = [proc EXCEPT ![p] = r]
  BY DEF Miss, Stops, PastInputs
<1>2. /\ q \in ProcType /\ q.files \in Seq(Entries) /\ Len(q.files) \in Nat
      /\ q.i \in Nat
      /\ \A k \in 1..Len(q.files) : q.files[k] \in Entries
  BY FieldTypes DEF Base
<1>3. Shape(q)
  BY DEF Base, Shaped
<1>4. NumInputs <= Len(q.files) /\ NumInputs \in Nat
  BY <1>1, <1>3, ConstantTypes DEF Shape
<1>5. \A k \in 1..NumInputs : q.files[k].digest # Null
  <2>1. \A k \in 1..Len(q.files) : k < q.i => q.files[k].digest # Null
    BY <1>1, <1>3 DEF Shape, Checking
  <2>2. QED
    BY <1>1, <1>2, <1>4, <2>1
<1> HIDE DEF q
<1>6. /\ fs \in Seq(Entries) /\ Len(fs) = NumInputs
      /\ \A k \in 1..NumInputs : fs[k] = q.files[k]
  <2>1. \A k \in 1..NumInputs : q.files[k] \in Entries
    BY <1>2, <1>4
  <2>2. /\ fs \in Seq(Entries) /\ Len(fs) = IF 1 <= NumInputs THEN NumInputs - 1 + 1 ELSE 0
        /\ \A k \in 1..(NumInputs - 1 + 1) : fs[k] = q.files[1 + k - 1]
    BY <1>4, <2>1, SubSeqProperties
  <2>3. QED
    BY <1>4, <2>2
<1> HIDE DEF fs
<1>7. /\ h \in Seq(Contents) /\ Len(h) = NumInputs
      /\ \A k \in 1..NumInputs : h[k] = q.files[k].digest
  BY <1>5, <1>6, DigestsProperties
<1> HIDE DEF h
<1>8. r \in ProcType
  BY <1>2, <1>6, <1>7 DEF ProcType, Places
<1>9. /\ r.pc = "build" /\ r.lines = q.lines /\ r.i = q.i /\ r.changed = q.changed
      /\ r.files = fs /\ r.hash = h
      /\ r.todo = q.todo /\ r.built = q.built /\ r.disturbed = q.disturbed
  BY <1>2 DEF ProcType
<1> HIDE DEF r
<1>10. Only(p) /\ proc'[p] = r
  BY <1>1, <1>8, Moved DEF Base
<1>11. QED
  BY <1>1, <1>4, <1>6, <1>7, <1>9, <1>10 DEF SameBuild, q

LEMMA FillOpenStep ==
  ASSUME Base, NEW p \in Procs, FillOpen(p), ~PastInputs(p)
  PROVE  LET q == proc[p]  r == proc'[p]  e == q.files[q.i] IN
         /\ Only(p) /\ SameBuild(p)
         /\ q.pc = "fill" /\ q.i \in 1..NumInputs /\ q.i \in 1..Len(q.files)
         /\ e.path = Inputs[q.i]
         /\ r.pc = "fillhash" /\ r.lines = q.lines /\ r.i = q.i /\ r.changed = q.changed
         /\ r.hash = q.hash /\ r.fd = Null /\ Len(r.files) = Len(q.files)
         /\ r.files[q.i].path = e.path /\ r.files[q.i].digest = e.digest
         /\ r.files[q.i].attr = Recorded(Inputs[q.i])
         /\ \A k \in 1..Len(q.files) : k # q.i => r.files[k] = q.files[k]
<1> DEFINE q == proc[p]
           e == q.files[q.i]
           fs == [q.files EXCEPT ![q.i].attr = Recorded(Inputs[q.i])]
           r == [q EXCEPT !.files = fs, !.fd = Null, !.pc = "fillhash"]
<1>1. q.pc = "fill" /\ proc' = [proc EXCEPT ![p] = r] /\ ~(q.i > NumInputs)
  BY DEF FillOpen, PastInputs
<1>2. /\ q \in ProcType /\ q.files \in Seq(Entries) /\ q.i \in Nat \ {0}
      /\ Len(q.files) \in Nat
  BY FieldTypes DEF Base
<1>3. Shape(q)
  BY DEF Base, Shaped
<1>4. q.i \in 1..NumInputs /\ q.i \in 1..Len(q.files) /\ e.path = Inputs[q.i]
  BY <1>1, <1>2, <1>3, ConstantTypes DEF Shape
<1>5. Recorded(Inputs[q.i]) \in Attrs
  BY <1>4, ConstantTypes, RecordedType DEF Base
<1> HIDE DEF q
<1>6. /\ fs \in Seq(Entries) /\ Len(fs) = Len(q.files)
      /\ fs[q.i].path = e.path /\ fs[q.i].digest = e.digest
      /\ fs[q.i].attr = Recorded(Inputs[q.i])
      /\ \A k \in 1..Len(q.files) : k # q.i => fs[k] = q.files[k]
  BY <1>2, <1>4, <1>5, SetAttr
<1> HIDE DEF fs
<1>7. r \in ProcType
  BY <1>2, <1>6 DEF ProcType, Places
<1>8. /\ r.pc = "fillhash" /\ r.lines = q.lines /\ r.i = q.i /\ r.changed = q.changed
      /\ r.files = fs /\ r.hash = q.hash /\ r.fd = Null
      /\ r.todo = q.todo /\ r.built = q.built /\ r.disturbed = q.disturbed
  BY <1>2 DEF ProcType
<1> HIDE DEF r
<1>9. Only(p) /\ proc'[p] = r
  BY <1>1, <1>7, Moved DEF Base
<1>10. QED
  BY <1>1, <1>4, <1>6, <1>8, <1>9 DEF SameBuild, q

LEMMA FillHashStep ==
  ASSUME Base, NEW p \in Procs, FillHash(p)
  PROVE  LET q == proc[p]  r == proc'[p]  d == hash_file(q) IN
         /\ Only(p) /\ SameBuild(p) /\ d \in Contents
         /\ q.fd = Null => d = disk[Inputs[q.i]].content
         /\ q.pc = "fillhash" /\ q.i \in 1..NumInputs /\ q.i \in 1..Len(q.files)
         /\ q.files[q.i].path = Inputs[q.i]
         /\ r.pc = "fill" /\ r.lines = q.lines /\ r.i = q.i + 1 /\ r.changed = q.changed
         /\ Len(r.files) = Len(q.files)
         /\ r.files[q.i].path = Inputs[q.i] /\ r.files[q.i].attr = q.files[q.i].attr
         /\ r.files[q.i].digest = d
         /\ \A k \in 1..Len(q.files) : k # q.i => r.files[k] = q.files[k]
         /\ r.hash = Append(q.hash, d)
<1> DEFINE q == proc[p]
           d == hash_file(q)
           fs == [q.files EXCEPT ![q.i].digest = d]
           h == Append(q.hash, d)
           r == [q EXCEPT !.files = fs, !.fd = Null, !.hash = h, !.i = q.i + 1, !.pc = "fill"]
<1>1. q.pc = "fillhash" /\ proc' = [proc EXCEPT ![p] = r]
  BY DEF FillHash
<1>2. /\ q \in ProcType /\ q.files \in Seq(Entries) /\ q.hash \in Seq(Contents)
      /\ q.i \in Nat \ {0} /\ Len(q.files) \in Nat
  BY FieldTypes DEF Base
<1>3. Shape(q)
  BY DEF Base, Shaped
<1>4. q.i \in 1..NumInputs /\ q.i \in 1..Len(q.files) /\ q.files[q.i].path = Inputs[q.i]
  BY <1>1, <1>2, <1>3, ConstantTypes DEF Shape
<1>5. d \in Contents /\ (q.fd = Null => d = disk[Inputs[q.i]].content)
  BY <1>1, <1>4, ConstantTypes, HashedContent DEF Base, Current
<1> HIDE DEF q, d
<1>6. /\ fs \in Seq(Entries) /\ Len(fs) = Len(q.files)
      /\ fs[q.i].path = q.files[q.i].path /\ fs[q.i].attr = q.files[q.i].attr
      /\ fs[q.i].digest = d
      /\ \A k \in 1..Len(q.files) : k # q.i => fs[k] = q.files[k]
  BY <1>2, <1>4, <1>5, SetDigest
<1>7. h \in Seq(Contents) /\ q.i + 1 \in Nat \ {0}
  BY <1>2, <1>5
<1> HIDE DEF fs, h
<1>8. r \in ProcType
  <2>1. fs \in Seq(Entries)
    BY <1>6
  <2>2. QED
    BY <1>2, <1>7, <2>1 DEF ProcType, Places
<1>9. /\ r.pc = "fill" /\ r.lines = q.lines /\ r.i = q.i + 1 /\ r.changed = q.changed
      /\ r.files = fs /\ r.hash = h
      /\ r.todo = q.todo /\ r.built = q.built /\ r.disturbed = q.disturbed
  BY <1>2 DEF ProcType
<1> HIDE DEF r
<1>10. Only(p) /\ proc'[p] = r
  BY <1>1, <1>8, Moved DEF Base
<1>11. QED
  BY <1>1, <1>4, <1>5, <1>6, <1>9, <1>10 DEF SameBuild, q, d, h

LEMMA CompileStep ==
  ASSUME Base, NEW p \in Procs, Compile(p)
  PROVE  LET q == proc[p]  r == proc'[p]  deps == Imports(Content(Inputs)) IN
         /\ Only(p)
         /\ q.pc = "build" /\ r.pc = "add" /\ r.lines = q.lines /\ r.i = q.i
         /\ r.changed = q.changed /\ r.files = q.files /\ r.hash = q.hash
         /\ r.disturbed = q.disturbed /\ r.todo = deps /\ r.built = Content(Inputs \o deps)
<1> DEFINE q == proc[p]
           deps == Imports(Content(Inputs))
           b == Content(Inputs \o deps)
           r == [q EXCEPT !.built = b, !.todo = deps, !.pc = "add"]
<1>1. q.pc = "build" /\ proc' = [proc EXCEPT ![p] = r]
  BY DEF Compile
<1>2. q \in ProcType
  BY FieldTypes DEF Base
<1>3. deps \in Seq(Files) /\ b \in Seq(Contents)
  BY CompileType DEF Base
<1> HIDE DEF q, deps, b
<1>4. r \in ProcType
  BY <1>2, <1>3 DEF ProcType, Places
<1>5. /\ r.pc = "add" /\ r.lines = q.lines /\ r.i = q.i /\ r.changed = q.changed
      /\ r.files = q.files /\ r.hash = q.hash
      /\ r.todo = deps /\ r.built = b /\ r.disturbed = q.disturbed
  BY <1>2 DEF ProcType
<1> HIDE DEF r
<1>6. Only(p) /\ proc'[p] = r
  BY <1>1, <1>4, Moved DEF Base
<1>7. QED
  BY <1>1, <1>5, <1>6 DEF q, deps, b

LEMMA AddOpenStep ==
  ASSUME Base, NEW p \in Procs, AddOpen(p)
  PROVE  LET q == proc[p]  r == proc'[p]  f == Head(q.todo)  n == Len(q.files) + 1 IN
         /\ Only(p) /\ SameBuild(p)
         /\ q.pc = "add" /\ q.todo # <<>> /\ f \in Files
         /\ r.pc = "addhash" /\ r.lines = q.lines /\ r.i = q.i /\ r.changed = q.changed
         /\ r.hash = q.hash /\ r.fd = Null /\ Len(r.files) = n
         /\ r.files[n].path = f /\ r.files[n].attr = Recorded(f) /\ r.files[n].digest = Null
         /\ \A k \in 1..Len(q.files) : r.files[k] = q.files[k]
<1> DEFINE q == proc[p]
           f == Head(q.todo)
           e == [Unhashed(f) EXCEPT !.attr = Recorded(f)]
           fs == Append(q.files, e)
           r == [q EXCEPT !.files = fs, !.fd = Null, !.pc = "addhash"]
<1>1. q.pc = "add" /\ q.todo # <<>> /\ proc' = [proc EXCEPT ![p] = r]
  BY DEF AddOpen
<1>2. q \in ProcType /\ q.files \in Seq(Entries) /\ q.todo \in Seq(Files)
  BY FieldTypes DEF Base
<1>3. f \in Files
  BY <1>1, <1>2, HeadTailProperties
<1> HIDE DEF q, f
<1>4. e \in Entries /\ e.path = f /\ e.attr = Recorded(f) /\ e.digest = Null
  <2>1. Recorded(f) \in Attrs
    BY <1>3, RecordedType DEF Base
  <2>2. QED
    BY <1>3, <2>1 DEF Unhashed, Entries
<1> HIDE DEF e
<1>5. /\ fs \in Seq(Entries) /\ Len(fs) = Len(q.files) + 1
      /\ fs[Len(q.files) + 1] = e /\ \A k \in 1..Len(q.files) : fs[k] = q.files[k]
  BY <1>2, <1>4, AppendProperties
<1> HIDE DEF fs
<1>6. r \in ProcType
  BY <1>2, <1>5 DEF ProcType, Places
<1>7. /\ r.pc = "addhash" /\ r.lines = q.lines /\ r.i = q.i /\ r.changed = q.changed
      /\ r.files = fs /\ r.hash = q.hash /\ r.fd = Null
      /\ r.todo = q.todo /\ r.built = q.built /\ r.disturbed = q.disturbed
  BY <1>2 DEF ProcType
<1> HIDE DEF r
<1>8. Only(p) /\ proc'[p] = r
  BY <1>1, <1>6, Moved DEF Base
<1>9. QED
  BY <1>1, <1>3, <1>4, <1>5, <1>7, <1>8 DEF SameBuild, q, f

LEMMA AddHashStep ==
  ASSUME Base, NEW p \in Procs, AddHash(p)
  PROVE  LET q == proc[p]  r == proc'[p]  n == Len(q.files)
             f == Head(q.todo)  d == hash_file(q) IN
         /\ Only(p) /\ d \in Contents /\ f \in Files
         /\ q.fd = Null => d = disk[f].content
         /\ q.pc = "addhash" /\ q.todo # <<>> /\ n > NumInputs /\ q.files[n].path = f
         /\ r.pc = "add" /\ r.lines = q.lines /\ r.i = q.i /\ r.changed = q.changed
         /\ Len(r.files) = n
         /\ r.files[n].path = f /\ r.files[n].attr = q.files[n].attr /\ r.files[n].digest = d
         /\ \A k \in 1..(n - 1) : r.files[k] = q.files[k]
         /\ r.hash = Append(q.hash, d) /\ r.todo = Tail(q.todo)
         /\ r.built = q.built /\ r.disturbed = q.disturbed
<1> DEFINE q == proc[p]
           n == Len(q.files)
           f == Head(q.todo)
           d == hash_file(q)
           fs == [q.files EXCEPT ![n].digest = d]
           h == Append(q.hash, d)
           t == Tail(q.todo)
           r == [q EXCEPT !.files = fs, !.fd = Null, !.hash = h, !.todo = t, !.pc = "add"]
<1>1. q.pc = "addhash" /\ proc' = [proc EXCEPT ![p] = r]
  BY DEF AddHash
<1>2. /\ q \in ProcType /\ q.files \in Seq(Entries) /\ q.todo \in Seq(Files) /\ n \in Nat
      /\ q.hash \in Seq(Contents)
  BY FieldTypes DEF Base
<1>3. q.todo # <<>> /\ n > NumInputs /\ q.files[n].path = f
  BY <1>1 DEF Base, Shaped, Shape
<1>4. f \in Files /\ t \in Seq(Files)
  BY <1>2, <1>3, HeadTailProperties
<1>5. d \in Contents /\ (q.fd = Null => d = disk[f].content)
  BY <1>1, <1>3, <1>4, HashedContent DEF Base, Current
<1>6. n \in 1..n
  BY <1>2, <1>3, ConstantTypes
<1> HIDE DEF q, d, f, t
<1>7. /\ fs \in Seq(Entries) /\ Len(fs) = n
      /\ fs[n].path = q.files[n].path /\ fs[n].attr = q.files[n].attr /\ fs[n].digest = d
      /\ \A k \in 1..n : k # n => fs[k] = q.files[k]
  BY <1>2, <1>5, <1>6, SetDigest
<1>8. h \in Seq(Contents)
  BY <1>2, <1>5
<1> HIDE DEF fs, h, n
<1>9. r \in ProcType
  <2>1. fs \in Seq(Entries)
    BY <1>7
  <2>2. QED
    BY <1>2, <1>4, <1>8, <2>1 DEF ProcType, Places
<1>10. /\ r.pc = "add" /\ r.lines = q.lines /\ r.i = q.i /\ r.changed = q.changed
       /\ r.files = fs /\ r.hash = h
       /\ r.todo = t /\ r.built = q.built /\ r.disturbed = q.disturbed
  BY <1>2 DEF ProcType
<1> HIDE DEF r
<1>11. Only(p) /\ proc'[p] = r
  BY <1>1, <1>9, Moved DEF Base
<1>12. \A k \in 1..(n - 1) : fs[k] = q.files[k]
  BY <1>2, <1>7
<1>13. QED
  BY <1>1, <1>3, <1>4, <1>5, <1>7, <1>10, <1>11, <1>12 DEF q, f, d, h, t, n

LEMMA ExitStep ==
  ASSUME Base, NEW p \in Procs, Exit(p)
  PROVE  Only(p) /\ proc'[p] = cache_init /\ lock' = Nobody
  BY OpenedType, Moved DEF Base, Exit

LEMMA OpenStep ==
  ASSUME Base, NEW p \in Procs, OpenManifest(p)
  PROVE  /\ Only(p) /\ proc'[p] = Opened /\ lock = Nobody /\ lock' = p
         /\ UNCHANGED <<world, manifest, artifacts, tainted>>
  BY OpenedType, Moved DEF Base, OpenManifest, Opened

\* A change of the files notes who relied on them and keeps what was open.
Touched(f) ==
  \/ \E c \in Contents : Edit(f, c)
  \/ \E c \in Contents, t \in Stamps : Replace(f, c, t)

LEMMA TouchedStep ==
  ASSUME Types, NEW f \in Files, Touched(f)
  PROVE  /\ proc' \in [Procs -> ProcType]
         /\ \A p \in Procs :
              LET q == proc[p]  r == proc'[p] IN
              /\ r.pc = q.pc /\ r.lines = q.lines /\ r.i = q.i /\ r.changed = q.changed
              /\ r.files = q.files /\ r.hash = q.hash /\ r.todo = q.todo /\ r.built = q.built
              /\ q.disturbed \/ Relies(p, f) => r.disturbed
              /\ \/ r.fd = q.fd
                 \/ /\ HasOpen(p, f) /\ (r.disturbed \/ PastInputs(p))
                    /\ disk'[f].attr.inode = disk[f].attr.inode + 1
<1> DEFINE After(p, r) ==
      LET q == proc[p] IN
      /\ r \in ProcType
      /\ r.pc = q.pc /\ r.lines = q.lines /\ r.i = q.i /\ r.changed = q.changed
      /\ r.files = q.files /\ r.hash = q.hash /\ r.todo = q.todo /\ r.built = q.built
      /\ q.disturbed \/ Relies(p, f) => r.disturbed
      /\ \/ r.fd = q.fd
         \/ /\ HasOpen(p, f) /\ (r.disturbed \/ PastInputs(p))
            /\ disk'[f].attr.inode = disk[f].attr.inode + 1
<1>1. ASSUME NEW p \in Procs
      PROVE  proc[p] \in ProcType /\ proc[p].disturbed \in BOOLEAN
             /\ proc[p].fd \in Contents \cup {Null} /\ disk[f].content \in Contents
  BY FieldTypes DEF Types
<1>2. CASE \E c \in Contents : Edit(f, c)
  <2>1. proc' = [p \in Procs |-> [proc[p] EXCEPT !.disturbed = @ \/ Relies(p, f)]]
    BY <1>2 DEF Edit
  <2>2. ASSUME NEW p \in Procs PROVE After(p, proc'[p])
    <3> DEFINE q == proc[p]
               b == (q.disturbed \/ Relies(p, f))
               r == [q EXCEPT !.disturbed = b]
    <3>1. q \in ProcType /\ b \in BOOLEAN
      BY <1>1
    <3>2. proc'[p] = r
      BY <2>1
    <3>3. q.disturbed \/ Relies(p, f) => b
      OBVIOUS
    <3> HIDE DEF q, b
    <3>4. /\ r \in ProcType /\ r.disturbed = b /\ r.fd = q.fd
          /\ r.pc = q.pc /\ r.lines = q.lines /\ r.i = q.i /\ r.changed = q.changed
          /\ r.files = q.files /\ r.hash = q.hash /\ r.todo = q.todo /\ r.built = q.built
      BY <3>1 DEF ProcType
    <3> HIDE DEF r
    <3>5. QED
      BY <3>2, <3>3, <3>4 DEF q
  <2>3. QED
    BY <2>1, <2>2
<1>3. CASE \E c \in Contents, t \in Stamps : Replace(f, c, t)
  <2>1. PICK c \in Contents, t \in Stamps : Replace(f, c, t)
    BY <1>3
  <2>2. proc' = [p \in Procs |->
          [proc[p] EXCEPT
             !.disturbed = @ \/ Relies(p, f) \/ (HasOpen(p, f) /\ ~PastInputs(p)),
             !.fd = IF HasOpen(p, f) /\ @ = Null THEN disk[f].content ELSE @]]
    BY <2>1 DEF Replace
  <2>3. disk'[f].attr.inode = disk[f].attr.inode + 1
    <3>1. disk[f] \in [content : Contents, attr : Attrs]
      BY DEF Types
    <3>2. disk'[f] = [disk[f] EXCEPT !.content = c, !.attr.mtime = t, !.attr.inode = @ + 1]
      BY <2>1 DEF Replace, Types
    <3>3. QED
      BY <3>1, <3>2, ZenonT(30) DEF Attrs
  <2>4. ASSUME NEW p \in Procs PROVE After(p, proc'[p])
    <3> DEFINE q == proc[p]
               b == (q.disturbed \/ Relies(p, f) \/ (HasOpen(p, f) /\ ~PastInputs(p)))
               o == IF HasOpen(p, f) /\ q.fd = Null THEN disk[f].content ELSE q.fd
               r == [q EXCEPT !.disturbed = b, !.fd = o]
    <3>1. q \in ProcType /\ b \in BOOLEAN /\ o \in Contents \cup {Null}
      BY <1>1
    <3>2. proc'[p] = r
      BY <2>2
    <3>3. q.disturbed \/ Relies(p, f) => b
      OBVIOUS
    <3>4. o = q.fd \/ (HasOpen(p, f) /\ (b \/ PastInputs(p)))
      OBVIOUS
    <3> HIDE DEF q, b, o
    <3>5. /\ r \in ProcType /\ r.disturbed = b /\ r.fd = o
          /\ r.pc = q.pc /\ r.lines = q.lines /\ r.i = q.i /\ r.changed = q.changed
          /\ r.files = q.files /\ r.hash = q.hash /\ r.todo = q.todo /\ r.built = q.built
      BY <3>1 DEF ProcType
    <3> HIDE DEF r
    <3>6. QED
      BY <2>3, <3>2, <3>3, <3>4, <3>5 DEF q
  <2>5. QED
    BY <2>2, <2>4
<1>4. QED
  BY <1>2, <1>3 DEF Touched

-----------------------------------------------------------------------------
(***************************************************************************)
(* Each step keeps the shape of the record of its process.                 *)
(***************************************************************************)
LEMMA TrustShape ==
  ASSUME Base, NEW p \in Procs, Trust(p)
  PROVE  Shape(proc'[p]) /\ Compared(proc'[p])
<1> DEFINE q == proc[p]
           r == proc'[p]
           e == q.lines[q.i]
<1>1. /\ q.pc = "check" /\ e # Torn
      /\ r.pc = "check" /\ r.lines = q.lines /\ r.i = q.i + 1 /\ r.changed = q.changed
      /\ Len(r.files) = IF q.i <= Len(q.files) THEN Len(q.files) ELSE q.i
      /\ r.files[q.i] = e
      /\ \A k \in 1..Len(q.files) : k # q.i => r.files[k] = q.files[k]
  BY TrustStep
<1>2. /\ Shape(q) /\ Compared(q) /\ q.i \in Nat \ {0} /\ Len(q.files) \in Nat
      /\ Len(q.lines) \in Nat /\ q.changed \in BOOLEAN
  BY FieldTypes DEF Base, Shaped
<1>3. /\ q.i \in 1..Len(q.lines) /\ e.path \in Files /\ e.path # Null
      /\ e.digest # Null /\ (q.i <= NumInputs => e.path = Inputs[q.i])
  BY <1>1, TrustStep, CurrentLine, ConstantTypes DEF Checking
<1>4. NumInputs \in Nat \ {0}
  BY ConstantTypes
<1> HIDE DEF q, r, e
<1>5. /\ LinesWritten(q.lines) /\ NumInputs <= Len(q.files)
      /\ \A k \in 1..NumInputs : q.files[k].path = Inputs[k]
      /\ \A k \in 1..Len(q.files) :
           /\ k < q.i => q.files[k].path # Null /\ q.files[k].digest # Null
           /\ k >= q.i => q.files[k].digest = Null
      /\ q.i - 1 <= Len(q.files) /\ Len(q.files) \in {NumInputs, q.i - 1}
  BY <1>1, <1>2 DEF Shape, Checking
<1>6. /\ NumInputs <= Len(r.files) /\ r.i - 1 <= Len(r.files) /\ r.i - 1 <= Len(r.lines)
      /\ Len(r.files) \in {NumInputs, r.i - 1}
  BY <1>1, <1>2, <1>3, <1>4, <1>5
<1>7. ASSUME NEW k \in 1..NumInputs PROVE r.files[k].path = Inputs[k]
  <2>1. CASE k = q.i
    BY <1>1, <1>3, <1>4, <2>1
  <2>2. CASE k # q.i
    <3>1. k \in 1..Len(q.files)
      BY <1>2, <1>4, <1>5
    <3>2. QED
      BY <1>1, <1>5, <2>2, <3>1
  <2>3. QED
    BY <2>1, <2>2
<1>8. ASSUME NEW k \in 1..Len(r.files)
      PROVE  /\ k < r.i => r.files[k].path # Null /\ r.files[k].digest # Null
             /\ k >= r.i => r.files[k].digest = Null
  <2>1. CASE k = q.i
    BY <1>1, <1>2, <1>3, <2>1
  <2>2. CASE k # q.i
    <3>1. k \in 1..Len(q.files) /\ r.files[k] = q.files[k]
      BY <1>1, <1>2, <1>5, <2>2
    <3>2. QED
      BY <1>1, <1>2, <1>5, <2>2, <3>1
  <2>3. QED
    BY <2>1, <2>2
<1>9. Shape(r)
  BY <1>1, <1>2, <1>5, <1>6, <1>7, <1>8 DEF Shape, Checking, Filling, Building
<1>10. Compared(r)
  <2>1. \A k \in 1..(r.i - 1) : k \in 1..(q.i - 1) \/ k = q.i
    BY <1>1, <1>2
  <2>2. \A k \in 1..(q.i - 1) : k \in 1..Len(q.files) /\ k # q.i /\ k \in 1..(r.i - 1)
    BY <1>1, <1>2, <1>5
  <2>3. QED
    BY <1>1, <1>2, <2>1, <2>2 DEF Compared, Checking, e
<1>11. QED
  BY <1>9, <1>10 DEF r

LEMMA DistrustShape ==
  ASSUME Base, NEW p \in Procs, Distrust(p)
  PROVE  Shape(proc'[p]) /\ Compared(proc'[p])
<1> DEFINE q == proc[p]
           r == proc'[p]
           e == q.lines[q.i]
<1>1. /\ q.pc = "check" /\ e # Torn
      /\ r.pc = "rehash" /\ r.lines = q.lines /\ r.i = q.i /\ r.changed = q.changed
      /\ Len(r.files) = IF q.i <= Len(q.files) THEN Len(q.files) ELSE q.i
      /\ r.files[q.i] = [e EXCEPT !.attr = Recorded(e.path)]
      /\ \A k \in 1..Len(q.files) : k # q.i => r.files[k] = q.files[k]
  BY DistrustStep
<1>2. /\ Shape(q) /\ Compared(q) /\ q.i \in Nat \ {0} /\ Len(q.files) \in Nat
      /\ Len(q.lines) \in Nat /\ q.changed \in BOOLEAN
  BY FieldTypes DEF Base, Shaped
<1>3. /\ q.i \in 1..Len(q.lines) /\ e \in Entries
      /\ (q.i <= NumInputs => e.path = Inputs[q.i])
  BY <1>1, DistrustStep, CurrentLine, ConstantTypes DEF Checking
<1>4. NumInputs \in Nat \ {0}
  BY ConstantTypes
<1>5. r.files[q.i].path = e.path /\ r.files[q.i].digest = e.digest
  BY <1>1, <1>3 DEF Entries
<1> HIDE DEF q, r, e
<1>6. /\ LinesWritten(q.lines) /\ NumInputs <= Len(q.files)
      /\ \A k \in 1..NumInputs : q.files[k].path = Inputs[k]
      /\ \A k \in 1..Len(q.files) :
           /\ k < q.i => q.files[k].path # Null /\ q.files[k].digest # Null
           /\ k >= q.i => q.files[k].digest = Null
      /\ q.i - 1 <= Len(q.files) /\ Len(q.files) \in {NumInputs, q.i - 1}
  BY <1>1, <1>2 DEF Shape, Checking
<1>7. /\ NumInputs <= Len(r.files) /\ r.i - 1 <= Len(r.files) /\ r.i - 1 <= Len(r.lines)
      /\ Len(r.files) \in {NumInputs, r.i} /\ r.i <= Len(r.lines) /\ r.i <= Len(r.files)
  BY <1>1, <1>2, <1>3, <1>4, <1>6
<1>8. ASSUME NEW k \in 1..NumInputs PROVE r.files[k].path = Inputs[k]
  <2>1. CASE k = q.i
    BY <1>3, <1>4, <1>5, <2>1
  <2>2. CASE k # q.i
    BY <1>1, <1>2, <1>4, <1>6, <2>2
  <2>3. QED
    BY <2>1, <2>2
<1>9. ASSUME NEW k \in 1..Len(r.files)
      PROVE  /\ k < r.i => r.files[k].path # Null /\ r.files[k].digest # Null
             /\ k > r.i => r.files[k].digest = Null
  <2>1. CASE k = q.i
    BY <1>1, <1>2, <2>1
  <2>2. CASE k # q.i
    <3>1. k \in 1..Len(q.files) /\ r.files[k] = q.files[k]
      BY <1>1, <1>2, <1>6, <2>2
    <3>2. QED
      BY <1>1, <1>2, <1>6, <2>2, <3>1
  <2>3. QED
    BY <2>1, <2>2
<1>10. r.files[r.i].path = r.lines[r.i].path /\ r.files[r.i].digest = r.lines[r.i].digest
  BY <1>1, <1>5 DEF e
<1>11. r.lines[r.i] # Torn
  BY <1>1 DEF e
<1>12. Shape(r)
  BY <1>1, <1>6, <1>7, <1>8, <1>9, <1>10, <1>11 DEF Shape, Checking, Filling, Building
<1>13. Compared(r)
  <2>1. \A k \in 1..(q.i - 1) : k \in 1..Len(q.files) /\ k # q.i
    BY <1>2, <1>6
  <2>2. QED
    BY <1>1, <1>2, <2>1 DEF Compared, Checking
<1>14. QED
  BY <1>12, <1>13 DEF r

LEMMA RehashShape ==
  ASSUME Base, NEW p \in Procs, Rehash(p)
  PROVE  Shape(proc'[p]) /\ Compared(proc'[p])
<1> DEFINE q == proc[p]
           r == proc'[p]
           e == q.files[q.i]
           d == hash_file(q)
<1>1. /\ q.pc = "rehash" /\ q.i \in 1..Len(q.files) /\ q.i \in 1..Len(q.lines)
      /\ e.path \in Files /\ d \in Contents
      /\ r.pc = "check" /\ r.lines = q.lines /\ r.i = q.i + 1
      /\ r.changed = (q.changed \/ d # e.digest)
      /\ Len(r.files) = Len(q.files)
      /\ r.files[q.i].path = e.path /\ r.files[q.i].digest = d
      /\ \A k \in 1..Len(q.files) : k # q.i => r.files[k] = q.files[k]
  BY RehashStep
<1>2. /\ Shape(q) /\ Compared(q) /\ q.i \in Nat \ {0} /\ Len(q.files) \in Nat
      /\ Len(q.lines) \in Nat /\ q.changed \in BOOLEAN
  BY FieldTypes DEF Base, Shaped
<1>3. NumInputs \in Nat \ {0} /\ e.path # Null /\ d # Null
  BY <1>1, ConstantTypes
<1> HIDE DEF q, r, d
<1>4. /\ LinesWritten(q.lines) /\ NumInputs <= Len(q.files)
      /\ \A k \in 1..NumInputs : q.files[k].path = Inputs[k]
      /\ \A k \in 1..Len(q.files) :
           /\ k < q.i => q.files[k].path # Null /\ q.files[k].digest # Null
           /\ k > q.i => q.files[k].digest = Null
      /\ Len(q.files) \in {NumInputs, q.i}
      /\ q.lines[q.i] # Torn /\ e.digest = q.lines[q.i].digest
  BY <1>1, <1>2 DEF Shape, Checking
<1> HIDE DEF e
<1>5. /\ NumInputs <= Len(r.files) /\ r.i - 1 <= Len(r.files) /\ r.i - 1 <= Len(r.lines)
      /\ Len(r.files) \in {NumInputs, r.i - 1}
  BY <1>1, <1>2, <1>4
<1>6. ASSUME NEW k \in 1..NumInputs PROVE r.files[k].path = Inputs[k]
  <2>1. CASE k = q.i
    BY <1>1, <1>4, <2>1 DEF e
  <2>2. CASE k # q.i
    BY <1>1, <1>2, <1>3, <1>4, <2>2
  <2>3. QED
    BY <2>1, <2>2
<1>7. ASSUME NEW k \in 1..Len(r.files)
      PROVE  /\ k < r.i => r.files[k].path # Null /\ r.files[k].digest # Null
             /\ k >= r.i => r.files[k].digest = Null
  <2>1. CASE k = q.i
    BY <1>1, <1>2, <1>3, <2>1
  <2>2. CASE k # q.i
    <3>1. k \in 1..Len(q.files) /\ r.files[k] = q.files[k]
      BY <1>1, <2>2
    <3>2. QED
      BY <1>1, <1>2, <1>4, <2>2, <3>1
  <2>3. QED
    BY <2>1, <2>2
<1>8. Shape(r)
  BY <1>1, <1>4, <1>5, <1>6, <1>7 DEF Shape, Checking, Filling, Building
<1>9. Compared(r)
  <2>1. \A k \in 1..(r.i - 1) : k \in 1..(q.i - 1) \/ k = q.i
    BY <1>1, <1>2
  <2>2. \A k \in 1..(q.i - 1) : k \in 1..Len(q.files) /\ k # q.i /\ k \in 1..(r.i - 1)
    BY <1>1, <1>2
  <2>3. q.i \in 1..(r.i - 1)
    BY <1>1, <1>2
  <2>4. /\ \A k \in 1..(q.i - 1) : q.lines[k] # Torn
        /\ ~q.changed => \A k \in 1..(q.i - 1) : q.files[k].digest = q.lines[k].digest
        /\ q.changed => \E k \in 1..(q.i - 1) : q.files[k].digest # q.lines[k].digest
    BY <1>1, <1>2 DEF Compared, Checking
  <2>5. \A k \in 1..(r.i - 1) : r.lines[k] # Torn
    BY <1>1, <1>4, <2>1, <2>4
  <2>6. ASSUME ~r.changed, NEW k \in 1..(r.i - 1) PROVE r.files[k].digest = r.lines[k].digest
    BY <1>1, <1>4, <2>1, <2>2, <2>4, <2>6
  <2>7. ASSUME r.changed PROVE \E k \in 1..(r.i - 1) : r.files[k].digest # r.lines[k].digest
    <3>1. CASE q.changed
      BY <1>1, <2>2, <2>4, <3>1
    <3>2. CASE d # e.digest
      BY <1>1, <1>4, <2>3, <3>2
    <3>3. QED
      BY <1>1, <2>7, <3>1, <3>2
  <2>8. QED
    BY <2>5, <2>6, <2>7 DEF Compared
<1>10. QED
  BY <1>8, <1>9 DEF r

LEMMA InvalidFormatShape ==
  ASSUME Base, NEW p \in Procs, InvalidFormat(p)
  PROVE  Shape(proc'[p]) /\ Compared(proc'[p])
<1> DEFINE q == proc[p]
           r == proc'[p]
<1>1. /\ q.pc = "check" /\ r.pc = "fill" /\ r.lines = q.lines /\ r.i = q.i
      /\ q.i <= NumInputs => r.files = q.files
      /\ q.i > NumInputs => /\ Len(r.files) = Len(q.files) + 1
                            /\ r.files[Len(q.files) + 1] = Unhashed(Null)
      /\ \A k \in 1..Len(q.files) : r.files[k] = q.files[k]
  BY InvalidFormatStep, FieldTypes, ConstantTypes DEF PastInputs, Base
<1>2. Shape(q) /\ q.i \in Nat \ {0} /\ Len(q.files) \in Nat /\ Len(q.lines) \in Nat
  BY FieldTypes DEF Base, Shaped
<1>3. /\ NumInputs \in Nat \ {0}
      /\ Unhashed(Null).path = Null /\ Unhashed(Null).digest = Null
  BY ConstantTypes DEF Unhashed
<1> HIDE DEF q, r
<1>4. /\ LinesWritten(q.lines) /\ NumInputs <= Len(q.files)
      /\ \A k \in 1..NumInputs : q.files[k].path = Inputs[k]
      /\ \A k \in 1..Len(q.files) :
           /\ k < q.i => q.files[k].path # Null /\ q.files[k].digest # Null
           /\ k >= q.i => q.files[k].digest = Null
      /\ q.i - 1 <= Len(q.files) /\ Len(q.files) \in {NumInputs, q.i - 1}
  BY <1>1, <1>2 DEF Shape, Checking
<1>5. /\ NumInputs <= Len(r.files) /\ r.i - 1 <= Len(r.files)
      /\ \A k \in 1..NumInputs : r.files[k].path = Inputs[k]
  <2>1. NumInputs <= Len(r.files) /\ r.i - 1 <= Len(r.files)
    BY <1>1, <1>2, <1>3, <1>4
  <2>2. \A k \in 1..NumInputs : k \in 1..Len(q.files)
    BY <1>2, <1>3, <1>4
  <2>3. QED
    BY <1>1, <1>4, <2>1, <2>2
<1>6. ASSUME NEW k \in 1..Len(r.files)
      PROVE  /\ k < r.i => r.files[k].path # Null /\ r.files[k].digest # Null
             /\ k >= r.i => r.files[k].digest = Null
             /\ k >= r.i /\ k > NumInputs => r.files[k].path = Null
  <2>1. CASE q.i <= NumInputs
    BY <1>1, <1>2, <1>3, <1>4, <2>1
  <2>2. CASE q.i > NumInputs
    <3>1. Len(q.files) = q.i - 1 /\ Len(r.files) = q.i /\ r.files[q.i] = Unhashed(Null)
      BY <1>1, <1>2, <1>3, <1>4, <2>2
    <3>2. CASE k = q.i
      BY <1>1, <1>2, <1>3, <3>1, <3>2
    <3>3. CASE k # q.i
      <4>1. k \in 1..Len(q.files) /\ k < q.i
        BY <1>2, <3>1, <3>3
      <4>2. QED
        BY <1>1, <1>2, <1>4, <4>1
    <3>4. QED
      BY <3>2, <3>3
  <2>3. QED
    BY <1>2, <1>3, <2>1, <2>2
<1>7. Shape(r)
  BY <1>1, <1>2, <1>4, <1>5, <1>6 DEF Shape, Checking, Filling, Building
<1>8. Compared(r)
  BY <1>1 DEF Compared, Checking
<1>9. QED
  BY <1>7, <1>8 DEF r

LEMMA MissingShape ==
  ASSUME Base, NEW p \in Procs, Missing(p)
  PROVE  /\ Shape(proc'[p]) /\ Compared(proc'[p])
         /\ Only(p) /\ SameBuild(p) /\ proc[p].pc = "check" /\ proc[p].i <= NumInputs
         /\ Len(proc[p].files) = NumInputs /\ ~HasLine(p)
         /\ proc'[p].pc = "fill" /\ proc'[p].lines = proc[p].lines /\ proc'[p].i = proc[p].i
         /\ proc'[p].changed = proc[p].changed
         /\ proc'[p].files = proc[p].files /\ proc'[p].hash = proc[p].hash
<1> DEFINE q == proc[p]
           r == proc'[p]
<1>1. /\ q.pc = "check" /\ ~HasLine(p) /\ (~(q.i > NumInputs) \/ q.i = 1)
      /\ proc' = [proc EXCEPT ![p] = [proc[p] EXCEPT !.dirty = TRUE, !.pc = "fill"]]
  BY DEF Missing, PastInputs
<1>2. /\ Only(p) /\ SameBuild(p)
      /\ r.pc = "fill" /\ r.lines = q.lines /\ r.i = q.i /\ r.changed = q.changed
      /\ r.files = q.files /\ r.hash = q.hash
  <2>1. "fill" \in Places /\ TRUE \in BOOLEAN
    BY DEF Places
  <2>2. QED
    BY <1>1, <2>1, PcStep
<1>3. Shape(q) /\ q.i \in Nat \ {0} /\ Len(q.files) \in Nat
  BY FieldTypes DEF Base, Shaped
<1>4. NumInputs \in Nat \ {0}
  BY ConstantTypes
<1> HIDE DEF q, r
<1>5. /\ LinesWritten(q.lines) /\ NumInputs <= Len(q.files)
      /\ \A k \in 1..NumInputs : q.files[k].path = Inputs[k]
      /\ \A k \in 1..Len(q.files) :
           /\ k < q.i => q.files[k].path # Null /\ q.files[k].digest # Null
           /\ k >= q.i => q.files[k].digest = Null
      /\ q.i - 1 <= Len(q.files) /\ Len(q.files) \in {NumInputs, q.i - 1}
  BY <1>1, <1>3 DEF Shape, Checking
<1>6. q.i <= NumInputs /\ Len(q.files) = NumInputs
  BY <1>1, <1>3, <1>4, <1>5
<1>7. \A k \in 1..Len(q.files) : k >= q.i /\ k > NumInputs => q.files[k].path = Null
  BY <1>4, <1>6
<1>8. Shape(r)
  BY <1>2, <1>3, <1>5, <1>6, <1>7 DEF Shape, Checking, Filling, Building
<1>9. Compared(r)
  BY <1>2 DEF Compared, Checking
<1>10. QED
  BY <1>1, <1>2, <1>6, <1>8, <1>9 DEF q, r

LEMMA MissShape ==
  ASSUME Base, NEW p \in Procs, Miss(p)
  PROVE  Shape(proc'[p]) /\ Compared(proc'[p])
<1> DEFINE q == proc[p]
           r == proc'[p]
<1>1. /\ q.pc = "check" /\ q.i > NumInputs /\ r.pc = "build" /\ r.lines = q.lines
      /\ Len(r.files) = NumInputs /\ NumInputs <= Len(q.files)
      /\ \A k \in 1..NumInputs : r.files[k] = q.files[k]
  BY MissStep
<1>2. Shape(q) /\ q.i \in Nat \ {0} /\ Len(q.files) \in Nat
  BY FieldTypes DEF Base, Shaped
<1>3. NumInputs \in Nat \ {0}
  BY ConstantTypes
<1> HIDE DEF q, r
<1>4. /\ LinesWritten(q.lines)
      /\ \A k \in 1..NumInputs : q.files[k].path = Inputs[k]
      /\ \A k \in 1..Len(q.files) : k < q.i => q.files[k].digest # Null
  BY <1>1, <1>2 DEF Shape, Checking
<1>5. \A k \in 1..Len(r.files) : r.files[k].digest # Null
  BY <1>1, <1>2, <1>3, <1>4
<1>6. Shape(r)
  BY <1>1, <1>3, <1>4, <1>5 DEF Shape, Checking, Filling, Building
<1>7. Compared(r)
  BY <1>1 DEF Compared, Checking
<1>8. QED
  BY <1>6, <1>7 DEF r

\* The manifest is at its end and every file is as it says.
LEMMA HitShape ==
  ASSUME Base, NEW p \in Procs, Hit(p)
  PROVE  /\ Shape(proc'[p]) /\ Compared(proc'[p])
         /\ Only(p) /\ SameBuild(p) /\ proc[p].pc = "check" /\ ~proc[p].changed
         /\ Len(proc[p].files) = proc[p].i - 1 /\ Len(proc[p].lines) = proc[p].i - 1
         /\ proc[p].i > NumInputs
         /\ proc'[p].pc = "use" /\ proc'[p].lines = proc[p].lines /\ proc'[p].i = proc[p].i
         /\ proc'[p].files = proc[p].files /\ proc'[p].hash = proc[p].hash
<1> DEFINE q == proc[p]
           r == proc'[p]
<1>1. /\ q.pc = "check" /\ ~(q.i <= Len(q.lines)) /\ q.i > NumInputs /\ ~q.changed
      /\ proc' = [proc EXCEPT ![p].pc = "use"]
  BY DEF Hit, PastInputs, Stops, HasLine
<1>2. /\ Only(p) /\ SameBuild(p)
      /\ r.pc = "use" /\ r.lines = q.lines /\ r.i = q.i
      /\ r.files = q.files /\ r.hash = q.hash
  <2>1. "use" \in Places
    BY DEF Places
  <2>2. QED
    BY <1>1, <2>1, SetPc
<1>3. Shape(q) /\ q.i \in Nat \ {0} /\ Len(q.files) \in Nat /\ Len(q.lines) \in Nat
  BY FieldTypes DEF Base, Shaped
<1>4. NumInputs \in Nat \ {0}
  BY ConstantTypes
<1> HIDE DEF q, r
<1>5. /\ LinesWritten(q.lines) /\ NumInputs <= Len(q.files)
      /\ \A k \in 1..NumInputs : q.files[k].path = Inputs[k]
      /\ \A k \in 1..Len(q.files) : k < q.i => q.files[k].digest # Null
      /\ q.i - 1 <= Len(q.files) /\ Len(q.files) \in {NumInputs, q.i - 1}
      /\ q.i - 1 <= Len(q.lines)
  BY <1>1, <1>3 DEF Shape, Checking
<1>6. Len(q.files) = q.i - 1 /\ Len(q.lines) = q.i - 1
  BY <1>1, <1>3, <1>4, <1>5
<1>7. \A k \in 1..Len(q.files) : q.files[k].digest # Null
  BY <1>3, <1>5, <1>6
<1>8. Shape(r)
  BY <1>2, <1>5, <1>7 DEF Shape, Checking, Filling, Building
<1>9. Compared(r)
  BY <1>2 DEF Compared, Checking
<1>10. QED
  BY <1>1, <1>2, <1>6, <1>8, <1>9 DEF q, r

LEMMA FilledShape ==
  ASSUME Base, NEW p \in Procs, FillOpen(p), PastInputs(p)
  PROVE  /\ Shape(proc'[p]) /\ Compared(proc'[p])
         /\ Only(p) /\ SameBuild(p) /\ proc[p].pc = "fill" /\ proc[p].i > NumInputs
         /\ proc'[p].pc = "build" /\ proc'[p].lines = proc[p].lines /\ proc'[p].i = proc[p].i
         /\ proc'[p].files = proc[p].files /\ proc'[p].hash = proc[p].hash
<1> DEFINE q == proc[p]
           r == proc'[p]
<1>1. q.pc = "fill" /\ q.i > NumInputs /\ proc' = [proc EXCEPT ![p].pc = "build"]
  BY DEF FillOpen, PastInputs
<1>2. /\ Only(p) /\ SameBuild(p)
      /\ r.pc = "build" /\ r.lines = q.lines /\ r.i = q.i
      /\ r.files = q.files /\ r.hash = q.hash
  <2>1. "build" \in Places
    BY DEF Places
  <2>2. QED
    BY <1>1, <2>1, SetPc
<1>3. Shape(q) /\ q.i \in Nat \ {0} /\ Len(q.files) \in Nat
  BY FieldTypes DEF Base, Shaped
<1>4. NumInputs \in Nat \ {0}
  BY ConstantTypes
<1> HIDE DEF q, r
<1>5. /\ LinesWritten(q.lines) /\ NumInputs <= Len(q.files)
      /\ \A k \in 1..NumInputs : q.files[k].path = Inputs[k]
      /\ \A k \in 1..Len(q.files) : k < q.i => q.files[k].digest # Null
      /\ \A k \in 1..Len(q.files) : k >= q.i /\ k > NumInputs => q.files[k].path = Null
  BY <1>1, <1>3 DEF Shape, Filling
<1>6. \A k \in 1..Len(q.files) : q.files[k].digest = Null => q.files[k].path = Null
  BY <1>1, <1>3, <1>4, <1>5
<1>7. Shape(r)
  BY <1>2, <1>5, <1>6 DEF Shape, Checking, Filling, Building
<1>8. Compared(r)
  BY <1>2 DEF Compared, Checking
<1>9. QED
  BY <1>1, <1>2, <1>7, <1>8 DEF q, r

LEMMA FillOpenShape ==
  ASSUME Base, NEW p \in Procs, FillOpen(p), ~PastInputs(p)
  PROVE  Shape(proc'[p]) /\ Compared(proc'[p])
<1> DEFINE q == proc[p]
           r == proc'[p]
           e == q.files[q.i]
<1>1. /\ q.pc = "fill" /\ q.i \in 1..NumInputs /\ q.i \in 1..Len(q.files)
      /\ r.pc = "fillhash" /\ r.lines = q.lines /\ r.i = q.i /\ Len(r.files) = Len(q.files)
      /\ r.files[q.i].path = e.path /\ r.files[q.i].digest = e.digest
      /\ \A k \in 1..Len(q.files) : k # q.i => r.files[k] = q.files[k]
  BY FillOpenStep
<1>2. Shape(q) /\ q.i \in Nat \ {0} /\ Len(q.files) \in Nat
  BY FieldTypes DEF Base, Shaped
<1>3. NumInputs \in Nat \ {0}
  BY ConstantTypes
<1> HIDE DEF q, r
<1>4. /\ LinesWritten(q.lines) /\ NumInputs <= Len(q.files)
      /\ \A k \in 1..NumInputs : q.files[k].path = Inputs[k]
      /\ \A k \in 1..Len(q.files) :
           /\ k < q.i => q.files[k].path # Null /\ q.files[k].digest # Null
           /\ k >= q.i => q.files[k].digest = Null
           /\ k >= q.i /\ k > NumInputs => q.files[k].path = Null
      /\ q.i - 1 <= Len(q.files)
  BY <1>1, <1>2 DEF Shape, Filling
<1>5. \A k \in 1..Len(q.files) : /\ r.files[k].path = q.files[k].path
                                 /\ r.files[k].digest = q.files[k].digest
  <2> HIDE DEF e
  <2>1. SUFFICES ASSUME NEW k \in 1..Len(q.files)
                 PROVE  r.files[k].path = q.files[k].path /\ r.files[k].digest = q.files[k].digest
    OBVIOUS
  <2>2. CASE k = q.i
    BY <1>1, <2>2 DEF e
  <2>3. CASE k # q.i
    BY <1>1, <2>3
  <2>4. QED
    BY <2>2, <2>3
<1> HIDE DEF e
<1>6. \A k \in 1..NumInputs : r.files[k].path = Inputs[k]
  <2>1. \A k \in 1..NumInputs : k \in 1..Len(q.files)
    BY <1>2, <1>3, <1>4
  <2>2. QED
    BY <1>4, <1>5, <2>1
<1>7. /\ \A k \in 1..Len(r.files) :
           /\ k < r.i => r.files[k].path # Null /\ r.files[k].digest # Null
           /\ k >= r.i => r.files[k].digest = Null
           /\ k > r.i => r.files[k].digest = Null
           /\ k >= r.i /\ k > NumInputs => r.files[k].path = Null
      /\ r.i <= NumInputs /\ NumInputs <= Len(r.files) /\ r.i - 1 <= Len(r.files)
  BY <1>1, <1>2, <1>3, <1>4, <1>5
<1>8. Shape(r)
  BY <1>1, <1>4, <1>6, <1>7 DEF Shape, Checking, Filling, Building
<1>9. Compared(r)
  BY <1>1 DEF Compared, Checking
<1>10. QED
  BY <1>8, <1>9 DEF r

LEMMA FillHashShape ==
  ASSUME Base, NEW p \in Procs, FillHash(p)
  PROVE  Shape(proc'[p]) /\ Compared(proc'[p])
<1> DEFINE q == proc[p]
           r == proc'[p]
           d == hash_file(q)
<1>1. /\ q.pc = "fillhash" /\ q.i \in 1..NumInputs /\ q.i \in 1..Len(q.files) /\ d \in Contents
      /\ r.pc = "fill" /\ r.lines = q.lines /\ r.i = q.i + 1 /\ Len(r.files) = Len(q.files)
      /\ r.files[q.i].path = Inputs[q.i] /\ r.files[q.i].digest = d
      /\ \A k \in 1..Len(q.files) : k # q.i => r.files[k] = q.files[k]
  BY FillHashStep
<1>2. Shape(q) /\ q.i \in Nat \ {0} /\ Len(q.files) \in Nat
  BY FieldTypes DEF Base, Shaped
<1>3. NumInputs \in Nat \ {0} /\ d # Null /\ Inputs[q.i] # Null
  BY <1>1, ConstantTypes
<1> HIDE DEF q, r, d
<1>4. /\ LinesWritten(q.lines) /\ NumInputs <= Len(q.files)
      /\ \A k \in 1..NumInputs : q.files[k].path = Inputs[k]
      /\ \A k \in 1..Len(q.files) :
           /\ k < q.i => q.files[k].path # Null /\ q.files[k].digest # Null
           /\ k >= q.i => q.files[k].digest = Null
           /\ k >= q.i /\ k > NumInputs => q.files[k].path = Null
  BY <1>1, <1>2 DEF Shape, Filling
<1>5. ASSUME NEW k \in 1..NumInputs PROVE r.files[k].path = Inputs[k]
  <2>1. CASE k = q.i
    BY <1>1, <2>1
  <2>2. CASE k # q.i
    <3>1. k \in 1..Len(q.files)
      BY <1>2, <1>3, <1>4
    <3>2. QED
      BY <1>1, <1>4, <2>2, <3>1
  <2>3. QED
    BY <2>1, <2>2
<1>6. ASSUME NEW k \in 1..Len(r.files)
      PROVE  /\ k < r.i => r.files[k].path # Null /\ r.files[k].digest # Null
             /\ k >= r.i => r.files[k].digest = Null
             /\ k > r.i => r.files[k].digest = Null
             /\ k >= r.i /\ k > NumInputs => r.files[k].path = Null
  <2>1. CASE k = q.i
    BY <1>1, <1>2, <1>3, <2>1
  <2>2. CASE k # q.i
    <3>1. k \in 1..Len(q.files) /\ r.files[k] = q.files[k]
      BY <1>1, <2>2
    <3>2. QED
      BY <1>1, <1>2, <1>3, <1>4, <2>2, <3>1
  <2>3. QED
    BY <2>1, <2>2
<1>7. NumInputs <= Len(r.files) /\ r.i - 1 <= Len(r.files)
  BY <1>1, <1>2, <1>4
<1>8. Shape(r)
  BY <1>1, <1>4, <1>5, <1>6, <1>7 DEF Shape, Checking, Filling, Building
<1>9. Compared(r)
  BY <1>1 DEF Compared, Checking
<1>10. QED
  BY <1>8, <1>9 DEF r

LEMMA CompileShape ==
  ASSUME Base, NEW p \in Procs, Compile(p)
  PROVE  Shape(proc'[p]) /\ Compared(proc'[p])
<1> DEFINE q == proc[p]
           r == proc'[p]
<1>1. q.pc = "build" /\ r.pc = "add" /\ r.lines = q.lines /\ r.files = q.files
  BY CompileStep
<1>2. Shape(q)
  BY DEF Base, Shaped
<1> HIDE DEF q, r
<1>3. Shape(r) /\ Compared(r)
  BY <1>1, <1>2 DEF Shape, Compared, Checking, Filling, Building
<1>4. QED
  BY <1>3 DEF r

LEMMA AddOpenShape ==
  ASSUME Base, NEW p \in Procs, AddOpen(p)
  PROVE  Shape(proc'[p]) /\ Compared(proc'[p])
<1> DEFINE q == proc[p]
           r == proc'[p]
           f == Head(q.todo)
           n == Len(q.files) + 1
<1>1. /\ q.pc = "add" /\ q.todo # <<>> /\ r.pc = "addhash" /\ r.lines = q.lines
      /\ r.todo = q.todo /\ Len(r.files) = n
      /\ r.files[n].path = f /\ r.files[n].digest = Null
      /\ \A k \in 1..Len(q.files) : r.files[k] = q.files[k]
  BY AddOpenStep DEF SameBuild
<1>2. Shape(q) /\ Len(q.files) \in Nat
  BY FieldTypes DEF Base, Shaped
<1>3. NumInputs \in Nat \ {0}
  BY ConstantTypes
<1> HIDE DEF q, r
<1>4. /\ LinesWritten(q.lines) /\ NumInputs <= Len(q.files)
      /\ \A k \in 1..NumInputs : q.files[k].path = Inputs[k]
      /\ \A k \in 1..Len(q.files) : q.files[k].digest = Null => q.files[k].path = Null
  BY <1>1, <1>2 DEF Shape, Building
<1>5. \A k \in 1..NumInputs : r.files[k].path = Inputs[k]
  <2>1. \A k \in 1..NumInputs : k \in 1..Len(q.files)
    BY <1>2, <1>3, <1>4
  <2>2. QED
    BY <1>1, <1>4, <2>1
<1>6. \A k \in 1..Len(r.files) : k \in 1..Len(q.files) \/ k = n
  BY <1>1, <1>2
<1>7. \A k \in 1..Len(r.files) :
        r.files[k].digest = Null => r.files[k].path = Null \/ k = Len(r.files)
  BY <1>1, <1>4, <1>6
<1>8. NumInputs <= Len(r.files) /\ Len(r.files) > NumInputs
  BY <1>1, <1>2, <1>3, <1>4
<1> HIDE DEF f, n
<1>9. r.files[Len(r.files)].path = Head(r.todo) /\ r.files[Len(r.files)].digest = Null
  BY <1>1 DEF f
<1>10. Shape(r)
  BY <1>1, <1>4, <1>5, <1>7, <1>8, <1>9 DEF Shape, Checking, Filling, Building
<1>11. Compared(r)
  BY <1>1 DEF Compared, Checking
<1>12. QED
  BY <1>10, <1>11 DEF r

LEMMA AddHashShape ==
  ASSUME Base, NEW p \in Procs, AddHash(p)
  PROVE  Shape(proc'[p]) /\ Compared(proc'[p])
<1> DEFINE q == proc[p]
           r == proc'[p]
           n == Len(q.files)
           d == hash_file(q)
<1>1. /\ q.pc = "addhash" /\ d \in Contents /\ n > NumInputs /\ q.files[n].path = Head(q.todo)
      /\ r.pc = "add" /\ r.lines = q.lines /\ Len(r.files) = n
      /\ r.files[n].path = Head(q.todo) /\ r.files[n].digest = d
      /\ \A k \in 1..(n - 1) : r.files[k] = q.files[k]
  BY AddHashStep
<1>2. Shape(q) /\ n \in Nat
  BY FieldTypes DEF Base, Shaped
<1>3. NumInputs \in Nat \ {0} /\ d # Null
  BY <1>1, ConstantTypes
<1> HIDE DEF q, r, d
<1>4. /\ LinesWritten(q.lines) /\ NumInputs <= n
      /\ \A k \in 1..NumInputs : q.files[k].path = Inputs[k]
      /\ \A k \in 1..n : q.files[k].digest = Null => q.files[k].path = Null \/ k = n
  BY <1>1, <1>2 DEF Shape, Building
<1> HIDE DEF n
<1>5. \A k \in 1..NumInputs : r.files[k].path = Inputs[k]
  <2>1. \A k \in 1..NumInputs : k \in 1..(n - 1)
    BY <1>1, <1>2, <1>3
  <2>2. QED
    BY <1>1, <1>4, <2>1
<1>6. ASSUME NEW k \in 1..Len(r.files) PROVE r.files[k].digest = Null => r.files[k].path = Null
  <2>1. CASE k = n
    BY <1>1, <1>3, <2>1
  <2>2. CASE k # n
    <3>1. k \in 1..(n - 1) /\ k \in 1..n
      BY <1>1, <1>2, <2>2
    <3>2. QED
      BY <1>1, <1>4, <2>2, <3>1
  <2>3. QED
    BY <2>1, <2>2
<1>7. Shape(r)
  BY <1>1, <1>4, <1>5, <1>6 DEF Shape, Checking, Filling, Building
<1>8. Compared(r)
  BY <1>1 DEF Compared, Checking
<1>9. QED
  BY <1>7, <1>8 DEF r

LEMMA FinalShape ==
  ASSUME Base, NEW p \in Procs, Final(p)
  PROVE  /\ Shape(proc'[p]) /\ Compared(proc'[p])
         /\ Only(p) /\ SameBuild(p) /\ proc[p].pc = "add" /\ proc[p].todo = <<>>
         /\ proc'[p].pc = "use" /\ proc'[p].lines = proc[p].lines
         /\ proc'[p].files = proc[p].files /\ proc'[p].hash = proc[p].hash
<1> DEFINE q == proc[p]
           r == proc'[p]
<1>1. q.pc = "add" /\ q.todo = <<>> /\ proc' = [proc EXCEPT ![p].pc = "use"]
  BY DEF Final
<1>2. /\ Only(p) /\ SameBuild(p)
      /\ r.pc = "use" /\ r.lines = q.lines /\ r.files = q.files /\ r.hash = q.hash
  <2>1. "use" \in Places
    BY DEF Places
  <2>2. QED
    BY <1>1, <2>1, SetPc
<1>3. Shape(q)
  BY DEF Base, Shaped
<1> HIDE DEF q, r
<1>4. Shape(r) /\ Compared(r)
  BY <1>1, <1>2, <1>3 DEF Shape, Compared, Checking, Filling, Building
<1>5. QED
  BY <1>1, <1>2, <1>4 DEF q, r

\* cache_release truncates the manifest.
LEMMA TruncateShape ==
  ASSUME Base, NEW p \in Procs, cache_release(p), ~Exit(p)
  PROVE  /\ Shape(proc'[p]) /\ Compared(proc'[p])
         /\ Only(p) /\ SameBuild(p) /\ proc[p].pc = "use" /\ manifest' = <<>> /\ lock' = lock
         /\ proc'[p].pc = "write" /\ proc'[p].lines = proc[p].lines
         /\ proc'[p].files = proc[p].files /\ proc'[p].hash = proc[p].hash
<1> DEFINE q == proc[p]
           r == proc'[p]
<1>1. /\ q.pc = "use" /\ proc' = [proc EXCEPT ![p].pc = "write"] /\ manifest' = <<>>
      /\ lock' = lock /\ \A k \in 1..Len(q.files) : q.files[k].path # Null
  BY DEF cache_release
<1>2. /\ Only(p) /\ SameBuild(p)
      /\ r.pc = "write" /\ r.lines = q.lines /\ r.files = q.files /\ r.hash = q.hash
  <2>1. "write" \in Places
    BY DEF Places
  <2>2. QED
    BY <1>1, <2>1, SetPc
<1>3. Shape(q)
  BY DEF Base, Shaped
<1> HIDE DEF q, r
<1>4. Shape(r) /\ Compared(r)
  BY <1>1, <1>2, <1>3 DEF Shape, Compared, Checking, Filling, Building
<1>5. QED
  BY <1>1, <1>2, <1>4 DEF q, r

LEMMA IdleShape ==
  /\ Shape(cache_init) /\ Compared(cache_init) /\ cache_init.pc = "idle"
  /\ LinesWritten(<<>>)
<1>1. LinesWritten(<<>>)
  BY DEF LinesWritten
<1>2. cache_init.pc = "idle" /\ cache_init.lines = <<>>
  BY DEF cache_init
<1>3. QED
  BY <1>1, <1>2 DEF Shape, Compared, Checking, Filling, Building

LEMMA OpenedShape ==
  ASSUME Base
  PROVE  Shape(Opened) /\ Compared(Opened)
<1> DEFINE r == Opened
<1>1. /\ r.pc = "check" /\ r.lines = manifest /\ r.i = 1 /\ ~r.changed
      /\ Len(r.files) = NumInputs
      /\ \A k \in 1..NumInputs : r.files[k] = Unhashed(Inputs[k])
  BY OpenedType DEF Base
<1>2. LinesWritten(manifest) /\ Len(manifest) \in Nat
  BY DEF Base, Shaped, Types
<1>3. NumInputs \in Nat \ {0}
  BY ConstantTypes
<1> HIDE DEF r
<1>4. \A k \in 1..NumInputs : r.files[k].path = Inputs[k] /\ r.files[k].digest = Null
  <2>1. \A f : Unhashed(f).path = f /\ Unhashed(f).digest = Null
    BY DEF Unhashed
  <2>2. QED
    BY <1>1, <2>1
<1>5. Shape(r)
  BY <1>1, <1>2, <1>3, <1>4 DEF Shape, Checking, Filling, Building
<1>6. Compared(r)
  BY <1>1 DEF Compared
<1>7. QED
  BY <1>5, <1>6 DEF r

\* A write that is cut short leaves the first lines as they were to be.
LEMMA WrittenProperties ==
  ASSUME NEW es \in Seq(Entries), NEW m \in Written(es)
  PROVE  /\ m \in Seq(Entries \cup {Torn}) /\ Len(m) \in Nat
         /\ \A k \in 1..Len(m) : m[k] # Torn => k \in 1..Len(es) /\ m[k] = es[k]
         /\ Cuts \subseteq {0} => m = es \/ m = <<>> \/ m = <<Torn>>
<1> DEFINE L == Entries \cup {Torn}
<1>1. Len(es) \in Nat /\ \A k \in 1..Len(es) : es[k] \in L
  BY ElementOfSeq
<1>2. es \in Seq(L)
  <2>1. es \in [1..Len(es) -> L]
    BY <1>1, LenProperties
  <2>2. QED
    BY <1>1, <2>1, FunctionIsSeq
<1>3. CASE m = es
  BY <1>1, <1>2, <1>3
<1>4. ASSUME NEW c \in Cuts, c < Len(es)
      PROVE  LET s == SubSeq(es, 1, c) IN
             /\ s \in Seq(L) /\ Len(s) = c /\ c \in Nat
             /\ \A k \in 1..c : k \in 1..Len(es) /\ s[k] = es[k]
  <2>1. c \in Nat
    BY CacheAssumption
  <2>2. \A k \in 1..c : k \in 1..Len(es)
    BY <1>1, <1>4, <2>1
  <2>3. QED
    BY <1>1, <1>2, <2>1, <2>2, SubSeqProperties
<1>5. ASSUME Cuts \subseteq {0}, NEW c \in Cuts, c < Len(es) PROVE SubSeq(es, 1, c) = <<>>
  <2>1. SubSeq(es, 1, c) \in Seq(L) /\ Len(SubSeq(es, 1, c)) = 0
    BY <1>4, <1>5
  <2>2. QED
    BY <2>1, EmptySeq
<1>6. CASE \E c \in Cuts : c < Len(es) /\ m = SubSeq(es, 1, c)
  BY <1>4, <1>5, <1>6
<1>7. CASE \E c \in Cuts : c < Len(es) /\ m = Append(SubSeq(es, 1, c), Torn)
  <2>1. PICK c \in Cuts : c < Len(es) /\ m = Append(SubSeq(es, 1, c), Torn)
    BY <1>7
  <2> DEFINE s == SubSeq(es, 1, c)
  <2>2. /\ s \in Seq(L) /\ Len(s) = c /\ c \in Nat
        /\ \A k \in 1..c : k \in 1..Len(es) /\ s[k] = es[k]
    BY <1>4, <2>1
  <2>3. Cuts \subseteq {0} => s = <<>>
    BY <1>5, <2>1
  <2>4. m = Append(s, Torn)
    BY <2>1
  <2> HIDE DEF s
  <2>5. /\ m \in Seq(L) /\ Len(m) = c + 1 /\ m[c + 1] = Torn
        /\ \A k \in 1..c : m[k] = s[k]
    BY <2>2, <2>4, AppendProperties
  <2>6. ASSUME Cuts \subseteq {0} PROVE m = <<Torn>>
    <3>1. c = 0
      BY <2>1, <2>6
    <3>2. Len(m) = 1 /\ m[1] = Torn
      BY <2>5, <3>1
    <3>3. <<Torn>> \in Seq(L) /\ Len(<<Torn>>) = 1 /\ <<Torn>>[1] = Torn
      OBVIOUS
    <3>4. \A k \in 1..Len(m) : m[k] = <<Torn>>[k]
      BY <3>2, <3>3
    <3>5. QED
      BY <2>5, <3>2, <3>3, <3>4, SeqEqual
  <2>7. \A k \in 1..Len(m) : k \in 1..c \/ k = c + 1
    BY <2>2, <2>5
  <2>8. QED
    BY <2>2, <2>5, <2>6, <2>7
<1>8. QED
  BY <1>3, <1>6, <1>7 DEF Written

\* The manifest is written from complete entries.
LEMMA WriteLines ==
  ASSUME Base, NEW p \in Procs, WriteManifest(p)
  PROVE  manifest' \in Seq(Entries \cup {Torn}) /\ LinesWritten(manifest')
<1> DEFINE es == proc[p].files
           m == manifest'
<1>1. es \in Seq(Entries) /\ Len(es) \in Nat /\ Shape(proc[p])
  BY FieldTypes DEF Base, Shaped
<1>2. proc[p].pc = "write" /\ m \in Written(es)
  BY DEF WriteManifest
<1>3. /\ \A k \in 1..Len(es) : es[k].path # Null /\ es[k].digest # Null
      /\ \A k \in 1..NumInputs : es[k].path = Inputs[k]
  BY <1>1, <1>2 DEF Shape, Building
<1> HIDE DEF es, m
<1>4. /\ m \in Seq(Entries \cup {Torn}) /\ Len(m) \in Nat
      /\ \A k \in 1..Len(m) : m[k] # Torn => k \in 1..Len(es) /\ m[k] = es[k]
  BY <1>1, <1>2, WrittenProperties
<1>5. LinesWritten(m)
  BY <1>3, <1>4, ConstantTypes DEF LinesWritten
<1>6. QED
  BY <1>4, <1>5 DEF m

\* The world outside changes the files and the clock, and no process moves.
Outside ==
  \/ \E f \in Files, c \in Contents : Edit(f, c)
  \/ \E f \in Files, c \in Contents, t \in Stamps : Replace(f, c, t)
  \/ Tick

\* What the types of the files and the clock need.
LEMMA OutsideTypes ==
  ASSUME Types, Outside
  PROVE  /\ Types' /\ manifest' = manifest /\ lock' = lock
         /\ artifacts' = artifacts /\ tainted' = tainted
         /\ \A p \in Procs :
              LET q == proc[p]  r == proc'[p] IN
              /\ r.pc = q.pc /\ r.lines = q.lines /\ r.i = q.i /\ r.changed = q.changed
              /\ r.files = q.files /\ r.hash = q.hash /\ r.todo = q.todo /\ r.built = q.built
<1>1. now \in Nat /\ MaxTime \in Nat /\ MaxInode \in Nat /\ MaxEdits \in Nat
  BY CacheAssumption DEF Types
<1>2. Stamp \in 0..MaxTime
  BY <1>1, StampType DEF Types
<1>3. CASE Tick
  <2>1. now' \in 1..MaxTime
    BY <1>1, <1>3 DEF Tick, Types
  <2>2. QED
    BY <1>3, <2>1 DEF Tick, Types
<1>4. ASSUME NEW f \in Files, NEW c \in Contents, Edit(f, c)
      PROVE  disk' \in [Files -> [content : Contents, attr : Attrs]]
  <2>1. disk[f] \in [content : Contents, attr : Attrs]
    BY DEF Types
  <2> DEFINE g == [disk[f] EXCEPT !.content = c, !.attr.mtime = Stamp]
  <2>2. g \in [content : Contents, attr : Attrs]
    BY <1>2, <2>1 DEF Attrs
  <2>3. disk' = [disk EXCEPT ![f] = g]
    BY <1>4, <2>1 DEF Edit, Types
  <2> HIDE DEF g
  <2>4. QED
    BY <2>2, <2>3 DEF Types
<1>5. ASSUME NEW f \in Files, NEW c \in Contents, NEW t \in Stamps, Replace(f, c, t)
      PROVE  disk' \in [Files -> [content : Contents, attr : Attrs]]
  <2>1. disk[f] \in [content : Contents, attr : Attrs]
    BY DEF Types
  <2>2. t \in 0..MaxTime
    BY <1>1, <1>2 DEF Stamps
  <2>3. disk[f].attr.inode + 1 \in 0..MaxInode
    <3>1. disk[f].attr.inode < MaxInode
      BY <1>5 DEF Replace
    <3>2. disk[f].attr.inode \in Nat
      BY <2>1 DEF Attrs
    <3>3. QED
      BY <1>1, <3>1, <3>2
  <2> DEFINE n == disk[f].attr.inode + 1
             g == [disk[f] EXCEPT !.content = c, !.attr.mtime = t, !.attr.inode = n]
  <2>4. disk' = [disk EXCEPT ![f] = g]
    BY <1>5, <2>1 DEF Replace, Types
  <2>5. n \in 0..MaxInode
    BY <2>3
  <2> HIDE DEF n
  <2>6. g \in [content : Contents, attr : Attrs]
    BY <2>1, <2>2, <2>5 DEF Attrs
  <2> HIDE DEF g
  <2>7. QED
    BY <2>4, <2>6 DEF Types
<1>6. ASSUME NEW f \in Files, NEW c \in Contents, Edit(f, c) PROVE edits' \in 0..MaxEdits
  BY <1>1, <1>6 DEF Edit, Types
<1>7. ASSUME NEW f \in Files, NEW c \in Contents, NEW t \in Stamps, Replace(f, c, t)
      PROVE  edits' \in 0..MaxEdits
  <2>1. edits < MaxEdits /\ edits' = edits + 1
    BY <1>7 DEF Replace
  <2>2. QED
    BY <1>1, <2>1 DEF Types
<1>8. CASE \E f \in Files, c \in Contents : Edit(f, c)
  <2>1. PICK f \in Files, c \in Contents : Edit(f, c)
    BY <1>8
  <2>2. /\ Touched(f) /\ now' = now /\ manifest' = manifest /\ lock' = lock
        /\ artifacts' = artifacts /\ tainted' = tainted
    BY <2>1 DEF Edit, Touched
  <2>3. disk' \in [Files -> [content : Contents, attr : Attrs]] /\ edits' \in 0..MaxEdits
    BY <1>4, <1>6, <2>1
  <2>4. QED
    BY <2>2, <2>3, TouchedStep DEF Types
<1>9. CASE \E f \in Files, c \in Contents, t \in Stamps : Replace(f, c, t)
  <2>1. PICK f \in Files, c \in Contents, t \in Stamps : Replace(f, c, t)
    BY <1>9
  <2>2. /\ Touched(f) /\ now' = now /\ manifest' = manifest /\ lock' = lock
        /\ artifacts' = artifacts /\ tainted' = tainted
    BY <2>1 DEF Replace, Touched
  <2>3. disk' \in [Files -> [content : Contents, attr : Attrs]] /\ edits' \in 0..MaxEdits
    BY <1>5, <1>7, <2>1
  <2>4. QED
    BY <2>2, <2>3, TouchedStep DEF Types
<1>10. QED
  BY <1>3, <1>8, <1>9 DEF Outside

LEMMA OutsideBase ==
  ASSUME Base, Outside
  PROVE  Base'
<1>1. /\ Types' /\ manifest' = manifest /\ lock' = lock
      /\ \A p \in Procs :
           LET q == proc[p]  r == proc'[p] IN
           /\ r.pc = q.pc /\ r.lines = q.lines /\ r.i = q.i /\ r.changed = q.changed
           /\ r.files = q.files /\ r.todo = q.todo
  BY OutsideTypes DEF Base
<1>2. Locked'
  BY <1>1 DEF Base, Locked
<1>3. LinesWritten(manifest')
  BY <1>1 DEF Base, Shaped
<1>4. ASSUME NEW p \in Procs PROVE Shape(proc'[p]) /\ Compared(proc'[p])
  <2>1. Shape(proc[p]) /\ Compared(proc[p])
    BY DEF Base, Shaped
  <2> DEFINE q == proc[p]
             r == proc'[p]
  <2>2. /\ r.pc = q.pc /\ r.lines = q.lines /\ r.i = q.i /\ r.changed = q.changed
        /\ r.files = q.files /\ r.todo = q.todo
    BY <1>1
  <2> HIDE DEF q, r
  <2>3. Shape(q) => Shape(r)
    BY ONLY <2>2 DEF Shape
  <2>4. Compared(q) => Compared(r)
    BY ONLY <2>2 DEF Compared
  <2>5. QED
    BY <2>1, <2>3, <2>4 DEF q, r
<1>5. Shaped'
  BY <1>3, <1>4 DEF Shaped
<1>6. QED
  BY <1>1, <1>2, <1>5 DEF Base

\* A step of one process keeps the types, the lock and the shape when it keeps
\* those of its own record.
LEMMA Stepped ==
  ASSUME Base, NEW p \in Procs, Only(p), Shape(proc'[p]), Compared(proc'[p]),
         UNCHANGED world,
         manifest' \in Seq(Entries \cup {Torn}), LinesWritten(manifest'),
         \A d \in DOMAIN artifacts' : d \in Seq(Contents) /\ artifacts'[d] \in Seq(Contents),
         tainted' \subseteq Seq(Contents),
         \/ proc[p].pc # "idle" /\ proc'[p].pc # "idle" /\ lock' = lock
         \/ proc[p].pc # "idle" /\ proc'[p].pc = "idle" /\ lock' = Nobody
         \/ lock = Nobody /\ proc'[p].pc # "idle" /\ lock' = p
  PROVE  Base'
<1>1. Locked /\ Nobody \notin Procs
  BY CacheAssumption DEF Base
<1>2. Locked'
  BY <1>1 DEF Locked, Only
<1>3. Types'
  BY DEF Base, Types, world, Only
<1>4. ASSUME NEW x \in Procs PROVE Shape(proc'[x]) /\ Compared(proc'[x])
  BY DEF Base, Shaped, Only
<1>5. Shaped'
  BY <1>4 DEF Shaped
<1>6. QED
  BY <1>2, <1>3, <1>5 DEF Base

\* Where the manifest and the artifacts stay as they are.
LEMMA SteppedQuietly ==
  ASSUME Base, NEW p \in Procs, Only(p), Shape(proc'[p]), Compared(proc'[p]),
         UNCHANGED <<world, manifest, artifacts, tainted>>,
         \/ proc[p].pc # "idle" /\ proc'[p].pc # "idle" /\ lock' = lock
         \/ proc[p].pc # "idle" /\ proc'[p].pc = "idle" /\ lock' = Nobody
         \/ lock = Nobody /\ proc'[p].pc # "idle" /\ lock' = p
  PROVE  Base'
<1>1. /\ manifest' \in Seq(Entries \cup {Torn}) /\ LinesWritten(manifest')
      /\ \A d \in DOMAIN artifacts' : d \in Seq(Contents) /\ artifacts'[d] \in Seq(Contents)
      /\ tainted' \subseteq Seq(Contents) /\ UNCHANGED world
  BY DEF Base, Types, Shaped
<1>2. QED
  BY <1>1, Stepped

LEMMA ExitBase ==
  ASSUME Base, NEW p \in Procs, proc[p].pc # "idle", Exit(p),
         UNCHANGED <<world, manifest, artifacts, tainted>>
  PROVE  Base'
<1>1. Only(p) /\ proc'[p] = cache_init /\ lock' = Nobody
  BY ExitStep
<1>2. Shape(proc'[p]) /\ Compared(proc'[p]) /\ proc'[p].pc = "idle"
  BY <1>1, IdleShape
<1>3. QED
  BY <1>1, <1>2, SteppedQuietly

\* The steps of cache_hit that work on the record of the process.
Hitting(p) ==
  \/ Trust(p) \/ Distrust(p) \/ Rehash(p) \/ InvalidFormat(p)
  \/ Missing(p) \/ Miss(p) \/ Hit(p) \/ FillOpen(p) \/ FillHash(p)
  \/ Compile(p) \/ AddOpen(p) \/ AddHash(p)

LEMMA HittingBase ==
  ASSUME Base, NEW p \in Procs, Hitting(p)
  PROVE  /\ Base' /\ UNCHANGED <<world, manifest, lock, artifacts, tainted>>
         /\ Only(p) /\ proc[p].pc # "idle" /\ proc'[p].pc \notin {"idle", "write"}
         /\ proc'[p].lines = proc[p].lines
<1>1. UNCHANGED <<world, manifest, lock, artifacts, tainted>>
  BY DEF Hitting, Trust, Distrust, Rehash, InvalidFormat, Missing, Miss, Hit,
         FillOpen, FillHash, Compile, AddOpen, AddHash
<1>2. /\ Only(p) /\ Shape(proc'[p]) /\ Compared(proc'[p])
      /\ proc[p].pc # "idle" /\ proc'[p].pc \notin {"idle", "write"}
      /\ proc'[p].lines = proc[p].lines
  <2>1. CASE Trust(p)
    BY <2>1, TrustStep, TrustShape
  <2>2. CASE Distrust(p)
    BY <2>2, DistrustStep, DistrustShape
  <2>3. CASE Rehash(p)
    BY <2>3, RehashStep, RehashShape
  <2>4. CASE InvalidFormat(p)
    BY <2>4, InvalidFormatStep, InvalidFormatShape
  <2>5. CASE Missing(p)
    BY <2>5, MissingShape
  <2>6. CASE Miss(p)
    BY <2>6, MissStep, MissShape
  <2>7. CASE Hit(p)
    BY <2>7, HitShape
  <2>8. CASE FillOpen(p) /\ PastInputs(p)
    BY <2>8, FilledShape
  <2>9. CASE FillOpen(p) /\ ~PastInputs(p)
    BY <2>9, FillOpenStep, FillOpenShape
  <2>10. CASE FillHash(p)
    BY <2>10, FillHashStep, FillHashShape
  <2>11. CASE Compile(p)
    BY <2>11, CompileStep, CompileShape
  <2>12. CASE AddOpen(p)
    BY <2>12, AddOpenStep, AddOpenShape
  <2>13. CASE AddHash(p)
    BY <2>13, AddHashStep, AddHashShape
  <2>14. QED
    BY <2>1, <2>2, <2>3, <2>4, <2>5, <2>6, <2>7, <2>8, <2>9, <2>10, <2>11, <2>12, <2>13
       DEF Hitting
<1>3. Base'
  BY <1>1, <1>2, SteppedQuietly
<1>4. QED
  BY <1>1, <1>2, <1>3

LEMMA FinalBase ==
  ASSUME Base, NEW p \in Procs, Final(p)
  PROVE  Base'
<1>1. /\ Only(p) /\ Shape(proc'[p]) /\ Compared(proc'[p])
      /\ proc[p].pc # "idle" /\ proc'[p].pc # "idle"
  BY FinalShape
<1>2. /\ UNCHANGED <<world, manifest, lock>>
      /\ artifacts' = Renamed(proc[p].hash, proc[p].built)
      /\ tainted' \subseteq tainted \cup {proc[p].hash}
  BY DEF Final
<1>3. proc[p].hash \in Seq(Contents) /\ proc[p].built \in Seq(Contents)
  BY FieldTypes DEF Base
<1>4. \A d \in DOMAIN artifacts' : d \in Seq(Contents) /\ artifacts'[d] \in Seq(Contents)
  BY <1>2, <1>3 DEF Base, Types, Renamed
<1>5. tainted' \subseteq Seq(Contents)
  BY <1>2, <1>3 DEF Base, Types
<1>6. manifest' \in Seq(Entries \cup {Torn}) /\ LinesWritten(manifest')
  BY <1>2 DEF Base, Types, Shaped
<1>7. UNCHANGED world /\ lock' = lock
  BY <1>2
<1>8. QED
  BY <1>1, <1>4, <1>5, <1>6, <1>7, Stepped

LEMMA ReleaseBase ==
  ASSUME Base, NEW p \in Procs, cache_release(p)
  PROVE  Base'
<1>1. proc[p].pc = "use" /\ UNCHANGED <<world, artifacts, tainted>>
  BY DEF cache_release
<1>2. CASE Exit(p)
  <2>1. Only(p) /\ proc'[p] = cache_init /\ lock' = Nobody
    BY <1>2, ExitStep
  <2>2. proc'[p].pc = "idle"
    BY <2>1, IdleShape
  <2>3. proc' # [proc EXCEPT ![p].pc = "write"]
    <3>1. "write" \in Places
      BY DEF Places
    <3>2. QED
      BY <2>2, <3>1, SetPc
  <2>4. manifest' = manifest
    BY <2>3 DEF cache_release
  <2>5. QED
    BY <1>1, <1>2, <2>4, ExitBase
<1>3. CASE ~Exit(p)
  <2>1. /\ Only(p) /\ Shape(proc'[p]) /\ Compared(proc'[p])
        /\ manifest' = <<>> /\ lock' = lock /\ proc'[p].pc # "idle"
    BY <1>3, TruncateShape
  <2>2. manifest' \in Seq(Entries \cup {Torn}) /\ LinesWritten(manifest')
    BY <2>1, IdleShape
  <2>3. /\ \A d \in DOMAIN artifacts' : d \in Seq(Contents) /\ artifacts'[d] \in Seq(Contents)
        /\ tainted' \subseteq Seq(Contents)
    BY <1>1 DEF Base, Types
  <2>4. QED
    BY <1>1, <2>1, <2>2, <2>3, Stepped
<1>4. QED
  BY <1>2, <1>3

LEMMA WriteBase ==
  ASSUME Base, NEW p \in Procs, WriteManifest(p)
  PROVE  Base'
<1>1. proc[p].pc = "write" /\ Exit(p) /\ UNCHANGED <<world, artifacts, tainted>>
  BY DEF WriteManifest
<1>2. Only(p) /\ proc'[p] = cache_init /\ lock' = Nobody
  BY <1>1, ExitStep
<1>3. Shape(proc'[p]) /\ Compared(proc'[p]) /\ proc'[p].pc = "idle"
  BY <1>2, IdleShape
<1>4. manifest' \in Seq(Entries \cup {Torn}) /\ LinesWritten(manifest')
  BY WriteLines
<1>5. /\ \A d \in DOMAIN artifacts' : d \in Seq(Contents) /\ artifacts'[d] \in Seq(Contents)
      /\ tainted' \subseteq Seq(Contents)
  BY <1>1 DEF Base, Types
<1>6. QED
  BY <1>1, <1>2, <1>3, <1>4, <1>5, Stepped

LEMMA OpenBase ==
  ASSUME Base, NEW p \in Procs, OpenManifest(p)
  PROVE  Base'
<1>1. /\ Only(p) /\ proc'[p] = Opened /\ lock = Nobody /\ lock' = p
      /\ UNCHANGED <<world, manifest, artifacts, tainted>>
  BY OpenStep
<1>2. Shape(proc'[p]) /\ Compared(proc'[p]) /\ proc'[p].pc # "idle"
  BY <1>1, OpenedShape, OpenedType DEF Base
<1>3. QED
  BY <1>1, <1>2, SteppedQuietly

\* The process ends before it has released the manifest.
Dies(p) == Exit(p) /\ UNCHANGED <<world, manifest, artifacts, tainted>> /\ proc[p].pc # "idle"

\* The steps of the system, grouped.
LEMMA NextCases ==
  ASSUME Next
  PROVE  \/ \E p \in Procs :
              \/ OpenManifest(p) \/ Hitting(p) \/ Final(p) \/ cache_release(p)
              \/ WriteManifest(p) \/ Dies(p)
         \/ Outside
<1>1. ASSUME NEW p \in Procs, Fail(p) \/ Crash(p) PROVE Dies(p)
  BY <1>1 DEF Fail, Crash, Dies, Hashing
<1>2. ASSUME NEW p \in Procs, cache_hit(p) \/ gen_c_object(p)
      PROVE  OpenManifest(p) \/ Hitting(p) \/ Final(p)
  BY <1>2 DEF cache_hit, gen_c_object, Hitting
<1>3. QED
  BY <1>1, <1>2 DEF Next, Outside

LEMMA BaseStep == Base /\ [Next]_vars => Base'
<1> SUFFICES ASSUME Base, [Next]_vars PROVE Base'
  OBVIOUS
<1>1. CASE UNCHANGED vars
  BY <1>1 DEF vars, world, Base, Types, Locked, Shaped
<1>2. CASE Next
  <2>1. ASSUME NEW p \in Procs, OpenManifest(p) PROVE Base'
    BY <2>1, OpenBase
  <2>2. ASSUME NEW p \in Procs, Hitting(p) PROVE Base'
    BY <2>2, HittingBase
  <2>3. ASSUME NEW p \in Procs, Final(p) PROVE Base'
    BY <2>3, FinalBase
  <2>4. ASSUME NEW p \in Procs, cache_release(p) PROVE Base'
    BY <2>4, ReleaseBase
  <2>5. ASSUME NEW p \in Procs, WriteManifest(p) PROVE Base'
    BY <2>5, WriteBase
  <2>6. ASSUME NEW p \in Procs, Dies(p) PROVE Base'
    BY <2>6, ExitBase DEF Dies
  <2>7. QED
    BY <1>2, <2>1, <2>2, <2>3, <2>4, <2>5, <2>6, OutsideBase, NextCases
<1>3. QED
  BY <1>1, <1>2

LEMMA BaseInit == Init => Base
<1> SUFFICES ASSUME Init PROVE Base
  OBVIOUS
<1>1. /\ now = 1 /\ manifest = <<>> /\ lock = Nobody /\ artifacts = [d \in {} |-> <<>>]
      /\ proc = [p \in Procs |-> cache_init] /\ tainted = {} /\ edits = 0
  BY DEF Init
<1>2. PICK c \in [Files -> Contents] :
        disk = [f \in Files |-> [content |-> c[f], attr |-> [mtime |-> Stamp, inode |-> 1]]]
  BY DEF Init
<1>3. MaxTime \in Nat \ {0} /\ MaxInode \in Nat \ {0} /\ MaxEdits \in Nat
  BY CacheAssumption
<1>4. Stamp \in 0..MaxTime
  BY <1>1, <1>3, StampType
<1>5. disk \in [Files -> [content : Contents, attr : Attrs]]
  BY <1>2, <1>3, <1>4 DEF Attrs
<1>6. proc \in [Procs -> ProcType]
  <2>1. cache_init \in ProcType
    BY EmptySeq DEF cache_init, ProcType, Places
  <2>2. QED
    BY <1>1, <2>1
<1>7. now \in 1..MaxTime /\ edits \in 0..MaxEdits
  BY <1>1, <1>3
<1>8. manifest \in Seq(Entries \cup {Torn})
  BY <1>1
<1>9. \A d \in DOMAIN artifacts : d \in Seq(Contents) /\ artifacts[d] \in Seq(Contents)
  BY <1>1
<1>10. tainted \subseteq Seq(Contents) /\ lock \in Procs \cup {Nobody}
  BY <1>1
<1>11. Types
  BY <1>5, <1>6, <1>7, <1>8, <1>9, <1>10 DEF Types
<1>12. Locked
  BY <1>1, IdleShape, CacheAssumption DEF Locked
<1>13. Shaped
  BY <1>1, IdleShape DEF Shaped
<1>14. QED
  BY <1>11, <1>12, <1>13 DEF Base

LEMMA BaseInvariant == Spec => []Base
  BY BaseInit, BaseStep, PTL DEF Spec

\* One process at a time works with the manifest and its artifact.
THEOREM OneOwner == Spec => []OneAtATime
<1>1. Base => OneAtATime
  <2> SUFFICES ASSUME Base PROVE OneAtATime
    OBVIOUS
  <2>1. TypeOK
    <3>1. ASSUME NEW p \in Procs
          PROVE  /\ proc[p].pc \in Places
                 /\ proc[p].lines \in Seq(Entries \cup {Torn})
                 /\ proc[p].i \in Nat
                 /\ proc[p].files \in Seq(Entries)
                 /\ proc[p].hash \in Seq(Contents)
                 /\ proc[p].fd \in Contents \cup {Null}
                 /\ proc[p].todo \in Seq(Files) /\ proc[p].built \in Seq(Contents)
                 /\ {proc[p].changed, proc[p].dirty, proc[p].disturbed} \subseteq BOOLEAN
      <4>1. proc[p] \in ProcType
        BY DEF Base, Types
      <4>2. QED
        BY <4>1 DEF ProcType
    <3>2. QED
      BY <3>1 DEF TypeOK, Base, Types
  <2>2. QED
    BY <2>1 DEF OneAtATime, Base, Locked
<1>2. QED
  BY <1>1, BaseInvariant, PTL

\* A build is repeated only when the content of a file differs from what the
\* manifest says of it.
THEOREM NoNeedlessBuild == Spec => NoSpuriousMiss
<1> DEFINE Step == \A p \in Procs :
             proc[p].pc = "check" /\ proc'[p].pc = "build" =>
               \E k \in 1..Len(proc[p].files) :
                 proc[p].files[k].digest # proc[p].lines[k].digest
<1>1. Base /\ [Next]_vars => [Step]_vars
  <2> SUFFICES ASSUME Base, Next, NEW p \in Procs,
                      proc[p].pc = "check", proc'[p].pc = "build"
               PROVE  \E k \in 1..Len(proc[p].files) :
                        proc[p].files[k].digest # proc[p].lines[k].digest
    OBVIOUS
  <2>1. Miss(p)
    <3>1. ASSUME Outside PROVE FALSE
      BY <3>1, OutsideTypes DEF Base
    <3>2. ASSUME NEW x \in Procs, x # p, Only(x) PROVE FALSE
      BY <3>2 DEF Only
    <3>3. ASSUME NEW x \in Procs, OpenManifest(x) PROVE FALSE
      BY <3>2, <3>3, OpenStep DEF OpenManifest
    <3>4. ASSUME NEW x \in Procs, Final(x) PROVE FALSE
      BY <3>2, <3>4, FinalShape
    <3>5. ASSUME NEW x \in Procs, Exit(x) PROVE FALSE
      BY <3>2, <3>5, ExitStep, IdleShape
    <3>6. ASSUME NEW x \in Procs, cache_release(x) PROVE FALSE
      BY <3>2, <3>5, <3>6, TruncateShape
    <3>7. ASSUME NEW x \in Procs, WriteManifest(x) \/ Dies(x) PROVE FALSE
      BY <3>5, <3>7 DEF WriteManifest, Dies
    <3>8. PICK x \in Procs : Hitting(x)
      BY <3>1, <3>3, <3>4, <3>6, <3>7, NextCases
    <3>9. x = p
      BY <3>2, <3>8, HittingBase
    <3>10. ~Trust(p) /\ ~Distrust(p) /\ ~Rehash(p) /\ ~InvalidFormat(p) /\ ~Missing(p)
      BY TrustStep, DistrustStep, RehashStep, InvalidFormatStep, MissingShape
    <3>11. ~Hit(p) /\ ~FillOpen(p) /\ ~FillHash(p)
      BY HitShape, FilledShape, FillOpenStep, FillHashStep
    <3>12. ~Compile(p) /\ ~AddOpen(p) /\ ~AddHash(p)
      BY CompileStep, AddOpenStep, AddHashStep
    <3>13. QED
      BY <3>8, <3>9, <3>10, <3>11, <3>12 DEF Hitting
  <2>2. proc[p].pc = "check" /\ proc[p].changed
    BY <2>1, MissStep
  <2>3. Compared(proc[p]) /\ Shape(proc[p])
    BY DEF Base, Shaped
  <2>4. proc[p].i \in Nat \ {0} /\ Len(proc[p].files) \in Nat
    BY FieldTypes DEF Base
  <2>5. proc[p].i - 1 <= Len(proc[p].files)
    BY <2>2, <2>3 DEF Shape, Checking
  <2>6. PICK k \in 1..(proc[p].i - 1) : proc[p].files[k].digest # proc[p].lines[k].digest
    BY <2>2, <2>3 DEF Compared, Checking
  <2>7. k \in 1..Len(proc[p].files)
    BY <2>4, <2>5
  <2>8. QED
    BY <2>6, <2>7
<1>2. QED
  BY <1>1, BaseInvariant, PTL DEF Spec, NoSpuriousMiss

-----------------------------------------------------------------------------
(***************************************************************************)
(* The time stamps can be trusted.                                         *)
(***************************************************************************)
LEMMA StampGrows ==
  ASSUME Types, Tick
  PROVE  Stamp <= Stamp' /\ Stamp' \in Nat
<1>1. now \in Nat /\ now' = now + 1
  BY DEF Types, Tick
<1>2. Granule \in Nat \ {0}
  BY CacheAssumption
<1>3. PICK q \in Nat, r \in 0..(Granule - 1) : now = q * Granule + r /\ now % Granule = r
  BY <1>1, <1>2, Division
<1>4. Stamp = q * Granule
  BY <1>1, <1>2, <1>3 DEF Stamp
<1>5. Stamp' = now' - (now' % Granule)
  BY DEF Stamp
<1>6. CASE r + 1 <= Granule - 1
  <2>1. now' = q * Granule + (r + 1) /\ r + 1 \in 0..(Granule - 1) /\ now' \in Nat
    BY <1>1, <1>2, <1>3, <1>6
  <2>2. now' % Granule = r + 1
    BY <1>2, <2>1, OneRemainder
  <2>3. QED
    BY <1>2, <1>3, <1>4, <1>5, <2>1, <2>2
<1>7. CASE r = Granule - 1
  <2>1. now' = (q + 1) * Granule + 0 /\ 0 \in 0..(Granule - 1) /\ now' \in Nat /\ q + 1 \in Nat
    BY <1>1, <1>2, <1>3, <1>7
  <2>2. now' % Granule = 0
    BY <1>2, <2>1, OneRemainder
  <2>3. (q + 1) * Granule = q * Granule + Granule
    BY <1>2
  <2>4. QED
    BY <1>2, <1>4, <1>5, <2>1, <2>2, <2>3
<1>8. QED
  BY <1>2, <1>6, <1>7

\* A file that changes gets the present time stamp or another inode.
LEMMA OutsideDisk ==
  ASSUME Types, DiskSound, Outside
  PROVE  /\ Stamp <= Stamp' /\ Stamp \in Nat /\ Stamp' \in Nat
         /\ \A f \in Files :
              LET a == disk[f].attr  b == disk'[f].attr IN
              /\ b.mtime <= Stamp' /\ a.inode <= b.inode
              /\ \/ disk'[f] = disk[f]
                 \/ b.mtime = Stamp /\ b.inode = a.inode
                 \/ b.inode > a.inode
<1>1. now \in Nat /\ Stamp \in Nat
  BY StampType DEF Types
<1>2. ASSUME NEW f \in Files
      PROVE  /\ disk[f] \in [content : Contents, attr : Attrs] /\ disk[f].attr \in Attrs
             /\ disk[f].attr.mtime \in Nat /\ disk[f].attr.inode \in Nat
             /\ disk[f].attr.mtime <= Stamp
  <2>1. disk[f] \in [content : Contents, attr : Attrs]
    BY DEF Types
  <2>2. QED
    BY <2>1 DEF Attrs, DiskSound
<1>3. CASE Tick
  <2>1. Stamp <= Stamp' /\ Stamp' \in Nat /\ disk' = disk
    BY <1>3, StampGrows DEF Tick
  <2>2. QED
    BY <1>1, <1>2, <2>1
<1>4. CASE \E f \in Files, c \in Contents : Edit(f, c)
  <2>1. PICK f \in Files, c \in Contents : Edit(f, c)
    BY <1>4
  <2>2. Stamp' = Stamp
    BY <2>1 DEF Edit, Stamp
  <2>3. \A g \in Files : g # f => disk'[g] = disk[g]
    BY <2>1 DEF Edit, Types
  <2>4. disk'[f] = [disk[f] EXCEPT !.content = c, !.attr.mtime = Stamp]
    BY <2>1 DEF Edit, Types
  <2>5. disk'[f].attr.mtime = Stamp /\ disk'[f].attr.inode = disk[f].attr.inode
    BY <1>2, <2>4 DEF Attrs
  <2>6. ASSUME NEW g \in Files
        PROVE  LET a == disk[g].attr  b == disk'[g].attr IN
               /\ b.mtime <= Stamp' /\ a.inode <= b.inode
               /\ \/ disk'[g] = disk[g]
                  \/ b.mtime = Stamp /\ b.inode = a.inode
                  \/ b.inode > a.inode
    <3>1. CASE g = f
      BY <1>1, <1>2, <2>2, <2>5, <3>1
    <3>2. CASE g # f
      BY <1>1, <1>2, <2>2, <2>3, <3>2
    <3>3. QED
      BY <3>1, <3>2
  <2>7. QED
    BY <1>1, <2>2, <2>6
<1>5. CASE \E f \in Files, c \in Contents, t \in Stamps : Replace(f, c, t)
  <2>1. PICK f \in Files, c \in Contents, t \in Stamps : Replace(f, c, t)
    BY <1>5
  <2>2. Stamp' = Stamp /\ t <= Stamp
    <3>1. now' = now
      BY <2>1 DEF Replace
    <3>2. t \in 0..Stamp
      BY DEF Stamps
    <3>3. QED
      BY <1>1, <3>1, <3>2 DEF Stamp
  <2>3. \A g \in Files : g # f => disk'[g] = disk[g]
    BY <2>1 DEF Replace, Types
  <2>4. disk'[f] = [disk[f] EXCEPT !.content = c, !.attr.mtime = t, !.attr.inode = @ + 1]
    BY <2>1 DEF Replace, Types
  <2>5. disk'[f].attr.mtime = t /\ disk'[f].attr.inode = disk[f].attr.inode + 1
    <3>1. disk[f] \in [content : Contents, attr : Attrs]
      BY <1>2
    <3>2. QED
      BY <2>4, <3>1, ZenonT(30) DEF Attrs
  <2>6. ASSUME NEW g \in Files
        PROVE  LET a == disk[g].attr  b == disk'[g].attr IN
               /\ b.mtime <= Stamp' /\ a.inode <= b.inode
               /\ \/ disk'[g] = disk[g]
                  \/ b.mtime = Stamp /\ b.inode = a.inode
                  \/ b.inode > a.inode
    <3>1. CASE g = f
      BY <1>1, <1>2, <2>2, <2>5, <3>1
    <3>2. CASE g # f
      BY <1>1, <1>2, <2>2, <2>3, <3>2
    <3>3. QED
      BY <3>1, <3>2
  <2>7. QED
    BY <1>1, <2>2, <2>6
<1>6. QED
  BY <1>3, <1>4, <1>5 DEF Outside

\* An entry that could be trusted still can, whatever happens to the files.
LEMMA OutsideEntry ==
  ASSUME Types, DiskSound, Outside, NEW e \in Entries, Older(e)
  PROVE  Older(e)' /\ (Truthful(e) => Truthful(e)')
<1>1. CASE e.path = Null
  BY <1>1 DEF Older, Truthful
<1>2. CASE e.path # Null
  <2> DEFINE f == e.path
             a == disk[f].attr
             b == disk'[f].attr
  <2>1. f \in Files /\ e.attr \in Attrs
    BY <1>2 DEF Entries
  <2>2. /\ Stamp <= Stamp' /\ Stamp \in Nat /\ Stamp' \in Nat
        /\ a.inode <= b.inode
        /\ \/ disk'[f] = disk[f]
           \/ b.mtime = Stamp /\ b.inode = a.inode
           \/ b.inode > a.inode
    BY <2>1, OutsideDisk
  <2>3. e.attr.mtime \in Nat /\ e.attr.inode \in Nat
    BY <2>1 DEF Attrs
  <2>4. disk[f] \in [content : Contents, attr : Attrs] /\ disk'[f] \in [content : Contents, attr : Attrs]
    BY <2>1, OutsideTypes DEF Types
  <2>5. a.inode \in Nat /\ b.inode \in Nat
    BY <2>4 DEF Attrs
  <2>6. a.inode >= 1
    BY <2>1 DEF DiskSound
  <2>7. e.attr.inode <= a.inode /\ (e.attr.inode = 0 \/ e.attr.mtime < Stamp)
    BY <1>2 DEF Older
  <2>8. e.attr.inode <= b.inode /\ (e.attr.inode = 0 \/ e.attr.mtime < Stamp')
    BY <2>2, <2>3, <2>5, <2>7
  <2>9. Older(e)'
    BY <2>8 DEF Older
  <2>10. ASSUME Truthful(e), e.digest # Null, e.attr = b PROVE e.digest = disk'[f].content
    <3>1. disk'[f] = disk[f]
      <4>1. ~(b.inode > a.inode)
        BY <2>5, <2>7, <2>10
      <4>2. ~(b.mtime = Stamp /\ b.inode = a.inode)
        BY <2>2, <2>3, <2>5, <2>6, <2>7, <2>10
      <4>3. QED
        BY <2>2, <4>1, <4>2
    <3>2. QED
      BY <1>2, <2>10, <3>1 DEF Truthful
  <2>11. QED
    BY <2>9, <2>10 DEF Truthful
<1>3. QED
  BY <1>1, <1>2

LEMMA OutsideSound ==
  ASSUME Base, AllSound, Outside
  PROVE  AllSound'
<1>1. Types /\ DiskSound
  BY DEF Base, AllSound
<1>2. \A e \in Entries : Older(e) => Older(e)' /\ (Truthful(e) => Truthful(e)')
  BY <1>1, OutsideEntry
<1>3. /\ manifest' = manifest
      /\ \A p \in Procs : /\ proc'[p].pc = proc[p].pc /\ proc'[p].lines = proc[p].lines
                          /\ proc'[p].i = proc[p].i /\ proc'[p].files = proc[p].files
  BY <1>1, OutsideTypes
<1>4. DiskSound'
  <2>1. ASSUME NEW f \in Files PROVE disk'[f].attr.mtime <= Stamp' /\ disk'[f].attr.inode >= 1
    <3>1. disk'[f].attr.mtime <= Stamp' /\ disk[f].attr.inode <= disk'[f].attr.inode
      BY <1>1, OutsideDisk
    <3>2. disk[f] \in [content : Contents, attr : Attrs] /\ disk'[f] \in [content : Contents, attr : Attrs]
      BY <1>1, OutsideTypes DEF Types
    <3>3. disk[f].attr.inode \in Nat /\ disk'[f].attr.inode \in Nat
      BY <3>2 DEF Attrs
    <3>4. QED
      BY <1>1, <3>1, <3>3 DEF DiskSound
  <2>2. QED
    BY <2>1 DEF DiskSound
<1>5. ASSUME NEW s \in Seq(Entries \cup {Torn}), LinesSound(s) PROVE LinesSound(s)'
  <2>1. \A k \in 1..Len(s) : s[k] \in Entries \cup {Torn}
    BY ElementOfSeq
  <2>2. QED
    BY <1>2, <1>5, <2>1 DEF LinesSound, Sound
<1>6. ASSUME NEW p \in Procs PROVE FilesSound(proc[p])'
  <2>1. /\ \A k \in 1..Len(proc[p].files) : proc[p].files[k] \in Entries
        /\ FilesSound(proc[p])
    BY <1>1, FieldTypes DEF AllSound
  <2>2. ASSUME NEW k \in 1..Len(proc[p].files)
        PROVE  /\ Older(proc[p].files[k])'
               /\ ~(proc[p].pc = "rehash" /\ k = proc[p].i) => Truthful(proc[p].files[k])'
    <3> DEFINE e == proc[p].files[k]
    <3>1. e \in Entries /\ Older(e) /\ (~(proc[p].pc = "rehash" /\ k = proc[p].i) => Truthful(e))
      BY <2>1 DEF FilesSound
    <3>2. proc'[p].files[k] = e
      BY <1>3
    <3> HIDE DEF e
    <3>3. PICK x \in Entries : x = e
      BY <3>1
    <3>4. Older(x)' /\ ((~(proc[p].pc = "rehash" /\ k = proc[p].i)) => Truthful(x)')
      BY <1>2, <3>1, <3>3
    <3>5. QED
      BY <3>2, <3>3, <3>4 DEF Older, Truthful
  <2>3. QED
    BY <1>3, <2>2 DEF FilesSound
<1>7. LinesSound(manifest)'
  <2>1. PICK s \in Seq(Entries \cup {Torn}) : s = manifest
    BY <1>1 DEF Types
  <2>2. LinesSound(s)'
    BY <1>5, <2>1 DEF AllSound
  <2>3. QED
    BY <1>3, <2>1, <2>2 DEF LinesSound
<1>8. ASSUME NEW p \in Procs PROVE LinesSound(proc[p].lines)'
  <2>1. PICK s \in Seq(Entries \cup {Torn}) : s = proc[p].lines
    BY <1>1, FieldTypes
  <2>2. LinesSound(s)'
    BY <1>5, <2>1 DEF AllSound
  <2>3. QED
    BY <1>3, <2>1, <2>2 DEF LinesSound
<1>9. QED
  BY <1>4, <1>6, <1>7, <1>8 DEF AllSound

\* The attributes saved for a file that is about to be hashed are older than
\* any later change of it.
LEMMA RecordedOlder ==
  ASSUME PowerOfTwo, Types, DiskSound, NEW f \in Files, NEW e, e.path = f,
         e.attr = Recorded(f)
  PROVE  Older(e)
<1>1. now \in Nat
  BY DEF Types
<1>2. Stamp \in Nat /\ is_problematic_timestamp(Stamp)
  BY <1>1, StampType, StampIsProblematic
<1>3. disk[f] \in [content : Contents, attr : Attrs]
  BY DEF Types
<1>4. disk[f].attr.mtime \in Nat /\ disk[f].attr.inode \in Nat /\ disk[f].attr.mtime <= Stamp
  BY <1>3 DEF Attrs, DiskSound
<1>5. CASE is_problematic_timestamp(disk[f].attr.mtime)
  <2>1. e.attr.inode = 0
    BY <1>5 DEF Recorded, ZeroAttr
  <2>2. QED
    BY <1>4, <2>1 DEF Older
<1>6. CASE ~is_problematic_timestamp(disk[f].attr.mtime)
  <2>1. disk[f].attr.mtime # Stamp
    BY <1>2, <1>6
  <2>2. e.attr = disk[f].attr
    BY <1>6 DEF Recorded
  <2>3. QED
    BY <1>2, <1>4, <2>1, <2>2 DEF Older
<1>7. QED
  BY <1>5, <1>6

\* A step of one process, which leaves the files alone.
LEMMA SteppedSound ==
  ASSUME AllSound, NEW p \in Procs, Only(p), UNCHANGED world,
         LinesSound(manifest'), LinesSound(proc'[p].lines), FilesSound(proc'[p])
  PROVE  AllSound'
<1>1. disk' = disk /\ now' = now
  BY DEF world
<1>2. Stamp' = Stamp
  BY <1>1 DEF Stamp
<1>3. DiskSound'
  BY <1>1, <1>2 DEF AllSound, DiskSound
<1>4. ASSUME NEW s, LinesSound(s) PROVE LinesSound(s)'
  BY <1>1, <1>2, <1>4 DEF LinesSound, Sound, Older, Truthful
<1>5. ASSUME NEW q, FilesSound(q) PROVE FilesSound(q)'
  BY <1>1, <1>2, <1>5 DEF FilesSound, Older, Truthful
<1>6. ASSUME NEW x \in Procs PROVE LinesSound(proc'[x].lines) /\ FilesSound(proc'[x])
  BY DEF AllSound, Only
<1>7. ASSUME NEW x \in Procs PROVE LinesSound(proc[x].lines)' /\ FilesSound(proc[x])'
  <2>1. PICK s, q : s = proc'[x].lines /\ q = proc'[x]
    OBVIOUS
  <2>2. LinesSound(s)' /\ FilesSound(q)'
    BY <1>4, <1>5, <1>6, <2>1
  <2>3. QED
    BY <2>1, <2>2 DEF LinesSound, FilesSound
<1>8. LinesSound(manifest)'
  <2>1. PICK s : s = manifest'
    OBVIOUS
  <2>2. LinesSound(s)'
    BY <1>4, <2>1
  <2>3. QED
    BY <2>1, <2>2 DEF LinesSound
<1>9. QED
  BY <1>3, <1>7, <1>8 DEF AllSound

\* A digest taken from the file is right.
LEMMA FreshDigest ==
  ASSUME NEW e, e.digest = disk[e.path].content
  PROVE  Truthful(e)
  BY DEF Truthful

\* So is one taken from a file that has lost its name, for want of a file that
\* has the attributes of the entry.
LEMMA HashedTruthful ==
  ASSUME Types, Descriptors, NEW p \in Procs, proc[p].pc \in Hashing, NEW e,
         e.path = proc[p].files[Current(proc[p])].path,
         e.attr = proc[p].files[Current(proc[p])].attr,
         e.path \in Files, e.digest = hash_file(proc[p])
  PROVE  Truthful(e)
<1>1. CASE proc[p].fd = Null
  <2>1. e.digest = disk[e.path].content
    BY <1>1, HashedContent
  <2>2. QED
    BY <2>1, FreshDigest
<1>2. CASE proc[p].fd # Null
  <2>1. e.attr.inode < disk[e.path].attr.inode
    BY <1>2 DEF Descriptors, Descriptor
  <2>2. disk[e.path] \in [content : Contents, attr : Attrs]
    BY DEF Types
  <2>3. disk[e.path].attr.inode \in Nat
    BY <2>2 DEF Attrs
  <2>4. e.attr # disk[e.path].attr
    BY <2>1, <2>3
  <2>5. QED
    BY <2>4 DEF Truthful
<1>3. QED
  BY <1>1, <1>2

\* One entry of the record is new, the others are as they were.
LEMMA OneEntry ==
  ASSUME Base, AllSound, NEW p \in Procs, NEW j,
         \A k \in 1..Len(proc'[p].files) :
           k # j => k \in 1..Len(proc[p].files) /\ proc'[p].files[k] = proc[p].files[k],
         proc[p].pc = "rehash" => j = proc[p].i,
         Older(proc'[p].files[j]),
         ~(proc'[p].pc = "rehash" /\ j = proc'[p].i) => Truthful(proc'[p].files[j])
  PROVE  FilesSound(proc'[p])
<1>1. FilesSound(proc[p])
  BY DEF AllSound
<1>2. ASSUME NEW k \in 1..Len(proc'[p].files)
      PROVE  /\ Older(proc'[p].files[k])
             /\ ~(proc'[p].pc = "rehash" /\ k = proc'[p].i) => Truthful(proc'[p].files[k])
  <2>1. CASE k = j
    BY <2>1
  <2>2. CASE k # j
    <3>1. k \in 1..Len(proc[p].files) /\ proc'[p].files[k] = proc[p].files[k]
      BY <2>2
    <3>2. Older(proc[p].files[k]) /\ Truthful(proc[p].files[k])
      BY <1>1, <2>2, <3>1 DEF FilesSound
    <3>3. QED
      BY <3>1, <3>2
  <2>3. QED
    BY <2>1, <2>2
<1>3. QED
  BY <1>2 DEF FilesSound

\* No entry is new.
LEMMA NoEntry ==
  ASSUME AllSound, NEW p \in Procs, proc[p].pc # "rehash",
         \A k \in 1..Len(proc'[p].files) :
           k \in 1..Len(proc[p].files) /\ proc'[p].files[k] = proc[p].files[k]
  PROVE  FilesSound(proc'[p])
  BY DEF FilesSound, AllSound

LEMMA HittingSound ==
  ASSUME PowerOfTwo, Base, AllSound, Descriptors, NEW p \in Procs, Hitting(p)
  PROVE  FilesSound(proc'[p])
<1> DEFINE q == proc[p]
           r == proc'[p]
           old == \A k \in 1..Len(r.files) :
                    k # q.i => k \in 1..Len(q.files) /\ r.files[k] = q.files[k]
<1>1. Types /\ DiskSound /\ FilesSound(q) /\ LinesSound(q.lines) /\ Shape(q)
  BY DEF Base, AllSound, Shaped
<1>2. /\ q.i \in Nat \ {0} /\ Len(q.files) \in Nat /\ Len(q.lines) \in Nat
      /\ NumInputs \in Nat \ {0}
  BY <1>1, FieldTypes, ConstantTypes
<1>3. ASSUME q.pc \in Checking PROVE q.i - 1 <= Len(q.files)
  BY <1>1, <1>3 DEF Shape
<1>4. ASSUME Trust(p) \/ Distrust(p)
      PROVE  old /\ q.pc = "check" /\ Sound(q.lines[q.i]) /\ q.lines[q.i] \in Entries
             /\ q.lines[q.i].path \in Files
  <2>1. /\ q.pc = "check" /\ HasLine(p) /\ q.lines[q.i] # Torn
        /\ Len(r.files) = IF q.i <= Len(q.files) THEN Len(q.files) ELSE q.i
        /\ \A k \in 1..Len(q.files) : k # q.i => r.files[k] = q.files[k]
    BY <1>4, TrustStep, DistrustStep
  <2>2. q.i - 1 <= Len(q.files)
    BY <1>3, <2>1 DEF Checking
  <2>3. old
    BY <1>2, <2>1, <2>2
  <2>4. q.i \in 1..Len(q.lines) /\ q.lines[q.i] \in Entries /\ q.lines[q.i].path \in Files
    BY <2>1, CurrentLine DEF Checking
  <2>5. QED
    BY <1>1, <2>1, <2>3, <2>4 DEF LinesSound
<1>5. CASE Trust(p)
  <2>1. r.files[q.i] = q.lines[q.i]
    BY <1>5, TrustStep
  <2>2. QED
    BY <1>4, <1>5, <2>1, OneEntry DEF Sound
<1>6. CASE Distrust(p)
  <2>1. r.pc = "rehash" /\ r.i = q.i
        /\ r.files[q.i] = [q.lines[q.i] EXCEPT !.attr = Recorded(q.lines[q.i].path)]
    BY <1>6, DistrustStep
  <2>2. /\ r.files[q.i].path = q.lines[q.i].path
        /\ r.files[q.i].attr = Recorded(q.lines[q.i].path)
    BY <1>4, <1>6, <2>1 DEF Entries
  <2>3. Older(r.files[q.i])
    BY <1>1, <1>4, <1>6, <2>2, RecordedOlder
  <2>4. QED
    BY <1>4, <1>6, <2>1, <2>3, OneEntry
<1>7. CASE Rehash(p)
  <2>1. /\ q.pc = "rehash" /\ q.i \in 1..Len(q.files) /\ r.pc = "check"
        /\ Len(r.files) = Len(q.files)
        /\ r.files[q.i].path = q.files[q.i].path /\ r.files[q.i].attr = q.files[q.i].attr
        /\ r.files[q.i].digest = hash_file(q) /\ q.files[q.i].path \in Files
        /\ \A k \in 1..Len(q.files) : k # q.i => r.files[k] = q.files[k]
    BY <1>7, RehashStep
  <2>2. Older(q.files[q.i])
    BY <1>1, <2>1 DEF FilesSound
  <2>3. Older(r.files[q.i])
    BY <2>1, <2>2 DEF Older
  <2>4. Truthful(r.files[q.i])
    BY <1>1, <2>1, HashedTruthful DEF Current, Hashing
  <2>5. QED
    BY <2>1, <2>3, <2>4, OneEntry
<1>8. CASE InvalidFormat(p)
  <2>1. /\ q.pc = "check"
        /\ ~PastInputs(p) => r.files = q.files
        /\ PastInputs(p) => /\ Len(r.files) = Len(q.files) + 1
                            /\ r.files[Len(q.files) + 1] = Unhashed(Null)
        /\ \A k \in 1..Len(q.files) : r.files[k] = q.files[k]
    BY <1>8, InvalidFormatStep
  <2>2. CASE ~PastInputs(p)
    BY <2>1, <2>2, NoEntry
  <2>3. CASE PastInputs(p)
    <3> DEFINE j == Len(q.files) + 1
    <3>1. \A k \in 1..Len(r.files) : k # j => k \in 1..Len(q.files)
      BY <1>2, <2>1, <2>3
    <3>2. r.files[j].path = Null
      BY <2>1, <2>3 DEF Unhashed
    <3>3. Older(r.files[j]) /\ Truthful(r.files[j])
      BY <3>2 DEF Older, Truthful
    <3> HIDE DEF j
    <3>4. QED
      BY <2>1, <3>1, <3>3, OneEntry
  <2>4. QED
    BY <2>2, <2>3
<1>9. CASE Missing(p)
  BY <1>9, MissingShape, NoEntry
<1>10. CASE Miss(p)
  <2>1. /\ q.pc = "check" /\ Len(r.files) = NumInputs /\ NumInputs <= Len(q.files)
        /\ \A k \in 1..NumInputs : r.files[k] = q.files[k]
    BY <1>10, MissStep
  <2>2. \A k \in 1..NumInputs : k \in 1..Len(q.files)
    BY <1>2, <2>1
  <2>3. QED
    BY <2>1, <2>2, NoEntry
<1>11. CASE Hit(p)
  BY <1>11, HitShape, NoEntry
<1>12. CASE FillOpen(p) /\ PastInputs(p)
  BY <1>12, FilledShape, NoEntry
<1>13. CASE FillOpen(p) /\ ~PastInputs(p)
  <2>1. /\ q.pc = "fill" /\ q.i \in 1..NumInputs /\ q.i \in 1..Len(q.files)
        /\ q.files[q.i].path = Inputs[q.i] /\ r.pc = "fillhash" /\ r.i = q.i
        /\ Len(r.files) = Len(q.files)
        /\ r.files[q.i].path = Inputs[q.i] /\ r.files[q.i].digest = q.files[q.i].digest
        /\ r.files[q.i].attr = Recorded(Inputs[q.i])
        /\ \A k \in 1..Len(q.files) : k # q.i => r.files[k] = q.files[k]
    BY <1>13, FillOpenStep
  <2>2. q.files[q.i].digest = Null
    BY <1>1, <1>2, <2>1 DEF Shape, Filling
  <2>3. Truthful(r.files[q.i])
    BY <2>1, <2>2 DEF Truthful
  <2>4. Older(r.files[q.i])
    BY <1>1, <2>1, ConstantTypes, RecordedOlder
  <2>5. QED
    BY <2>1, <2>3, <2>4, OneEntry
<1>14. CASE FillHash(p)
  <2>1. /\ q.pc = "fillhash" /\ q.i \in 1..Len(q.files)
        /\ q.files[q.i].path = Inputs[q.i] /\ r.pc = "fill"
        /\ Len(r.files) = Len(q.files)
        /\ r.files[q.i].path = Inputs[q.i] /\ r.files[q.i].attr = q.files[q.i].attr
        /\ r.files[q.i].digest = hash_file(q) /\ q.i \in 1..NumInputs
        /\ \A k \in 1..Len(q.files) : k # q.i => r.files[k] = q.files[k]
    BY <1>14, FillHashStep
  <2>2. Older(q.files[q.i])
    BY <1>1, <2>1 DEF FilesSound
  <2>3. Older(r.files[q.i])
    BY <2>1, <2>2 DEF Older
  <2>4. Truthful(r.files[q.i])
    BY <1>1, <2>1, ConstantTypes, HashedTruthful DEF Current, Hashing
  <2>5. QED
    BY <2>1, <2>3, <2>4, OneEntry
<1>15. CASE Compile(p)
  <2>1. q.pc = "build" /\ r.files = q.files
    BY <1>15, CompileStep
  <2>2. QED
    BY <2>1, NoEntry
<1>16. CASE AddOpen(p)
  <2> DEFINE j == Len(q.files) + 1
             f == Head(q.todo)
  <2>1. /\ q.pc = "add" /\ f \in Files /\ Len(r.files) = j
        /\ r.files[j].path = f /\ r.files[j].attr = Recorded(f) /\ r.files[j].digest = Null
        /\ \A k \in 1..Len(q.files) : r.files[k] = q.files[k]
    BY <1>16, AddOpenStep
  <2>2. \A k \in 1..Len(r.files) : k # j => k \in 1..Len(q.files)
    BY <1>2, <2>1
  <2>3. Older(r.files[j]) /\ Truthful(r.files[j])
    BY <1>1, <2>1, RecordedOlder DEF Truthful
  <2> HIDE DEF j
  <2>4. QED
    BY <2>1, <2>2, <2>3, OneEntry
<1>17. CASE AddHash(p)
  <2> DEFINE j == Len(q.files)
             f == Head(q.todo)
  <2>1. /\ q.pc = "addhash" /\ j > NumInputs /\ q.files[j].path = f
        /\ r.pc = "add" /\ Len(r.files) = j
        /\ r.files[j].path = f /\ r.files[j].attr = q.files[j].attr
        /\ r.files[j].digest = hash_file(q) /\ f \in Files
        /\ \A k \in 1..(j - 1) : r.files[k] = q.files[k]
    BY <1>17, AddHashStep
  <2>2. \A k \in 1..Len(r.files) : k # j => k \in 1..(j - 1) /\ k \in 1..Len(q.files)
    BY <1>2, <2>1
  <2>3. j \in 1..Len(q.files)
    BY <1>2, <2>1
  <2>4. Older(q.files[j])
    BY <1>1, <2>3 DEF FilesSound
  <2>5. Older(r.files[j])
    BY <2>1, <2>4 DEF Older
  <2>6. Truthful(r.files[j])
    BY <1>1, <2>1, HashedTruthful DEF Current, Hashing
  <2> HIDE DEF j
  <2>7. QED
    BY <2>1, <2>2, <2>5, <2>6, OneEntry
<1>18. QED
  BY <1>5, <1>6, <1>7, <1>8, <1>9, <1>10, <1>11, <1>12, <1>13, <1>14, <1>15, <1>16, <1>17
     DEF Hitting

LEMMA IdleSound == LinesSound(<<>>) /\ LinesSound(cache_init.lines) /\ FilesSound(cache_init)
<1>1. cache_init.lines = <<>> /\ cache_init.files = <<>>
  BY DEF cache_init
<1>2. QED
  BY <1>1 DEF LinesSound, FilesSound

LEMMA OpenedSound ==
  ASSUME Types, AllSound
  PROVE  LinesSound(Opened.lines) /\ FilesSound(Opened)
<1>1. /\ Opened.lines = manifest /\ Len(Opened.files) = NumInputs
      /\ \A k \in 1..NumInputs : Opened.files[k] = Unhashed(Inputs[k])
  BY OpenedType
<1>2. ASSUME NEW f \in Files PROVE Older(Unhashed(f)) /\ Truthful(Unhashed(f))
  <2>1. /\ Unhashed(f).path = f /\ Unhashed(f).digest = Null
        /\ Unhashed(f).attr.inode = 0
    BY DEF Unhashed, ZeroAttr
  <2>2. disk[f] \in [content : Contents, attr : Attrs]
    BY DEF Types
  <2>3. 0 <= disk[f].attr.inode
    BY <2>2 DEF Attrs
  <2>4. QED
    BY <2>1, <2>3 DEF Older, Truthful
<1>3. QED
  BY <1>1, <1>2, ConstantTypes DEF AllSound, FilesSound

LEMMA SoundStep == PowerOfTwo /\ Base /\ AllSound /\ Descriptors /\ [Next]_vars => AllSound'
<1> SUFFICES ASSUME PowerOfTwo, Base, AllSound, Descriptors, [Next]_vars PROVE AllSound'
  OBVIOUS
<1>1. LinesSound(manifest) /\ Types
  BY DEF AllSound, Base
<1>2. CASE UNCHANGED vars
  <2>1. /\ disk' = disk /\ now' = now /\ manifest' = manifest /\ proc' = proc
    BY <1>2 DEF vars, world
  <2>2. DiskSound'
    BY <2>1 DEF AllSound, DiskSound, Stamp
  <2>3. \A e : Older(e)' <=> Older(e)
    BY <2>1 DEF Older, Stamp
  <2>4. \A e : Truthful(e)' <=> Truthful(e)
    BY <2>1 DEF Truthful
  <2>5. \A s : LinesSound(s) => LinesSound(s)'
    BY <2>3, <2>4 DEF LinesSound, Sound
  <2>6. \A q : FilesSound(q) => FilesSound(q)'
    BY <2>3, <2>4 DEF FilesSound
  <2>7. /\ LinesSound(manifest)
        /\ \A p \in Procs : LinesSound(proc[p].lines) /\ FilesSound(proc[p])
    BY DEF AllSound
  <2>8. LinesSound(manifest)'
    BY <2>1, <2>5, <2>7 DEF LinesSound
  <2>9. ASSUME NEW p \in Procs PROVE LinesSound(proc[p].lines)' /\ FilesSound(proc[p])'
    BY <2>1, <2>5, <2>6, <2>7 DEF LinesSound, FilesSound
  <2>10. QED
    BY <2>2, <2>8, <2>9 DEF AllSound
<1>3. CASE Next
  <2>1. ASSUME NEW p \in Procs, OpenManifest(p) PROVE AllSound'
    <3>1. Only(p) /\ proc'[p] = Opened /\ manifest' = manifest /\ UNCHANGED world
      BY <2>1, OpenStep
    <3>2. LinesSound(proc'[p].lines) /\ FilesSound(proc'[p]) /\ LinesSound(manifest')
      BY <1>1, <3>1, OpenedSound
    <3>3. QED
      BY <3>1, <3>2, SteppedSound
  <2>2. ASSUME NEW p \in Procs, Hitting(p) PROVE AllSound'
    <3>1. Only(p) /\ proc'[p].lines = proc[p].lines /\ manifest' = manifest /\ UNCHANGED world
      BY <2>2, HittingBase
    <3>2. LinesSound(proc'[p].lines) /\ FilesSound(proc'[p]) /\ LinesSound(manifest')
      BY <1>1, <2>2, <3>1, HittingSound DEF AllSound
    <3>3. QED
      BY <3>1, <3>2, SteppedSound
  <2>3. ASSUME NEW p \in Procs, Final(p) PROVE AllSound'
    <3>1. /\ Only(p) /\ proc[p].pc = "add" /\ proc'[p].lines = proc[p].lines
          /\ proc'[p].files = proc[p].files /\ manifest' = manifest /\ UNCHANGED world
      BY <2>3, FinalShape DEF Final
    <3>2. LinesSound(proc'[p].lines) /\ LinesSound(manifest')
      BY <1>1, <3>1 DEF AllSound
    <3>3. FilesSound(proc'[p])
      BY <3>1, NoEntry
    <3>4. QED
      BY <3>1, <3>2, <3>3, SteppedSound
  <2>4. ASSUME NEW p \in Procs, Exit(p), UNCHANGED world, LinesSound(manifest') PROVE AllSound'
    <3>1. Only(p) /\ proc'[p] = cache_init
      BY <2>4, ExitStep
    <3>2. QED
      BY <2>4, <3>1, IdleSound, SteppedSound
  <2>5. ASSUME NEW p \in Procs, cache_release(p) PROVE AllSound'
    <3>1. UNCHANGED world /\ LinesSound(manifest')
      BY <1>1, <2>5, IdleSound DEF cache_release
    <3>2. CASE Exit(p)
      BY <2>4, <3>1, <3>2
    <3>3. CASE ~Exit(p)
      <4>1. /\ Only(p) /\ proc[p].pc = "use" /\ proc'[p].lines = proc[p].lines
            /\ proc'[p].files = proc[p].files
        BY <2>5, <3>3, TruncateShape
      <4>2. LinesSound(proc'[p].lines)
        BY <4>1 DEF AllSound
      <4>3. FilesSound(proc'[p])
        BY <4>1, NoEntry
      <4>4. QED
        BY <3>1, <4>1, <4>2, <4>3, SteppedSound
    <3>4. QED
      BY <3>2, <3>3
  <2>6. ASSUME NEW p \in Procs, WriteManifest(p) PROVE AllSound'
    <3> DEFINE es == proc[p].files
               m == manifest'
    <3>1. /\ proc[p].pc = "write" /\ m \in Written(es) /\ Exit(p) /\ UNCHANGED world
          /\ es \in Seq(Entries) /\ FilesSound(proc[p])
      BY <1>1, <2>6, FieldTypes DEF WriteManifest, AllSound
    <3>2. \A k \in 1..Len(es) : Sound(es[k])
      BY <3>1 DEF FilesSound, Sound
    <3> HIDE DEF es, m
    <3>3. \A k \in 1..Len(m) : m[k] # Torn => k \in 1..Len(es) /\ m[k] = es[k]
      BY <3>1, WrittenProperties
    <3>4. LinesSound(m)
      BY <3>2, <3>3 DEF LinesSound
    <3>5. QED
      BY <2>4, <3>1, <3>4 DEF m
  <2>7. ASSUME NEW p \in Procs, Dies(p) PROVE AllSound'
    <3>1. Exit(p) /\ UNCHANGED world /\ manifest' = manifest
      BY <2>7 DEF Dies
    <3>2. QED
      BY <1>1, <2>4, <3>1
  <2>8. QED
    BY <1>3, <2>1, <2>2, <2>3, <2>5, <2>6, <2>7, OutsideSound, NextCases
<1>4. QED
  BY <1>2, <1>3

LEMMA SoundInit == Init => AllSound
<1> SUFFICES ASSUME Init PROVE AllSound
  OBVIOUS
<1>1. now = 1 /\ manifest = <<>> /\ proc = [p \in Procs |-> cache_init]
  BY DEF Init
<1>2. PICK c \in [Files -> Contents] :
        disk = [f \in Files |-> [content |-> c[f], attr |-> [mtime |-> Stamp, inode |-> 1]]]
  BY DEF Init
<1>3. Stamp \in Nat
  BY <1>1, StampType
<1>4. DiskSound
  BY <1>2, <1>3 DEF DiskSound
<1>5. QED
  BY <1>1, <1>4, IdleSound DEF AllSound

\* A file that has just been opened has its name.
LEMMA OpenedFile ==
  ASSUME Base, NEW p \in Procs, Hitting(p), proc'[p].pc \in Hashing
  PROVE  proc'[p].fd = Null
<1>1. CASE Trust(p)
  BY <1>1, TrustStep DEF Hashing
<1>2. CASE Distrust(p)
  BY <1>2, DistrustStep
<1>3. CASE Rehash(p)
  BY <1>3, RehashStep DEF Hashing
<1>4. CASE InvalidFormat(p)
  BY <1>4, InvalidFormatStep DEF Hashing
<1>5. CASE Missing(p)
  BY <1>5, MissingShape DEF Hashing
<1>6. CASE Miss(p)
  BY <1>6, MissStep DEF Hashing
<1>7. CASE Hit(p)
  BY <1>7, HitShape DEF Hashing
<1>8. CASE FillOpen(p) /\ PastInputs(p)
  BY <1>8, FilledShape DEF Hashing
<1>9. CASE FillOpen(p) /\ ~PastInputs(p)
  BY <1>9, FillOpenStep
<1>10. CASE FillHash(p)
  BY <1>10, FillHashStep DEF Hashing
<1>11. CASE Compile(p)
  BY <1>11, CompileStep DEF Hashing
<1>12. CASE AddOpen(p)
  BY <1>12, AddOpenStep
<1>13. CASE AddHash(p)
  BY <1>13, AddHashStep DEF Hashing
<1>14. QED
  BY <1>1, <1>2, <1>3, <1>4, <1>5, <1>6, <1>7, <1>8, <1>9, <1>10, <1>11, <1>12, <1>13
     DEF Hitting

\* The file that is being hashed is one of the list.
LEMMA CurrentEntry ==
  ASSUME Base, NEW p \in Procs, proc[p].pc \in Hashing
  PROVE  LET q == proc[p]  e == q.files[Current(q)] IN
         /\ Current(q) \in 1..Len(q.files) /\ e \in Entries
         /\ q.pc = "fillhash" => q.i <= NumInputs
         /\ q.pc = "addhash" => 1 \in 1..Len(q.todo) /\ e.path = q.todo[1]
<1> DEFINE q == proc[p]
<1>1. /\ Shape(q) /\ q.i \in Nat \ {0} /\ Len(q.files) \in Nat /\ q.todo \in Seq(Files)
      /\ NumInputs \in Nat \ {0} /\ \A k \in 1..Len(q.files) : q.files[k] \in Entries
  BY FieldTypes, ConstantTypes DEF Base, Shaped
<1>2. /\ q.pc = "rehash" => q.i <= Len(q.files)
      /\ q.pc = "fillhash" => q.i <= NumInputs /\ NumInputs <= Len(q.files)
      /\ q.pc = "addhash" => /\ q.todo # <<>> /\ Len(q.files) > NumInputs
                             /\ q.files[Len(q.files)].path = Head(q.todo)
  BY <1>1 DEF Shape
<1>3. q.todo # <<>> => 1 \in 1..Len(q.todo) /\ Head(q.todo) = q.todo[1]
  BY <1>1, HeadTailProperties
<1>4. q.pc \in {"rehash", "fillhash", "addhash"}
  BY DEF Hashing
<1>5. Current(q) = IF q.pc = "addhash" THEN Len(q.files) ELSE q.i
  BY DEF Current
<1> HIDE DEF q
<1>6. Current(q) \in 1..Len(q.files)
  BY <1>1, <1>2, <1>4, <1>5
<1>7. QED
  BY <1>1, <1>2, <1>3, <1>5, <1>6 DEF q

LEMMA OutsideDescriptor ==
  ASSUME Base, AllSound, Descriptors, Outside, NEW p \in Procs
  PROVE  Descriptor(proc[p])'
<1> DEFINE q == proc[p]
           r == proc'[p]
           e == q.files[Current(q)]
<1>1. /\ Types /\ Types' /\ DiskSound /\ FilesSound(q) /\ Descriptor(q)
      /\ r.pc = q.pc /\ r.i = q.i /\ r.files = q.files
  BY OutsideTypes DEF Base, AllSound, Descriptors
<1>2. SUFFICES ASSUME q.pc \in Hashing, r.fd # Null
               PROVE  /\ e.path \in Files /\ e.attr.inode < disk'[e.path].attr.inode
                      /\ r.disturbed \/ (q.pc = "rehash" /\ q.i > NumInputs)
  <2>1. Current(r) = Current(q)
    BY <1>1 DEF Current
  <2>2. Descriptor(proc[p])' <=>
          (r.pc \in Hashing /\ r.fd # Null =>
             /\ r.files[Current(r)].path \in Files
             /\ r.files[Current(r)].attr.inode < disk'[r.files[Current(r)].path].attr.inode
             /\ r.disturbed \/ (r.pc = "rehash" /\ r.i > NumInputs))
    BY DEF Descriptor, Current
  <2>3. QED
    BY <1>1, <2>1, <2>2
<1>3. /\ Current(q) \in 1..Len(q.files) /\ e \in Entries
      /\ q.pc = "fillhash" => q.i <= NumInputs
      /\ q.pc = "addhash" => 1 \in 1..Len(q.todo) /\ e.path = q.todo[1]
  BY <1>2, CurrentEntry
<1>4. e.attr.inode \in Nat
  <2>1. e.attr \in Attrs
    BY <1>3 DEF Entries
  <2>2. QED
    BY <2>1 DEF Attrs
<1>5. ASSUME NEW f \in Files
      PROVE  /\ disk[f].attr.inode \in Nat /\ disk'[f].attr.inode \in Nat
             /\ disk[f].attr.inode <= disk'[f].attr.inode
  <2>1. disk[f] \in [content : Contents, attr : Attrs] /\ disk'[f] \in [content : Contents, attr : Attrs]
    BY <1>1 DEF Types
  <2>2. disk[f].attr.inode \in Nat /\ disk'[f].attr.inode \in Nat
    BY <2>1 DEF Attrs
  <2>3. QED
    BY <1>1, <2>2, OutsideDisk
<1>6. ASSUME r.fd = q.fd, q.disturbed => r.disturbed
      PROVE  /\ e.path \in Files /\ e.attr.inode < disk'[e.path].attr.inode
             /\ r.disturbed \/ (q.pc = "rehash" /\ q.i > NumInputs)
  <2>1. /\ e.path \in Files /\ e.attr.inode < disk[e.path].attr.inode
        /\ q.disturbed \/ (q.pc = "rehash" /\ q.i > NumInputs)
    BY <1>1, <1>2, <1>6 DEF Descriptor
  <2>2. /\ disk[e.path].attr.inode \in Nat /\ disk'[e.path].attr.inode \in Nat
        /\ disk[e.path].attr.inode <= disk'[e.path].attr.inode
    BY <1>5, <2>1
  <2> HIDE DEF e, q, r
  <2>3. QED
    BY <1>4, <1>6, <2>1, <2>2
<1>7. CASE Tick
  <2>1. r = q
    BY <1>7 DEF Tick
  <2>2. QED
    BY <1>6, <2>1
<1>8. ASSUME NEW f \in Files, Touched(f)
      PROVE  /\ e.path \in Files /\ e.attr.inode < disk'[e.path].attr.inode
             /\ r.disturbed \/ (q.pc = "rehash" /\ q.i > NumInputs)
  <2>1. /\ q.disturbed \/ Relies(p, f) => r.disturbed
        /\ \/ r.fd = q.fd
           \/ /\ HasOpen(p, f) /\ (r.disturbed \/ PastInputs(p))
              /\ disk'[f].attr.inode = disk[f].attr.inode + 1
    BY <1>1, <1>8, TouchedStep
  <2>2. CASE r.fd = q.fd
    BY <1>6, <2>1, <2>2
  <2>3. CASE /\ HasOpen(p, f) /\ (r.disturbed \/ PastInputs(p))
             /\ disk'[f].attr.inode = disk[f].attr.inode + 1
    <3>1. e.path = f
      BY <2>3 DEF HasOpen
    <3>2. e.attr.inode <= disk[f].attr.inode
      <4>1. Older(e)
        BY <1>1, <1>3 DEF FilesSound
      <4>2. e.path # Null
        BY <3>1, ConstantTypes
      <4>3. QED
        BY <3>1, <4>1, <4>2 DEF Older
    <3>3. e.attr.inode < disk'[f].attr.inode
      BY <1>4, <1>5, <2>3, <3>2
    <3>4. q.pc = "addhash" => r.disturbed
      BY <1>3, <2>1, <3>1 DEF Relies
    <3>5. q.i \in Nat /\ NumInputs \in Nat /\ (PastInputs(p) <=> q.i > NumInputs)
      BY <1>1, FieldTypes, ConstantTypes DEF PastInputs
    <3>6. q.pc \in {"rehash", "fillhash", "addhash"}
      BY <1>2 DEF Hashing
    <3>7. r.disturbed \/ (q.pc = "rehash" /\ q.i > NumInputs)
      <4> HIDE DEF q, r
      <4>1. QED
        BY <1>3, <2>3, <3>4, <3>5, <3>6
    <3>8. QED
      BY <3>1, <3>3, <3>7
  <2>4. QED
    BY <2>1, <2>2, <2>3
<1>9. QED
  BY <1>7, <1>8 DEF Outside, Touched

LEMMA DescriptorStep == Base /\ AllSound /\ Descriptors /\ [Next]_vars => Descriptors'
<1> SUFFICES ASSUME Base, AllSound, Descriptors, [Next]_vars PROVE Descriptors'
  OBVIOUS
<1>1. CASE UNCHANGED vars
  BY <1>1 DEF vars, world, Descriptors, Descriptor, Current
<1>2. ASSUME NEW p \in Procs, Only(p), UNCHANGED world,
             proc'[p].pc \in Hashing => proc'[p].fd = Null
      PROVE  Descriptors'
  <2>1. disk' = disk
    BY <1>2 DEF world
  <2>2. ASSUME NEW x \in Procs PROVE Descriptor(proc[x])'
    <3>1. CASE x = p
      BY <1>2, <3>1 DEF Descriptor
    <3>2. CASE x # p
      <4>1. proc'[x] = proc[x] /\ Descriptor(proc[x])
        BY <1>2, <3>2 DEF Only, Descriptors
      <4>2. QED
        BY <2>1, <4>1 DEF Descriptor, Current
    <3>3. QED
      BY <3>1, <3>2
  <2>3. QED
    BY <2>2 DEF Descriptors
<1>3. CASE Next
  <2>1. ASSUME NEW p \in Procs, OpenManifest(p) PROVE Descriptors'
    <3>1. Only(p) /\ proc'[p] = Opened /\ UNCHANGED world
      BY <2>1, OpenStep
    <3>2. Opened.pc = "check"
      BY OpenedType DEF Base
    <3>3. QED
      BY <1>2, <3>1, <3>2 DEF Hashing
  <2>2. ASSUME NEW p \in Procs, Hitting(p) PROVE Descriptors'
    <3>1. Only(p) /\ UNCHANGED world
      BY <2>2, HittingBase
    <3>2. QED
      BY <1>2, <2>2, <3>1, OpenedFile
  <2>3. ASSUME NEW p \in Procs, Final(p) PROVE Descriptors'
    <3>1. Only(p) /\ proc'[p].pc = "use" /\ UNCHANGED world
      BY <2>3, FinalShape DEF Final
    <3>2. QED
      BY <1>2, <3>1 DEF Hashing
  <2>4. ASSUME NEW p \in Procs, Exit(p), UNCHANGED world PROVE Descriptors'
    <3>1. Only(p) /\ proc'[p].pc = "idle"
      BY <2>4, ExitStep, IdleShape
    <3>2. QED
      BY <1>2, <2>4, <3>1 DEF Hashing
  <2>5. ASSUME NEW p \in Procs, cache_release(p) PROVE Descriptors'
    <3>1. UNCHANGED world
      BY <2>5 DEF cache_release
    <3>2. CASE Exit(p)
      BY <2>4, <3>1, <3>2
    <3>3. CASE ~Exit(p)
      <4>1. Only(p) /\ proc'[p].pc = "write"
        BY <2>5, <3>3, TruncateShape
      <4>2. QED
        BY <1>2, <3>1, <4>1 DEF Hashing
    <3>4. QED
      BY <3>2, <3>3
  <2>6. ASSUME NEW p \in Procs, WriteManifest(p) \/ Dies(p) PROVE Descriptors'
    <3>1. Exit(p) /\ UNCHANGED world
      BY <2>6 DEF WriteManifest, Dies
    <3>2. QED
      BY <2>4, <3>1
  <2>7. ASSUME Outside PROVE Descriptors'
    BY <2>7, OutsideDescriptor DEF Descriptors
  <2>8. QED
    BY <1>3, <2>1, <2>2, <2>3, <2>5, <2>6, <2>7, NextCases
<1>4. QED
  BY <1>1, <1>3

LEMMA DescriptorInit == Init => Descriptors
<1> SUFFICES ASSUME Init, NEW p \in Procs PROVE Descriptor(proc[p])
  BY DEF Descriptors
<1>1. proc[p].pc = "idle"
  BY IdleShape DEF Init
<1>2. QED
  BY <1>1 DEF Descriptor, Hashing

LEMMA SoundInvariant == PowerOfTwo => (Spec => [](Base /\ AllSound /\ Descriptors))
<1> SUFFICES ASSUME PowerOfTwo PROVE Spec => [](Base /\ AllSound /\ Descriptors)
  OBVIOUS
<1>1. Init => Base /\ AllSound /\ Descriptors
  BY BaseInit, SoundInit, DescriptorInit
<1>2. Base /\ AllSound /\ Descriptors /\ [Next]_vars => Base' /\ AllSound' /\ Descriptors'
  BY BaseStep, SoundStep, DescriptorStep
<1>3. QED
  BY <1>1, <1>2, PTL DEF Spec

\* A line of the manifest with the time stamp and the inode of its file holds
\* the digest of what the file holds now, however the file was changed, when
\* the resolution of the time stamps is a power of two.
THEOREM LinesCanBeTrusted == PowerOfTwo => (Spec => []ManifestTruthful)
<1> SUFFICES ASSUME PowerOfTwo PROVE Spec => []ManifestTruthful
  OBVIOUS
<1>1. AllSound => ManifestTruthful
  BY DEF AllSound, LinesSound, Sound, ManifestTruthful
<1>2. QED
  BY <1>1, SoundInvariant, PTL

-----------------------------------------------------------------------------
(***************************************************************************)
(* The hash, when a write that is cut short leaves no whole line.          *)
(***************************************************************************)

\* One digest more.
LEMMA HashedOne ==
  ASSUME NEW q, NEW r, NEW n \in Nat, NEW d \in Contents, q.hash \in Seq(Contents),
         Hashed(q, n), r.hash = Append(q.hash, d), r.files[n + 1].digest = d,
         \A k \in 1..n : r.files[k].digest = q.files[k].digest
  PROVE  Hashed(r, n + 1)
<1>1. Len(q.hash) = n /\ \A k \in 1..n : q.hash[k] = q.files[k].digest
  BY DEF Hashed
<1>2. /\ Len(r.hash) = n + 1 /\ r.hash[n + 1] = d
      /\ \A k \in 1..n : r.hash[k] = q.hash[k]
  BY <1>1, AppendProperties
<1>3. \A k \in 1..(n + 1) : k \in 1..n \/ k = n + 1
  OBVIOUS
<1>4. QED
  BY <1>1, <1>2, <1>3 DEF Hashed

\* The same digests.
LEMMA HashedSame ==
  ASSUME NEW q, NEW r, NEW n \in Nat, Hashed(q, n), r.hash = q.hash,
         \A k \in 1..n : r.files[k].digest = q.files[k].digest
  PROVE  Hashed(r, n)
  BY DEF Hashed

\* Where the manifest ends or a line is torn there is nothing to compare.
LEMMA CutShort ==
  ASSUME Base, AllHashed, NEW p \in Procs, proc[p].pc = "check",
         \/ HasLine(p) /\ proc[p].lines[proc[p].i] = Torn
         \/ ~HasLine(p) /\ proc[p].i <= NumInputs
  PROVE  proc[p].i = 1 /\ ~proc[p].changed /\ Len(proc[p].files) = NumInputs
<1> DEFINE q == proc[p]
<1>1. /\ Whole(manifest) /\ q.lines = manifest
  BY DEF AllHashed
<1>2. /\ Shape(q) /\ Compared(q) /\ q.i \in Nat \ {0} /\ Len(q.files) \in Nat
      /\ Len(q.lines) \in Nat /\ NumInputs \in Nat \ {0}
  BY FieldTypes, ConstantTypes DEF Base, Shaped
<1> HIDE DEF q
<1>3. q.pc = "check"
  BY DEF q
<1>4. \/ q.i <= Len(q.lines) /\ q.lines[q.i] = Torn
      \/ ~(q.i <= Len(q.lines)) /\ q.i <= NumInputs
  BY DEF q, HasLine
<1>5. /\ NumInputs <= Len(q.files) /\ Len(q.files) \in {NumInputs, q.i - 1}
      /\ q.i - 1 <= Len(q.lines)
      /\ \A k \in 1..(q.i - 1) : q.lines[k] # Torn
      /\ q.changed => \E k \in 1..(q.i - 1) : TRUE
  BY <1>2, <1>3 DEF Shape, Compared, Checking
<1>6. \/ q.lines = <<>> \/ q.lines = <<Torn>>
      \/ NumInputs <= Len(q.lines) /\ \A k \in 1..Len(q.lines) : q.lines[k] # Torn
  BY <1>1 DEF Whole, q
<1>7. q.i = 1
  <2>1. CASE q.lines = <<>>
    BY <1>2, <1>4, <1>5, <2>1
  <2>2. CASE q.lines = <<Torn>>
    <3>1. Len(q.lines) = 1 /\ q.lines[1] = Torn
      BY <2>2
    <3>2. q.i # 2
      <4> SUFFICES ASSUME q.i = 2 PROVE FALSE
        OBVIOUS
      <4>1. 1 \in 1..(q.i - 1)
        OBVIOUS
      <4>2. QED
        BY <1>5, <3>1, <4>1
    <3>3. QED
      BY <1>2, <1>5, <3>1, <3>2
  <2>3. CASE NumInputs <= Len(q.lines) /\ \A k \in 1..Len(q.lines) : q.lines[k] # Torn
    BY <1>2, <1>4, <2>3
  <2>4. QED
    BY <1>6, <2>1, <2>2, <2>3
<1>8. ~q.changed /\ Len(q.files) = NumInputs
  BY <1>2, <1>5, <1>7
<1>9. QED
  BY <1>7, <1>8 DEF q

LEMMA HittingHashed ==
  ASSUME Base, AllHashed, NEW p \in Procs, Hitting(p)
  PROVE  HashShape(proc'[p])
<1> DEFINE q == proc[p]
           r == proc'[p]
<1>1. HashShape(q) /\ Shape(q)
  BY DEF AllHashed, Base, Shaped
<1>2. /\ q.i \in Nat \ {0} /\ Len(q.files) \in Nat /\ Len(q.lines) \in Nat
      /\ NumInputs \in Nat \ {0} /\ q.hash \in Seq(Contents) /\ q.changed \in BOOLEAN
      /\ q.i - 1 \in Nat /\ (q.i - 1) + 1 = q.i
  BY FieldTypes, ConstantTypes DEF Base
<1>3. CASE Trust(p)
  <2> DEFINE e == q.lines[q.i]
  <2>1. /\ q.pc = "check" /\ r.pc = "check" /\ r.i = q.i + 1 /\ r.changed = q.changed
        /\ r.files[q.i] = e
        /\ \A k \in 1..Len(q.files) : k # q.i => r.files[k] = q.files[k]
        /\ r.hash = IF q.changed THEN q.hash ELSE Append(q.hash, e.digest)
        /\ HasLine(p) /\ e # Torn
    BY <1>3, TrustStep
  <2>2. e.digest \in Contents
    BY <2>1, CurrentLine DEF Checking
  <2>3. q.i - 1 <= Len(q.files)
    BY <1>1, <2>1 DEF Shape, Checking
  <2>4. \A k \in 1..(q.i - 1) : r.files[k] = q.files[k]
    <3>1. \A k \in 1..(q.i - 1) : k \in 1..Len(q.files) /\ k # q.i
      <4> HIDE DEF q
      <4>1. QED
        BY <1>2, <2>3
    <3>2. QED
      BY <2>1, <3>1
  <2>5. ASSUME ~q.changed PROVE Hashed(r, q.i)
    <3>1. Hashed(q, q.i - 1)
      BY <1>1, <2>1, <2>5 DEF HashShape, Checking
    <3>2. r.hash = Append(q.hash, e.digest) /\ r.files[(q.i - 1) + 1].digest = e.digest
      BY <1>2, <2>1, <2>5
    <3> HIDE DEF q, r, e
    <3>3. Hashed(r, (q.i - 1) + 1)
      BY <1>2, <2>2, <2>4, <3>1, <3>2, HashedOne
    <3>4. QED
      BY <1>2, <3>3
  <2>6. r.i - 1 = q.i
    BY <1>2, <2>1
  <2> HIDE DEF q, r, e
  <2>7. QED
    BY <2>1, <2>5, <2>6 DEF HashShape, Checking, Filling, r
<1>4. CASE Distrust(p)
  <2>1. /\ q.pc = "check" /\ r.pc = "rehash" /\ r.i = q.i /\ r.changed = q.changed
        /\ \A k \in 1..Len(q.files) : k # q.i => r.files[k] = q.files[k]
        /\ r.hash = q.hash
    BY <1>4, DistrustStep
  <2>2. q.i - 1 <= Len(q.files)
    BY <1>1, <2>1 DEF Shape, Checking
  <2>3. \A k \in 1..(q.i - 1) : r.files[k] = q.files[k]
    BY <1>2, <2>1, <2>2
  <2>4. ASSUME ~q.changed PROVE Hashed(r, q.i - 1)
    <3>1. Hashed(q, q.i - 1)
      BY <1>1, <2>1, <2>4 DEF HashShape, Checking
    <3>2. QED
      <4>1. \A k \in 1..(q.i - 1) : r.files[k].digest = q.files[k].digest
        BY <2>3
      <4> HIDE DEF q, r
      <4>2. QED
        BY <1>2, <2>1, <3>1, <4>1, HashedSame
  <2> HIDE DEF q, r
  <2>5. QED
    BY <2>1, <2>4 DEF HashShape, Checking, Filling, r
<1>5. CASE Rehash(p)
  <2> DEFINE e == q.files[q.i]
             d == hash_file(q)
  <2>1. /\ q.pc = "rehash" /\ r.pc = "check" /\ r.i = q.i + 1 /\ q.i \in 1..Len(q.files)
        /\ r.changed = (q.changed \/ d # e.digest) /\ d \in Contents
        /\ r.files[q.i].digest = d
        /\ \A k \in 1..Len(q.files) : k # q.i => r.files[k] = q.files[k]
        /\ r.hash = IF r.changed THEN q.hash ELSE Append(q.hash, d)
    BY <1>5, RehashStep
  <2>2. \A k \in 1..(q.i - 1) : r.files[k] = q.files[k]
    <3>1. \A k \in 1..(q.i - 1) : k \in 1..Len(q.files) /\ k # q.i
      <4> HIDE DEF q
      <4>1. QED
        <5>1. q.i \in 1..Len(q.files)
          BY <2>1
        <5>2. QED
          BY <1>2, <5>1
    <3>2. QED
      BY <2>1, <3>1
  <2>3. ASSUME ~r.changed PROVE Hashed(r, q.i)
    <3>1. ~q.changed
      BY <2>1, <2>3
    <3>2. Hashed(q, q.i - 1)
      BY <1>1, <2>1, <3>1 DEF HashShape, Checking
    <3>3. r.hash = Append(q.hash, d) /\ r.files[(q.i - 1) + 1].digest = d
      BY <1>2, <2>1, <2>3
    <3> HIDE DEF q, r, d
    <3>4. Hashed(r, (q.i - 1) + 1)
      BY <1>2, <2>1, <2>2, <3>2, <3>3, HashedOne
    <3>5. QED
      BY <1>2, <3>4
  <2>4. r.i - 1 = q.i
    BY <1>2, <2>1
  <2> HIDE DEF q, r, d, e
  <2>5. QED
    BY <2>1, <2>3, <2>4 DEF HashShape, Checking, Filling, r
<1>6. CASE InvalidFormat(p) \/ Missing(p)
  <2>1. q.pc = "check" /\ q.i = 1 /\ ~q.changed /\ Len(q.files) = NumInputs
    <3>1. CASE InvalidFormat(p)
      BY <3>1, InvalidFormatStep, CutShort
    <3>2. CASE Missing(p)
      BY <3>2, MissingShape, CutShort
    <3>3. QED
      BY <1>6, <3>1, <3>2
  <2>2. r.pc = "fill" /\ r.i = q.i /\ r.hash = q.hash /\ r.files = q.files
    <3>1. CASE InvalidFormat(p)
      <4>1. ~PastInputs(p)
        BY <1>2, <2>1 DEF PastInputs
      <4>2. QED
        BY <3>1, <4>1, InvalidFormatStep
    <3>2. CASE Missing(p)
      BY <3>2, MissingShape
    <3>3. QED
      BY <1>6, <3>1, <3>2
  <2>3. Hashed(r, r.i - 1)
    <3>1. Hashed(q, q.i - 1)
      BY <1>1, <2>1 DEF HashShape, Checking
    <3>2. QED
      BY <2>2, <3>1 DEF Hashed
  <2>4. r.i <= NumInputs + 1 /\ Len(r.files) = NumInputs
    BY <1>2, <2>1, <2>2
  <2> HIDE DEF q, r
  <2>5. QED
    BY <2>2, <2>3, <2>4 DEF HashShape, Checking, Filling, r
<1>7. CASE Miss(p)
  <2>1. /\ r.pc = "build" /\ Len(r.files) = NumInputs /\ Len(r.hash) = NumInputs
        /\ \A k \in 1..NumInputs : r.files[k] = q.files[k]
        /\ \A k \in 1..NumInputs : r.hash[k] = q.files[k].digest
    BY <1>7, MissStep
  <2>2. Hashed(r, Len(r.files))
    BY <2>1 DEF Hashed
  <2> HIDE DEF q, r
  <2>3. QED
    BY <2>1, <2>2 DEF HashShape, Checking, Filling, r
<1>8. CASE Hit(p)
  <2>1. /\ q.pc = "check" /\ ~q.changed /\ Len(q.files) = q.i - 1
        /\ r.pc = "use" /\ r.files = q.files /\ r.hash = q.hash
    BY <1>8, HitShape
  <2>2. Hashed(q, Len(q.files))
    BY <1>1, <2>1 DEF HashShape, Checking
  <2>3. Hashed(r, Len(r.files))
    BY <2>1, <2>2 DEF Hashed
  <2> HIDE DEF q, r
  <2>4. QED
    BY <2>1, <2>3 DEF HashShape, Checking, Filling, r
<1>9. CASE FillOpen(p) /\ PastInputs(p)
  <2>1. /\ q.pc = "fill" /\ q.i > NumInputs
        /\ r.pc = "build" /\ r.files = q.files /\ r.hash = q.hash
    BY <1>9, FilledShape
  <2>2. Hashed(q, q.i - 1) /\ q.i <= NumInputs + 1 /\ Len(q.files) = NumInputs
    BY <1>1, <2>1 DEF HashShape, Filling
  <2>3. q.i - 1 = Len(q.files)
    BY <1>2, <2>1, <2>2
  <2>4. Hashed(r, Len(r.files)) /\ Len(r.files) = NumInputs
    BY <2>1, <2>2, <2>3 DEF Hashed
  <2> HIDE DEF q, r
  <2>5. QED
    BY <2>1, <2>4 DEF HashShape, Checking, Filling, r
<1>10. CASE FillOpen(p) /\ ~PastInputs(p)
  <2>1. /\ q.pc = "fill" /\ q.i \in 1..Len(q.files)
        /\ r.pc = "fillhash" /\ r.i = q.i /\ r.hash = q.hash /\ Len(r.files) = Len(q.files)
        /\ \A k \in 1..Len(q.files) : k # q.i => r.files[k] = q.files[k]
    BY <1>10, FillOpenStep
  <2>2. Hashed(q, q.i - 1) /\ q.i <= NumInputs + 1 /\ Len(q.files) = NumInputs
    BY <1>1, <2>1 DEF HashShape, Filling
  <2>3. \A k \in 1..(q.i - 1) : r.files[k] = q.files[k]
    <3>1. \A k \in 1..(q.i - 1) : k \in 1..Len(q.files) /\ k # q.i
      <4> HIDE DEF q
      <4>1. QED
        BY <1>2, <2>1
    <3>2. QED
      BY <2>1, <3>1
  <2>4. Hashed(r, r.i - 1)
    <3>1. \A k \in 1..(q.i - 1) : r.files[k].digest = q.files[k].digest
      BY <2>3
    <3> HIDE DEF q, r
    <3>2. Hashed(r, q.i - 1)
      BY <1>2, <2>1, <2>2, <3>1, HashedSame
    <3>3. QED
      BY <2>1, <3>2
  <2> HIDE DEF q, r
  <2>5. QED
    BY <2>1, <2>2, <2>4 DEF HashShape, Checking, Filling, r
<1>11. CASE FillHash(p)
  <2> DEFINE d == hash_file(q)
  <2>1. /\ q.pc = "fillhash" /\ q.i \in 1..NumInputs /\ q.i \in 1..Len(q.files)
        /\ r.pc = "fill" /\ r.i = q.i + 1 /\ Len(r.files) = Len(q.files) /\ d \in Contents
        /\ r.files[q.i].digest = d /\ r.hash = Append(q.hash, d)
        /\ \A k \in 1..Len(q.files) : k # q.i => r.files[k] = q.files[k]
    BY <1>11, FillHashStep
  <2>2. Hashed(q, q.i - 1) /\ Len(q.files) = NumInputs
    BY <1>1, <2>1 DEF HashShape, Filling
  <2>3. \A k \in 1..(q.i - 1) : r.files[k] = q.files[k]
    <3>1. \A k \in 1..(q.i - 1) : k \in 1..Len(q.files) /\ k # q.i
      <4> HIDE DEF q
      <4>1. QED
        <5>1. q.i \in 1..Len(q.files)
          BY <2>1
        <5>2. QED
          BY <1>2, <5>1
    <3>2. QED
      BY <2>1, <3>1
  <2>4. r.files[(q.i - 1) + 1].digest = d
    BY <1>2, <2>1
  <2>5. r.i - 1 = (q.i - 1) + 1 /\ r.i <= NumInputs + 1
    BY <1>2, <2>1
  <2> HIDE DEF q, r, d
  <2>6. Hashed(r, r.i - 1)
    BY <1>2, <2>1, <2>2, <2>3, <2>4, <2>5, HashedOne
  <2>7. QED
    BY <2>1, <2>2, <2>5, <2>6 DEF HashShape, Checking, Filling, r
<1>12. CASE Compile(p)
  <2>1. q.pc = "build" /\ r.pc = "add" /\ r.files = q.files /\ r.hash = q.hash
    BY <1>12, CompileStep
  <2>2. Hashed(q, Len(q.files))
    BY <1>1, <2>1 DEF HashShape
  <2>3. Hashed(r, Len(r.files))
    BY <2>1, <2>2 DEF Hashed
  <2> HIDE DEF q, r
  <2>4. QED
    BY <2>1, <2>3 DEF HashShape, Checking, Filling, r
<1>13. CASE AddOpen(p)
  <2>1. /\ q.pc = "add" /\ r.pc = "addhash" /\ r.hash = q.hash
        /\ Len(r.files) = Len(q.files) + 1
        /\ \A k \in 1..Len(q.files) : r.files[k] = q.files[k]
    BY <1>13, AddOpenStep
  <2>2. Hashed(q, Len(q.files))
    BY <1>1, <2>1 DEF HashShape
  <2>3. Len(r.files) - 1 = Len(q.files)
    BY <1>2, <2>1
  <2>4. Hashed(r, Len(r.files) - 1)
    <3>1. \A k \in 1..Len(q.files) : r.files[k].digest = q.files[k].digest
      BY <2>1
    <3> HIDE DEF q, r
    <3>2. Hashed(r, Len(q.files))
      BY <1>2, <2>1, <2>2, <3>1, HashedSame
    <3>3. QED
      BY <2>3, <3>2
  <2> HIDE DEF q, r
  <2>5. QED
    BY <2>1, <2>4 DEF HashShape, Checking, Filling, r
<1>14. CASE AddHash(p)
  <2> DEFINE n == Len(q.files)
             d == hash_file(q)
  <2>1. /\ q.pc = "addhash" /\ r.pc = "add" /\ n > NumInputs /\ Len(r.files) = n
        /\ r.files[n].digest = d /\ r.hash = Append(q.hash, d) /\ d \in Contents
        /\ \A k \in 1..(n - 1) : r.files[k] = q.files[k]
    BY <1>14, AddHashStep
  <2>2. Hashed(q, n - 1)
    BY <1>1, <2>1 DEF HashShape
  <2>3. n - 1 \in Nat /\ (n - 1) + 1 = n
    BY <1>2, <2>1
  <2> HIDE DEF q, r, d, n
  <2>4. Hashed(r, (n - 1) + 1)
    BY <1>2, <2>1, <2>2, <2>3, HashedOne
  <2>5. Hashed(r, Len(r.files))
    BY <2>1, <2>3, <2>4
  <2>6. QED
    BY <2>1, <2>5 DEF HashShape, Checking, Filling, r
<1>15. QED
  BY <1>3, <1>4, <1>5, <1>6, <1>7, <1>8, <1>9, <1>10, <1>11, <1>12, <1>13, <1>14 DEF Hitting

LEMMA IdleHashed ==
  ASSUME NEW q, q.pc = "idle"
  PROVE  HashShape(q)
  BY DEF HashShape, Checking, Filling

\* Only the process that has the lock is at work.
LEMMA OthersIdle ==
  ASSUME Base, NEW p \in Procs, proc[p].pc # "idle"
  PROVE  \A x \in Procs : x # p => proc[x].pc = "idle"
  BY DEF Base, Locked

LEMMA SteppedHashed ==
  ASSUME Base, AllHashed, NEW p \in Procs, Only(p), Whole(manifest'), HashShape(proc'[p]),
         proc[p].pc # "idle" \/ manifest' = manifest,
         proc'[p].pc \notin {"idle", "write"} => proc'[p].lines = manifest',
         proc'[p].pc = "write" => manifest' = <<>>
  PROVE  AllHashed'
<1>1. ASSUME NEW x \in Procs
      PROVE  /\ HashShape(proc'[x])
             /\ proc'[x].pc \notin {"idle", "write"} => proc'[x].lines = manifest'
             /\ proc'[x].pc = "write" => manifest' = <<>>
  <2>1. CASE x = p
    BY <2>1
  <2>2. CASE x # p /\ proc[p].pc # "idle"
    <3>1. proc'[x] = proc[x] /\ proc[x].pc = "idle"
      BY <2>2, OthersIdle DEF Only
    <3>2. QED
      BY <3>1, IdleHashed
  <2>3. CASE x # p /\ manifest' = manifest
    BY <2>3 DEF AllHashed, Only
  <2>4. QED
    BY <2>1, <2>2, <2>3
<1>2. QED
  BY <1>1 DEF AllHashed

LEMMA WriteWhole ==
  ASSUME Base, AllHashed, Cuts \subseteq {0}, NEW p \in Procs, WriteManifest(p)
  PROVE  /\ Whole(manifest')
         /\ manifest' = <<>> \/ manifest' = <<Torn>> \/ manifest' = proc[p].files
<1> DEFINE es == proc[p].files
           m == manifest'
<1>1. es \in Seq(Entries) /\ Shape(proc[p]) /\ proc[p].pc = "write" /\ m \in Written(es)
  BY FieldTypes DEF Base, Shaped, WriteManifest
<1>2. NumInputs <= Len(es) /\ \A k \in 1..Len(es) : es[k] # Torn
  <2>1. NumInputs <= Len(es)
    BY <1>1 DEF Shape
  <2>2. \A k \in 1..Len(es) : es[k] \in Entries
    BY <1>1, ElementOfSeq
  <2>3. QED
    BY <2>1, <2>2, TornAssumption
<1>3. m = <<>> \/ m = <<Torn>> \/ m = es
  BY <1>1, WrittenProperties
<1>4. QED
  BY <1>2, <1>3 DEF Whole

LEMMA HashStep == Cuts \subseteq {0} /\ Base /\ AllHashed /\ [Next]_vars => AllHashed'
<1> SUFFICES ASSUME Cuts \subseteq {0}, Base, AllHashed, [Next]_vars PROVE AllHashed'
  OBVIOUS
<1>1. Whole(manifest) /\ Whole(<<>>)
  BY DEF AllHashed, Whole
<1>2. CASE UNCHANGED vars
  BY <1>2 DEF vars, AllHashed
<1>3. CASE Next
  <2>1. ASSUME NEW p \in Procs, OpenManifest(p) PROVE AllHashed'
    <3>1. Only(p) /\ proc'[p] = Opened /\ manifest' = manifest
      BY <2>1, OpenStep
    <3>2. /\ Opened.pc = "check" /\ Opened.lines = manifest /\ Opened.i = 1
          /\ Opened.hash = <<>>
      BY OpenedType DEF Base
    <3>3. Hashed(Opened, 0)
      BY <3>2 DEF Hashed
    <3>4. HashShape(Opened)
      BY <3>2, <3>3 DEF HashShape, Checking, Filling
    <3>5. QED
      BY <1>1, <3>1, <3>2, <3>4, SteppedHashed
  <2>2. ASSUME NEW p \in Procs, Hitting(p) PROVE AllHashed'
    <3>1. /\ Only(p) /\ proc'[p].lines = proc[p].lines /\ manifest' = manifest
          /\ proc[p].pc # "idle" /\ proc'[p].pc \notin {"idle", "write"}
      BY <2>2, HittingBase
    <3>2. proc[p].pc # "write"
      BY <2>2 DEF Hitting, Trust, Distrust, Rehash, InvalidFormat, Missing, Miss, Hit,
                  FillOpen, FillHash, Compile, AddOpen, AddHash
    <3>3. proc[p].lines = manifest
      BY <3>1, <3>2 DEF AllHashed
    <3>4. QED
      BY <1>1, <2>2, <3>1, <3>3, HittingHashed, SteppedHashed
  <2>3. ASSUME NEW p \in Procs, Final(p) PROVE AllHashed'
    <3>1. /\ Only(p) /\ proc[p].pc = "add" /\ proc'[p].pc = "use"
          /\ proc'[p].lines = proc[p].lines
          /\ proc'[p].files = proc[p].files /\ proc'[p].hash = proc[p].hash
          /\ manifest' = manifest
      BY <2>3, FinalShape DEF Final
    <3>2. Hashed(proc[p], Len(proc[p].files)) /\ proc[p].lines = manifest
      BY <3>1 DEF AllHashed, HashShape
    <3>3. Hashed(proc'[p], Len(proc'[p].files))
      BY <3>1, <3>2 DEF Hashed
    <3>4. HashShape(proc'[p])
      BY <3>1, <3>3 DEF HashShape, Checking, Filling
    <3>5. QED
      BY <1>1, <3>1, <3>2, <3>4, SteppedHashed
  <2>4. ASSUME NEW p \in Procs, Exit(p), Whole(manifest'),
               proc[p].pc # "idle" \/ manifest' = manifest
        PROVE  AllHashed'
    <3>1. Only(p) /\ proc'[p].pc = "idle"
      BY <2>4, ExitStep, IdleShape
    <3>2. QED
      BY <2>4, <3>1, IdleHashed, SteppedHashed
  <2>5. ASSUME NEW p \in Procs, cache_release(p) PROVE AllHashed'
    <3>1. Whole(manifest') /\ proc[p].pc = "use"
      BY <1>1, <2>5 DEF cache_release
    <3>2. CASE Exit(p)
      BY <2>4, <3>1, <3>2
    <3>3. CASE ~Exit(p)
      <4>1. /\ Only(p) /\ proc[p].pc = "use" /\ proc'[p].pc = "write" /\ manifest' = <<>>
            /\ proc'[p].files = proc[p].files /\ proc'[p].hash = proc[p].hash
        BY <2>5, <3>3, TruncateShape
      <4>2. Hashed(proc[p], Len(proc[p].files))
        BY <4>1 DEF AllHashed, HashShape
      <4>3. Hashed(proc'[p], Len(proc'[p].files))
        BY <4>1, <4>2 DEF Hashed
      <4>4. HashShape(proc'[p])
        BY <4>1, <4>3 DEF HashShape, Checking, Filling
      <4>5. QED
        BY <3>1, <4>1, <4>4, SteppedHashed
    <3>4. QED
      BY <3>2, <3>3
  <2>6. ASSUME NEW p \in Procs, WriteManifest(p) PROVE AllHashed'
    <3>1. Exit(p) /\ proc[p].pc # "idle" /\ Whole(manifest')
      BY <2>6, WriteWhole DEF WriteManifest
    <3>2. QED
      BY <2>4, <3>1
  <2>7. ASSUME NEW p \in Procs, Dies(p) PROVE AllHashed'
    <3>1. Exit(p) /\ manifest' = manifest
      BY <2>7 DEF Dies
    <3>2. QED
      BY <1>1, <2>4, <3>1
  <2>8. ASSUME Outside PROVE AllHashed'
    <3>1. /\ manifest' = manifest
          /\ \A p \in Procs :
               LET q == proc[p]  r == proc'[p] IN
               /\ r.pc = q.pc /\ r.lines = q.lines /\ r.i = q.i /\ r.changed = q.changed
               /\ r.files = q.files /\ r.hash = q.hash
      BY <2>8, OutsideTypes DEF Base
    <3>2. ASSUME NEW p \in Procs PROVE HashShape(proc'[p])
      <4>1. HashShape(proc[p])
        BY DEF AllHashed
      <4>2. QED
        BY <3>1, <4>1 DEF HashShape, Hashed
    <3>3. QED
      BY <3>1, <3>2 DEF AllHashed
  <2>9. QED
    BY <1>3, <2>1, <2>2, <2>3, <2>5, <2>6, <2>7, <2>8, NextCases
<1>4. QED
  BY <1>2, <1>3

\* The hash is the sequence of the digests it was made of.
LEMMA HashIsDigests ==
  ASSUME NEW q \in ProcType, Hashed(q, Len(q.files))
  PROVE  q.hash = Digests(q.files)
<1>1. q.hash \in Seq(Contents) /\ Len(q.files) \in Nat
  BY DEF ProcType
<1>2. DOMAIN q.hash = 1..Len(q.hash) /\ q.hash = [k \in DOMAIN q.hash |-> q.hash[k]]
  BY <1>1, LenProperties
<1>3. QED
  BY <1>2 DEF Digests, Hashed

-----------------------------------------------------------------------------
(***************************************************************************)
(* The artifacts.                                                          *)
(***************************************************************************)

\* While the files are hashed: they are still as they were.
LEMMA KeptInput ==
  ASSUME Base, AllRight, NEW p \in Procs,
         proc[p].pc \in Checking \cup Filling, proc'[p].pc \in Checking \cup Filling,
         SameBuild(p),
         proc'[p].i = proc[p].i,
         \A k \in 1..NumInputs : k < proc[p].i => proc'[p].files[k].digest = proc[p].files[k].digest
  PROVE  BuildRight(proc'[p])
  BY DEF AllRight, BuildRight, SameBuild, Checking, Filling

LEMMA NextInput ==
  ASSUME Base, AllRight, NEW p \in Procs,
         proc[p].pc \in Checking \cup Filling, proc'[p].pc \in Checking \cup Filling,
         SameBuild(p),
         proc'[p].i = proc[p].i + 1,
         ~proc[p].disturbed /\ proc[p].i <= NumInputs =>
           disk[Inputs[proc[p].i]].content = proc'[p].files[proc[p].i].digest,
         \A k \in 1..NumInputs : k < proc[p].i => proc'[p].files[k].digest = proc[p].files[k].digest
  PROVE  BuildRight(proc'[p])
<1> DEFINE q == proc[p]
           r == proc'[p]
<1>1. q.i \in Nat \ {0} /\ NumInputs \in Nat
  BY FieldTypes, ConstantTypes DEF Base
<1>2. ~q.disturbed =>
        \A k \in 1..NumInputs : k < q.i => disk[Inputs[k]].content = q.files[k].digest
  BY DEF AllRight, BuildRight
<1>3. r.disturbed = q.disturbed
  BY DEF SameBuild
<1>4. ASSUME ~r.disturbed, NEW k \in 1..NumInputs, k < r.i
      PROVE  disk[Inputs[k]].content = r.files[k].digest
  <2>1. CASE k = q.i
    BY <1>1, <1>3, <1>4, <2>1
  <2>2. CASE k # q.i
    <3>1. k < q.i
      BY <1>1, <1>4, <2>2
    <3>2. QED
      BY <1>2, <1>3, <1>4, <3>1
  <2>3. QED
    BY <2>1, <2>2
<1>5. QED
  BY <1>4 DEF BuildRight, Checking, Filling

\* A file that is hashed while nothing was disturbed is the one the compiler
\* reads.
LEMMA StillNamed ==
  ASSUME Types, Descriptors, NEW p \in Procs, proc[p].pc \in Hashing, ~proc[p].disturbed,
         proc[p].pc = "rehash" => proc[p].i <= NumInputs
  PROVE  proc[p].fd = Null
<1>1. proc[p].i \in Nat /\ NumInputs \in Nat
  BY FieldTypes, ConstantTypes
<1>2. Descriptor(proc[p])
  BY DEF Descriptors
<1>3. proc[p].fd # Null => proc[p].pc = "rehash" /\ proc[p].i > NumInputs
  BY <1>2 DEF Descriptor
<1>4. QED
  BY <1>1, <1>3

LEMMA HittingRight ==
  ASSUME Base, AllSound, Descriptors, AllHashed, AllRight, NEW p \in Procs, Hitting(p)
  PROVE  BuildRight(proc'[p])
<1> DEFINE q == proc[p]
           r == proc'[p]
<1>1. BuildRight(q) /\ HashShape(q) /\ Shape(q) /\ Compared(q) /\ LinesSound(q.lines)
  BY DEF AllRight, AllHashed, AllSound, Base, Shaped
<1>2. /\ q.i \in Nat \ {0} /\ Len(q.files) \in Nat /\ Len(q.lines) \in Nat
      /\ NumInputs \in Nat \ {0} /\ q.hash \in Seq(Contents) /\ q \in ProcType
      /\ q.todo \in Seq(Files) /\ Len(q.todo) \in Nat /\ q.built \in Seq(Contents)
      /\ Len(q.built) \in Nat
  BY FieldTypes, ConstantTypes DEF Base
<1>3. q.pc # "idle" => /\ NumInputs <= Len(q.files)
                       /\ \A k \in 1..NumInputs : k \in 1..Len(q.files)
                       /\ \A k \in 1..NumInputs : q.files[k].path = Inputs[k]
  <2>1. q.pc # "idle" => /\ NumInputs <= Len(q.files)
                         /\ \A k \in 1..NumInputs : q.files[k].path = Inputs[k]
    BY <1>1 DEF Shape
  <2> HIDE DEF q
  <2>2. QED
    BY <1>2, <2>1
<1>4. CASE Trust(p)
  <2> DEFINE e == q.lines[q.i]
  <2>1. /\ q.pc = "check" /\ r.pc = "check" /\ r.i = q.i + 1 /\ SameBuild(p)
        /\ r.files[q.i] = e /\ HasLine(p) /\ e # Torn /\ e.attr = disk[e.path].attr
        /\ \A k \in 1..Len(q.files) : k # q.i => r.files[k] = q.files[k]
    BY <1>4, TrustStep
  <2>2. /\ q.i \in 1..Len(q.lines) /\ e.digest \in Contents /\ e.path \in Files
        /\ q.i <= NumInputs => e.path = Inputs[q.i]
    BY <2>1, CurrentLine DEF Checking
  <2>3. e.digest = disk[e.path].content
    <3>1. Truthful(e)
      BY <1>1, <2>1, <2>2 DEF LinesSound, Sound
    <3>2. e.path # Null /\ e.digest # Null
      BY <2>2, ConstantTypes
    <3>3. QED
      BY <2>1, <3>1, <3>2 DEF Truthful
  <2>4. q.i <= NumInputs => disk[Inputs[q.i]].content = r.files[q.i].digest
    BY <2>1, <2>2, <2>3
  <2>5. \A k \in 1..NumInputs : k < q.i => r.files[k].digest = q.files[k].digest
    <3>1. \A k \in 1..NumInputs : k < q.i => k \in 1..Len(q.files) /\ k # q.i
      <4>1. q.pc # "idle"
        BY <2>1
      <4> HIDE DEF q
      <4>2. QED
        BY <1>2, <1>3, <4>1
    <3>2. QED
      BY <2>1, <3>1
  <2>6. q.pc \in Checking \cup Filling /\ r.pc \in Checking \cup Filling
    BY <2>1 DEF Checking
  <2>7. QED
    BY <2>1, <2>4, <2>5, <2>6, NextInput
<1>5. CASE Distrust(p)
  <2>1. /\ q.pc = "check" /\ r.pc = "rehash" /\ r.i = q.i /\ SameBuild(p)
        /\ \A k \in 1..Len(q.files) : k # q.i => r.files[k] = q.files[k]
    BY <1>5, DistrustStep
  <2>2. \A k \in 1..NumInputs : k < q.i => r.files[k].digest = q.files[k].digest
    BY <1>2, <1>3, <2>1
  <2>3. q.pc \in Checking \cup Filling /\ r.pc \in Checking \cup Filling
    BY <2>1 DEF Checking
  <2>4. QED
    BY <2>1, <2>2, <2>3, KeptInput
<1>6. CASE Rehash(p)
  <2>1. /\ q.pc = "rehash" /\ r.pc = "check" /\ r.i = q.i + 1 /\ SameBuild(p)
        /\ r.files[q.i].digest = hash_file(q)
        /\ q.fd = Null => hash_file(q) = disk[q.files[q.i].path].content
        /\ \A k \in 1..Len(q.files) : k # q.i => r.files[k] = q.files[k]
    BY <1>6, RehashStep
  <2>2. ~q.disturbed /\ q.i <= NumInputs => disk[Inputs[q.i]].content = r.files[q.i].digest
    <3>1. q.i <= NumInputs => q.files[q.i].path = Inputs[q.i]
      BY <1>2, <1>3, <2>1
    <3>2. ~q.disturbed /\ q.i <= NumInputs => q.fd = Null
      BY <2>1, StillNamed DEF Base, Hashing
    <3>3. QED
      BY <2>1, <3>1, <3>2
  <2>3. \A k \in 1..NumInputs : k < q.i => r.files[k].digest = q.files[k].digest
    <3>1. \A k \in 1..NumInputs : k < q.i => k \in 1..Len(q.files) /\ k # q.i
      <4>1. q.pc # "idle"
        BY <2>1
      <4> HIDE DEF q
      <4>2. QED
        BY <1>2, <1>3, <4>1
    <3>2. QED
      BY <2>1, <3>1
  <2>4. q.pc \in Checking \cup Filling /\ r.pc \in Checking \cup Filling
    BY <2>1 DEF Checking
  <2>5. QED
    BY <2>1, <2>2, <2>3, <2>4, NextInput
<1>7. CASE InvalidFormat(p)
  <2>1. /\ q.pc = "check" /\ r.pc = "fill" /\ r.i = q.i /\ SameBuild(p)
        /\ \A k \in 1..Len(q.files) : r.files[k] = q.files[k]
    BY <1>7, InvalidFormatStep
  <2>2. \A k \in 1..NumInputs : k < q.i => r.files[k].digest = q.files[k].digest
    BY <1>2, <1>3, <2>1
  <2>3. q.pc \in Checking \cup Filling /\ r.pc \in Checking \cup Filling
    BY <2>1 DEF Checking, Filling
  <2>4. QED
    BY <2>1, <2>2, <2>3, KeptInput
<1>8. CASE Missing(p)
  <2>1. q.pc = "check" /\ r.pc = "fill" /\ r.i = q.i /\ SameBuild(p) /\ r.files = q.files
    BY <1>8, MissingShape
  <2>2. q.pc \in Checking \cup Filling /\ r.pc \in Checking \cup Filling
    BY <2>1 DEF Checking, Filling
  <2>3. QED
    BY <2>1, <2>2, KeptInput
<1>9. ASSUME q.pc \in Checking \cup Filling, q.i > NumInputs, r.pc = "build", SameBuild(p),
             \A k \in 1..NumInputs : r.files[k] = q.files[k]
      PROVE  BuildRight(r)
  <2>1. \A k \in 1..NumInputs : k < q.i
    BY <1>2, <1>9
  <2>2. ~q.disturbed => \A k \in 1..NumInputs : disk[Inputs[k]].content = q.files[k].digest
    BY <1>1, <1>9, <2>1 DEF BuildRight
  <2>3. r.disturbed = q.disturbed
    BY <1>9 DEF SameBuild
  <2>4. QED
    BY <1>9, <2>2, <2>3 DEF BuildRight
<1>10. CASE Miss(p)
  <2>1. /\ q.pc = "check" /\ q.i > NumInputs /\ r.pc = "build" /\ SameBuild(p)
        /\ \A k \in 1..NumInputs : r.files[k] = q.files[k]
    BY <1>10, MissStep
  <2>2. QED
    BY <1>9, <2>1 DEF Checking
<1>11. CASE FillOpen(p) /\ PastInputs(p)
  <2>1. /\ q.pc = "fill" /\ q.i > NumInputs /\ r.pc = "build" /\ SameBuild(p)
        /\ r.files = q.files
    BY <1>11, FilledShape
  <2>2. QED
    BY <1>9, <2>1 DEF Filling
<1>12. CASE Hit(p)
  <2>1. /\ q.pc = "check" /\ ~q.changed /\ Len(q.files) = q.i - 1 /\ Len(q.lines) = q.i - 1
        /\ q.i > NumInputs /\ r.pc = "use" /\ r.hash = q.hash
    BY <1>12, HitShape
  <2>2. q.lines = manifest
    BY <2>1 DEF AllHashed
  <2>3. /\ \A k \in 1..(q.i - 1) : q.lines[k] # Torn
        /\ \A k \in 1..(q.i - 1) : q.files[k].digest = q.lines[k].digest
    BY <1>1, <2>1 DEF Compared, Checking
  <2>4. q.hash = Digests(q.files)
    <3>1. Hashed(q, Len(q.files))
      BY <1>1, <2>1 DEF HashShape, Checking
    <3>2. QED
      BY <1>2, <3>1, HashIsDigests
  <2>5. Digests(q.files) = Digests(manifest)
    BY <2>1, <2>2, <2>3 DEF Digests
  <2>6. manifest # <<>> /\ \A k \in 1..Len(manifest) : manifest[k] # Torn
    <3>1. Len(manifest) = q.i - 1 /\ q.i - 1 # 0
      BY <1>2, <2>1, <2>2
    <3>2. QED
      BY <2>2, <2>3, <3>1
  <2>7. q.hash \in DOMAIN artifacts
    BY <2>4, <2>5, <2>6 DEF AllRight
  <2>8. artifacts' = artifacts
    BY <1>12 DEF Hit
  <2>9. QED
    BY <2>1, <2>7 DEF BuildRight, Checking, Filling
<1>13. CASE FillOpen(p) /\ ~PastInputs(p)
  <2>1. /\ q.pc = "fill" /\ r.pc = "fillhash" /\ r.i = q.i /\ SameBuild(p)
        /\ \A k \in 1..Len(q.files) : k # q.i => r.files[k] = q.files[k]
    BY <1>13, FillOpenStep
  <2>2. \A k \in 1..NumInputs : k < q.i => r.files[k].digest = q.files[k].digest
    BY <1>2, <1>3, <2>1
  <2>3. q.pc \in Checking \cup Filling /\ r.pc \in Checking \cup Filling
    BY <2>1 DEF Filling
  <2>4. QED
    BY <2>1, <2>2, <2>3, KeptInput
<1>14. CASE FillHash(p)
  <2>1. /\ q.pc = "fillhash" /\ r.pc = "fill" /\ r.i = q.i + 1 /\ SameBuild(p)
        /\ r.files[q.i].digest = hash_file(q)
        /\ q.fd = Null => hash_file(q) = disk[Inputs[q.i]].content
        /\ \A k \in 1..Len(q.files) : k # q.i => r.files[k] = q.files[k]
    BY <1>14, FillHashStep
  <2>2. \A k \in 1..NumInputs : k < q.i => r.files[k].digest = q.files[k].digest
    <3>1. q.pc # "idle"
      BY <2>1
    <3>2. \A k \in 1..NumInputs : k < q.i => k \in 1..Len(q.files) /\ k # q.i
      <4> HIDE DEF q
      <4>1. QED
        BY <1>2, <1>3, <3>1
    <3>3. QED
      BY <2>1, <3>2
  <2>3. q.pc \in Checking \cup Filling /\ r.pc \in Checking \cup Filling
    BY <2>1 DEF Filling
  <2>4. ~q.disturbed => disk[Inputs[q.i]].content = r.files[q.i].digest
    <3>1. ~q.disturbed => q.fd = Null
      BY <2>1, StillNamed DEF Base, Hashing
    <3>2. QED
      BY <2>1, <3>1
  <2>5. QED
    BY <2>1, <2>2, <2>3, <2>4, NextInput
<1>15. CASE Compile(p)
  <2> DEFINE deps == Imports(Content(Inputs))
             all == Inputs \o deps
             b == Content(all)
  <2>1. /\ q.pc = "build" /\ r.pc = "add" /\ r.files = q.files /\ r.disturbed = q.disturbed
        /\ r.todo = deps /\ r.built = b
    BY <1>15, CompileStep
  <2>2. Types /\ Inputs \in Seq(Files) /\ Len(Inputs) = NumInputs
    BY CacheAssumption DEF Base, NumInputs
  <2>3. deps \in Seq(Files) /\ Len(deps) \in Nat
    BY <2>2, CompileType
  <2>4. /\ all \in Seq(Files) /\ Len(all) = NumInputs + Len(deps)
        /\ \A k \in 1..NumInputs : all[k] = Inputs[k]
        /\ \A j \in 1..Len(deps) : all[NumInputs + j] = deps[j]
    <3> HIDE DEF deps
    <3>1. /\ all \in Seq(Files) /\ Len(all) = Len(Inputs) + Len(deps)
          /\ \A k \in 1..(Len(Inputs) + Len(deps)) :
               all[k] = IF k <= Len(Inputs) THEN Inputs[k] ELSE deps[k - Len(Inputs)]
      BY <2>2, <2>3, ConcatProperties
    <3> HIDE DEF all
    <3>2. \A k \in 1..NumInputs : k \in 1..(NumInputs + Len(deps)) /\ k <= NumInputs
      BY <1>2, <2>3
    <3>3. \A j \in 1..Len(deps) : /\ NumInputs + j \in 1..(NumInputs + Len(deps))
                                  /\ ~(NumInputs + j <= NumInputs)
                                  /\ (NumInputs + j) - NumInputs = j
      BY <1>2, <2>3
    <3>4. QED
      BY <2>2, <3>1, <3>2, <3>3
  <2>5. /\ b \in Seq(Contents) /\ Len(b) = Len(all)
        /\ \A k \in 1..Len(all) : b[k] = disk[all[k]].content
    <3> HIDE DEF all
    <3>1. QED
      BY <2>2, <2>4, ContentType
  <2>6. /\ Content(Inputs) \in Seq(Contents) /\ Len(Content(Inputs)) = NumInputs
        /\ \A k \in 1..NumInputs : Content(Inputs)[k] = disk[Inputs[k]].content
    BY <2>2, ContentType
  <2> HIDE DEF b, all
  <2>7. /\ \A k \in 1..NumInputs : b[k] = disk[Inputs[k]].content
        /\ \A j \in 1..Len(deps) : b[NumInputs + j] = disk[deps[j]].content
    <3> HIDE DEF deps
    <3>1. \A k \in 1..NumInputs : k \in 1..Len(all)
      BY <1>2, <2>3, <2>4
    <3>2. \A j \in 1..Len(deps) : NumInputs + j \in 1..Len(all)
      BY <1>2, <2>3, <2>4
    <3>3. QED
      BY <2>4, <2>5, <3>1, <3>2
  <2>8. SubSeq(b, 1, NumInputs) = Content(Inputs)
    <3> DEFINE s == SubSeq(b, 1, NumInputs)
    <3>1. /\ s \in Seq(Contents) /\ Len(s) = NumInputs
          /\ \A k \in 1..NumInputs : s[k] = b[k]
      <4> HIDE DEF deps
      <4>1. \A k \in 1..NumInputs : b[k] \in Contents
        <5>1. \A k \in 1..NumInputs : k \in 1..Len(b)
          BY <1>2, <2>3, <2>4, <2>5
        <5>2. QED
          BY <2>5, <5>1, ElementOfSeq
      <4>2. /\ s \in Seq(Contents)
            /\ Len(s) = IF 1 <= NumInputs THEN NumInputs - 1 + 1 ELSE 0
            /\ \A k \in 1..(NumInputs - 1 + 1) : s[k] = b[1 + k - 1]
        BY <1>2, <4>1, SubSeqProperties
      <4> HIDE DEF s
      <4>3. QED
        BY <1>2, <4>2
    <3> HIDE DEF s
    <3>2. \A k \in 1..Len(s) : s[k] = Content(Inputs)[k]
      BY <2>6, <2>7, <3>1
    <3>3. s = Content(Inputs)
      BY <2>6, <3>1, <3>2, SeqEqual
    <3>4. QED
      BY <3>3 DEF s
  <2>9. Len(q.files) = NumInputs
    BY <1>1, <2>1 DEF HashShape
  <2>10. ~q.disturbed => \A k \in 1..NumInputs : disk[Inputs[k]].content = q.files[k].digest
    BY <1>1, <2>1 DEF BuildRight
  <2>11. Len(r.built) = NumInputs + Len(Imports(SubSeq(r.built, 1, NumInputs)))
    BY <2>1, <2>4, <2>5, <2>8
  <2>12. Len(r.built) = Len(r.files) + Len(r.todo)
    BY <2>1, <2>4, <2>5, <2>9
  <2> HIDE DEF deps
  <2>13. ASSUME ~r.disturbed
         PROVE  /\ \A k \in 1..Len(r.files) : r.built[k] = r.files[k].digest
                /\ \A j \in 1..Len(r.todo) : disk[r.todo[j]].content = r.built[Len(r.files) + j]
    BY <2>1, <2>7, <2>9, <2>10, <2>13
  <2> HIDE DEF q, r
  <2>14. QED
    BY <2>1, <2>11, <2>12, <2>13 DEF BuildRight, Added, Checking, Filling, r
<1>16. CASE AddOpen(p)
  <2>1. /\ q.pc = "add" /\ r.pc = "addhash" /\ SameBuild(p)
        /\ Len(r.files) = Len(q.files) + 1
        /\ \A k \in 1..Len(q.files) : r.files[k] = q.files[k]
    BY <1>16, AddOpenStep
  <2>2. Added(q) = Len(q.files) /\ Added(r) = Len(q.files)
    BY <1>2, <2>1 DEF Added
  <2>3. /\ Len(q.built) = Added(q) + Len(q.todo)
        /\ Len(q.built) = NumInputs + Len(Imports(SubSeq(q.built, 1, NumInputs)))
        /\ ~q.disturbed =>
             /\ \A k \in 1..Added(q) : q.built[k] = q.files[k].digest
             /\ \A j \in 1..Len(q.todo) : disk[q.todo[j]].content = q.built[Added(q) + j]
    BY <1>1, <2>1 DEF BuildRight
  <2>4. r.todo = q.todo /\ r.built = q.built /\ r.disturbed = q.disturbed
    BY <2>1 DEF SameBuild
  <2> HIDE DEF q, r
  <2>5. QED
    BY <2>1, <2>2, <2>3, <2>4 DEF BuildRight, Checking, Filling, r
<1>17. CASE AddHash(p)
  <2> DEFINE n == Len(q.files)
             d == hash_file(q)
  <2>1. /\ q.pc = "addhash" /\ r.pc = "add" /\ n > NumInputs /\ Len(r.files) = n
        /\ q.todo # <<>> /\ r.files[n].digest = d
        /\ q.fd = Null => d = disk[Head(q.todo)].content
        /\ \A k \in 1..(n - 1) : r.files[k] = q.files[k]
        /\ r.todo = Tail(q.todo) /\ r.built = q.built /\ r.disturbed = q.disturbed
    BY <1>17, AddHashStep
  <2>2. Added(q) = n - 1 /\ Added(r) = n
    BY <2>1 DEF Added
  <2>3. /\ Len(q.built) = (n - 1) + Len(q.todo)
        /\ Len(q.built) = NumInputs + Len(Imports(SubSeq(q.built, 1, NumInputs)))
        /\ ~q.disturbed =>
             /\ \A k \in 1..(n - 1) : q.built[k] = q.files[k].digest
             /\ \A j \in 1..Len(q.todo) : disk[q.todo[j]].content = q.built[(n - 1) + j]
    BY <1>1, <2>1, <2>2 DEF BuildRight
  <2>4. /\ Len(r.todo) = Len(q.todo) - 1 /\ Len(q.todo) >= 1 /\ Head(q.todo) = q.todo[1]
        /\ \A j \in 1..Len(r.todo) : r.todo[j] = q.todo[j + 1]
    BY <1>2, <2>1, HeadTailProperties
  <2>5. n \in Nat /\ NumInputs \in Nat /\ Len(q.todo) \in Nat
    BY <1>2
  <2>6. ~q.disturbed => d = disk[Head(q.todo)].content
    <3>1. ~q.disturbed => q.fd = Null
      BY <2>1, StillNamed DEF Base, Hashing
    <3>2. QED
      BY <2>1, <3>1
  <2> HIDE DEF q, r, n, d
  <2>7. Len(r.built) = n + Len(r.todo)
    BY <2>1, <2>3, <2>4, <2>5
  <2>8. ASSUME ~r.disturbed
        PROVE  /\ \A k \in 1..n : r.built[k] = r.files[k].digest
               /\ \A j \in 1..Len(r.todo) : disk[r.todo[j]].content = r.built[n + j]
    <3>1. ASSUME NEW j \in 1..Len(r.todo) PROVE disk[r.todo[j]].content = r.built[n + j]
      <4>1. j + 1 \in 1..Len(q.todo) /\ (n - 1) + (j + 1) = n + j
        BY <2>4, <2>5
      <4>2. QED
        BY <2>1, <2>3, <2>4, <2>8, <4>1
    <3>2. ASSUME NEW k \in 1..n PROVE r.built[k] = r.files[k].digest
      <4>1. CASE k = n
        <5>1. 1 \in 1..Len(q.todo) /\ (n - 1) + 1 = n
          BY <2>4, <2>5
        <5>2. disk[q.todo[1]].content = q.built[n]
          BY <2>1, <2>3, <2>8, <5>1
        <5>3. QED
          BY <2>1, <2>4, <2>8, <2>6, <4>1, <5>2
      <4>2. CASE k # n
        <5>1. k \in 1..(n - 1)
          BY <2>5, <4>2
        <5>2. QED
          BY <2>1, <2>3, <2>8, <5>1
      <4>3. QED
        BY <4>1, <4>2
    <3>3. QED
      BY <3>1, <3>2
  <2>9. QED
    BY <2>1, <2>2, <2>3, <2>7, <2>8 DEF BuildRight, Checking, Filling, r
<1>18. QED
  BY <1>4, <1>5, <1>6, <1>7, <1>8, <1>10, <1>11, <1>12, <1>13, <1>14, <1>15, <1>16, <1>17
     DEF Hitting

\* A file changes under a process: either it does not matter any more, or the
\* process is noted as disturbed.
LEMMA OutsideRight ==
  ASSUME Base, AllRight, Outside
  PROVE  AllRight'
<1>1. /\ manifest' = manifest /\ artifacts' = artifacts /\ tainted' = tainted
      /\ \A p \in Procs :
           LET q == proc[p]  r == proc'[p] IN
           /\ r.pc = q.pc /\ r.lines = q.lines /\ r.i = q.i /\ r.changed = q.changed
           /\ r.files = q.files /\ r.hash = q.hash /\ r.todo = q.todo /\ r.built = q.built
  BY OutsideTypes DEF Base
<1>2. ASSUME NEW p \in Procs PROVE BuildRight(proc[p])'
  <2> DEFINE q == proc[p]
             r == proc'[p]
  <2>1. BuildRight(q)
    BY DEF AllRight
  <2>2. ASSUME NEW f \in Files, Touched(f), \A g \in Files : g # f => disk'[g] = disk[g]
        PROVE  BuildRight(q)'
    <3>1. q.disturbed \/ Relies(p, f) => r.disturbed
      BY <2>2, TouchedStep DEF Base
    <3>2. ASSUME q.pc \in Checking \cup Filling \cup {"build"}, ~r.disturbed,
                 NEW k \in 1..NumInputs, q.pc = "build" \/ k < q.i
          PROVE  disk'[Inputs[k]].content = q.files[k].digest
      <4>1. ~q.disturbed /\ ~Relies(p, f)
        BY <3>1, <3>2
      <4>2. Inputs[k] # f
        BY <3>2, <4>1 DEF Relies, Checking, Filling
      <4>3. disk'[Inputs[k]] = disk[Inputs[k]]
        BY <2>2, <4>2, ConstantTypes
      <4>4. disk[Inputs[k]].content = q.files[k].digest
        BY <2>1, <3>2, <4>1 DEF BuildRight
      <4>5. QED
        BY <4>3, <4>4
    <3>3. ASSUME q.pc \in {"add", "addhash"}, ~r.disturbed
          PROVE  /\ \A k \in 1..Added(q) : q.built[k] = q.files[k].digest
                 /\ \A j \in 1..Len(q.todo) :
                      disk'[q.todo[j]].content = q.built[Added(q) + j]
      <4>1. ~q.disturbed /\ ~Relies(p, f)
        BY <3>1, <3>3
      <4>2. /\ \A k \in 1..Added(q) : q.built[k] = q.files[k].digest
            /\ \A j \in 1..Len(q.todo) : disk[q.todo[j]].content = q.built[Added(q) + j]
        BY <2>1, <3>3, <4>1 DEF BuildRight
      <4>3. ASSUME NEW j \in 1..Len(q.todo) PROVE disk'[q.todo[j]] = disk[q.todo[j]]
        <5>1. q.todo[j] \in Files
          <6>1. q.todo \in Seq(Files)
            BY FieldTypes DEF Base
          <6>2. QED
            BY <6>1, ElementOfSeq
        <5>2. q.todo[j] # f
          BY <3>3, <4>1 DEF Relies
        <5>3. QED
          BY <2>2, <5>1, <5>2
      <4>4. QED
        BY <4>2, <4>3
    <3>4. Added(r) = Added(q)
      BY <1>1 DEF Added
    <3>5. /\ r.pc = q.pc /\ r.i = q.i /\ r.files = q.files /\ r.hash = q.hash /\ r.todo = q.todo
          /\ r.built = q.built
      BY <1>1
    <3>6. /\ q.pc \in {"add", "addhash"} =>
               /\ Len(q.built) = Added(q) + Len(q.todo)
               /\ Len(q.built) = NumInputs + Len(Imports(SubSeq(q.built, 1, NumInputs)))
          /\ q.pc \in {"use", "write"} => q.hash \in DOMAIN artifacts
      BY <2>1 DEF BuildRight
    <3>7. q' = r /\ Added(q)' = Added(r)
      BY DEF Added
    <3> HIDE DEF q, r
    <3>8. QED
      BY <1>1, <3>2, <3>3, <3>4, <3>5, <3>6, <3>7 DEF BuildRight
  <2>3. CASE Tick
    BY <2>1, <2>3 DEF Tick, BuildRight, Added
  <2>4. CASE \E f \in Files, c \in Contents : Edit(f, c)
    <3>1. PICK f \in Files, c \in Contents : Edit(f, c)
      BY <2>4
    <3>2. Touched(f) /\ \A g \in Files : g # f => disk'[g] = disk[g]
      BY <3>1 DEF Touched, Edit, Base, Types
    <3>3. QED
      BY <2>2, <3>2
  <2>5. CASE \E f \in Files, c \in Contents, t \in Stamps : Replace(f, c, t)
    <3>1. PICK f \in Files, c \in Contents, t \in Stamps : Replace(f, c, t)
      BY <2>5
    <3>2. Touched(f) /\ \A g \in Files : g # f => disk'[g] = disk[g]
      BY <3>1 DEF Touched, Replace, Base, Types
    <3>3. QED
      BY <2>2, <3>2
  <2>6. QED
    BY <2>3, <2>4, <2>5 DEF Outside
<1>3. QED
  BY <1>1, <1>2 DEF AllRight

LEMMA SteppedRight ==
  ASSUME Base, AllRight, NEW p \in Procs, Only(p), UNCHANGED world,
         DOMAIN artifacts \subseteq DOMAIN artifacts',
         \A d \in DOMAIN artifacts' : d \notin tainted' => RightObject(d, artifacts'[d]),
         manifest' # <<>> /\ (\A k \in 1..Len(manifest') : manifest'[k] # Torn) =>
           Digests(manifest') \in DOMAIN artifacts',
         BuildRight(proc'[p]) \/ (proc'[p].pc = "use" /\ proc'[p].hash \in DOMAIN artifacts')
  PROVE  AllRight'
<1>1. disk' = disk
  BY DEF world
<1>2. ASSUME NEW q, BuildRight(q) \/ (q.pc = "use" /\ q.hash \in DOMAIN artifacts')
      PROVE  BuildRight(q)'
  BY <1>1, <1>2 DEF BuildRight, Added, Checking, Filling
<1>3. ASSUME NEW x \in Procs PROVE BuildRight(proc[x])'
  <2>1. PICK q : q = proc'[x]
    OBVIOUS
  <2>2. BuildRight(q) \/ (q.pc = "use" /\ q.hash \in DOMAIN artifacts')
    BY <2>1 DEF AllRight, Only
  <2>3. BuildRight(q)'
    BY <1>2, <2>2
  <2>4. QED
    BY <2>1, <2>3 DEF BuildRight, Added
<1>4. QED
  BY <1>3 DEF AllRight

LEMMA IdleRight ==
  ASSUME NEW q, q.pc = "idle"
  PROVE  BuildRight(q)
  BY DEF BuildRight, Checking, Filling

LEMMA FinalRight ==
  ASSUME Base, AllHashed, AllRight, NEW p \in Procs, Final(p)
  PROVE  /\ DOMAIN artifacts' = DOMAIN artifacts \cup {proc[p].hash}
         /\ \A d \in DOMAIN artifacts' : d \notin tainted' => RightObject(d, artifacts'[d])
<1> DEFINE q == proc[p]
<1>1. /\ q.pc = "add" /\ q.todo = <<>> /\ artifacts' = Renamed(q.hash, q.built)
      /\ tainted' = IF q.disturbed THEN tainted \cup {q.hash} ELSE tainted \ {q.hash}
  BY DEF Final
<1>2. /\ BuildRight(q) /\ HashShape(q) /\ q.hash \in Seq(Contents) /\ q.built \in Seq(Contents)
      /\ Len(q.files) \in Nat
  BY FieldTypes DEF AllRight, AllHashed, Base
<1>3. Hashed(q, Len(q.files))
  BY <1>1, <1>2 DEF HashShape
<1>4. /\ Len(q.built) = Len(q.files)
      /\ Len(q.built) = NumInputs + Len(Imports(SubSeq(q.built, 1, NumInputs)))
      /\ ~q.disturbed => \A k \in 1..Len(q.files) : q.built[k] = q.files[k].digest
  BY <1>1, <1>2 DEF BuildRight, Added
<1>5. ~q.disturbed => q.built = q.hash
  <2>1. ASSUME ~q.disturbed PROVE \A k \in 1..Len(q.built) : q.built[k] = q.hash[k]
    BY <1>3, <1>4, <2>1 DEF Hashed
  <2>2. Len(q.built) = Len(q.hash)
    BY <1>3, <1>4 DEF Hashed
  <2> HIDE DEF q
  <2>3. QED
    BY <1>2, <2>1, <2>2, SeqEqual
<1>6. /\ DOMAIN artifacts' = DOMAIN artifacts \cup {q.hash} /\ artifacts'[q.hash] = q.built
      /\ \A d \in DOMAIN artifacts : d # q.hash => artifacts'[d] = artifacts[d]
  BY <1>1 DEF Renamed
<1>7. ASSUME NEW d \in DOMAIN artifacts', d \notin tainted' PROVE RightObject(d, artifacts'[d])
  <2>1. CASE d = q.hash
    <3>1. ~q.disturbed
      BY <1>1, <1>7, <2>1
    <3>2. QED
      BY <1>4, <1>5, <1>6, <2>1, <3>1 DEF RightObject
  <2>2. CASE d # q.hash
    <3>1. d \in DOMAIN artifacts /\ d \notin tainted /\ artifacts'[d] = artifacts[d]
      BY <1>1, <1>6, <1>7, <2>2
    <3>2. QED
      BY <3>1 DEF AllRight
  <2>3. QED
    BY <2>1, <2>2
<1>8. QED
  BY <1>6, <1>7

LEMMA RightStep ==
  Cuts \subseteq {0} /\ Base /\ AllSound /\ Descriptors /\ AllHashed /\ AllRight /\ [Next]_vars
    => AllRight'
<1> SUFFICES ASSUME Cuts \subseteq {0}, Base, AllSound, Descriptors, AllHashed, AllRight,
                    [Next]_vars
             PROVE  AllRight'
  OBVIOUS
<1>1. /\ \A d \in DOMAIN artifacts : d \notin tainted => RightObject(d, artifacts[d])
      /\ manifest # <<>> /\ (\A k \in 1..Len(manifest) : manifest[k] # Torn) =>
           Digests(manifest) \in DOMAIN artifacts
  BY DEF AllRight
<1>2. CASE UNCHANGED vars
  BY <1>2 DEF vars, world, AllRight, BuildRight, Added
<1>3. CASE Next
  <2>1. ASSUME NEW p \in Procs, OpenManifest(p) PROVE AllRight'
    <3>1. /\ Only(p) /\ proc'[p] = Opened /\ manifest' = manifest /\ UNCHANGED world
          /\ artifacts' = artifacts /\ tainted' = tainted
      BY <2>1, OpenStep
    <3>2. Opened.pc = "check" /\ Opened.i = 1 /\ NumInputs \in Nat
      BY OpenedType, ConstantTypes DEF Base
    <3>3. BuildRight(Opened)
      BY <3>2 DEF BuildRight, Checking, Filling
    <3>4. QED
      BY <1>1, <3>1, <3>3, SteppedRight
  <2>2. ASSUME NEW p \in Procs, Hitting(p) PROVE AllRight'
    <3>1. /\ Only(p) /\ manifest' = manifest /\ UNCHANGED world
          /\ artifacts' = artifacts /\ tainted' = tainted
      BY <2>2, HittingBase
    <3>2. QED
      BY <1>1, <2>2, <3>1, HittingRight, SteppedRight
  <2>3. ASSUME NEW p \in Procs, Final(p) PROVE AllRight'
    <3>1. /\ Only(p) /\ manifest' = manifest /\ UNCHANGED world
          /\ proc'[p].pc = "use" /\ proc'[p].hash = proc[p].hash
      BY <2>3, FinalShape DEF Final
    <3>2. /\ DOMAIN artifacts' = DOMAIN artifacts \cup {proc[p].hash}
          /\ \A d \in DOMAIN artifacts' : d \notin tainted' => RightObject(d, artifacts'[d])
      BY <2>3, FinalRight
    <3>3. /\ DOMAIN artifacts \subseteq DOMAIN artifacts'
          /\ manifest' # <<>> /\ (\A k \in 1..Len(manifest') : manifest'[k] # Torn) =>
               Digests(manifest') \in DOMAIN artifacts'
      BY <1>1, <3>1, <3>2
    <3>4. proc'[p].pc = "use" /\ proc'[p].hash \in DOMAIN artifacts'
      BY <3>1, <3>2
    <3>5. QED
      BY <3>1, <3>2, <3>3, <3>4, SteppedRight
  <2>4. ASSUME NEW p \in Procs, Exit(p), UNCHANGED <<world, artifacts, tainted>>,
               manifest' # <<>> /\ (\A k \in 1..Len(manifest') : manifest'[k] # Torn) =>
                 Digests(manifest') \in DOMAIN artifacts
        PROVE  AllRight'
    <3>1. Only(p) /\ proc'[p].pc = "idle"
      BY <2>4, ExitStep, IdleShape
    <3>2. QED
      BY <1>1, <2>4, <3>1, IdleRight, SteppedRight
  <2>5. ASSUME NEW p \in Procs, cache_release(p) PROVE AllRight'
    <3>1. /\ UNCHANGED <<world, artifacts, tainted>>
          /\ manifest' = manifest \/ manifest' = <<>>
      BY <2>5 DEF cache_release
    <3>2. manifest' # <<>> /\ (\A k \in 1..Len(manifest') : manifest'[k] # Torn) =>
            Digests(manifest') \in DOMAIN artifacts
      BY <1>1, <3>1
    <3>3. CASE Exit(p)
      BY <2>4, <3>1, <3>2, <3>3
    <3>4. CASE ~Exit(p)
      <4>1. /\ Only(p) /\ proc[p].pc = "use" /\ proc'[p].pc = "write"
            /\ proc'[p].hash = proc[p].hash
        BY <2>5, <3>4, TruncateShape
      <4>2. proc[p].hash \in DOMAIN artifacts
        BY <4>1 DEF AllRight, BuildRight
      <4>3. BuildRight(proc'[p])
        BY <4>1, <4>2 DEF BuildRight, Checking, Filling
      <4>4. UNCHANGED world /\ artifacts' = artifacts /\ tainted' = tainted
        BY <3>1
      <4>5. QED
        BY <1>1, <3>2, <4>1, <4>3, <4>4, SteppedRight
    <3>5. QED
      BY <3>3, <3>4
  <2>6. ASSUME NEW p \in Procs, WriteManifest(p) PROVE AllRight'
    <3>1. proc[p].pc = "write" /\ Exit(p) /\ UNCHANGED <<world, artifacts, tainted>>
      BY <2>6 DEF WriteManifest
    <3>2. manifest' = <<>> \/ manifest' = <<Torn>> \/ manifest' = proc[p].files
      BY <2>6, WriteWhole
    <3>3. Digests(proc[p].files) \in DOMAIN artifacts
      <4>1. Hashed(proc[p], Len(proc[p].files))
        BY <3>1 DEF AllHashed, HashShape
      <4>2. proc[p].hash = Digests(proc[p].files)
        BY <4>1, FieldTypes, HashIsDigests DEF Base
      <4>3. QED
        BY <3>1, <4>2 DEF AllRight, BuildRight
    <3>4. ASSUME manifest' = <<Torn>> PROVE ~(\A k \in 1..Len(manifest') : manifest'[k] # Torn)
      BY <3>4
    <3>5. QED
      BY <2>4, <3>1, <3>2, <3>3, <3>4
  <2>7. ASSUME NEW p \in Procs, Dies(p) PROVE AllRight'
    <3>1. Exit(p) /\ manifest' = manifest /\ UNCHANGED <<world, artifacts, tainted>>
      BY <2>7 DEF Dies
    <3>2. QED
      BY <1>1, <2>4, <3>1
  <2>8. QED
    BY <1>3, <2>1, <2>2, <2>3, <2>5, <2>6, <2>7, OutsideRight, NextCases
<1>4. QED
  BY <1>2, <1>3

CacheInv == Base /\ AllSound /\ Descriptors /\ AllHashed /\ AllRight

LEMMA CacheInit == Init => CacheInv
<1> SUFFICES ASSUME Init PROVE AllHashed /\ AllRight
  BY BaseInit, SoundInit, DescriptorInit DEF CacheInv
<1>1. /\ manifest = <<>> /\ artifacts = [d \in {} |-> <<>>]
      /\ proc = [p \in Procs |-> cache_init]
  BY DEF Init
<1>2. AllHashed
  BY <1>1, IdleShape, IdleHashed DEF AllHashed, Whole
<1>3. AllRight
  BY <1>1, IdleShape, IdleRight DEF AllRight
<1>4. QED
  BY <1>2, <1>3

LEMMA CacheInvariant == PowerOfTwo /\ Cuts \subseteq {0} => (Spec => []CacheInv)
<1> SUFFICES ASSUME PowerOfTwo, Cuts \subseteq {0} PROVE Spec => []CacheInv
  OBVIOUS
<1>1. CacheInv /\ [Next]_vars => CacheInv'
  BY BaseStep, SoundStep, DescriptorStep, HashStep, RightStep DEF CacheInv
<1>2. QED
  BY <1>1, CacheInit, PTL DEF Spec

\* The digest cache_final returns is that of the files the manifest will list,
\* when a write that is cut short leaves no whole line.
THEOREM DigestOfTheFiles == Cuts \subseteq {0} => (Spec => []HashMatchesFiles)
<1> SUFFICES ASSUME Cuts \subseteq {0} PROVE Spec => []HashMatchesFiles
  OBVIOUS
<1>1. Init => Base /\ AllHashed
  BY BaseInit, CacheInit DEF CacheInv
<1>2. Base /\ AllHashed /\ [Next]_vars => Base' /\ AllHashed'
  BY BaseStep, HashStep
<1>3. Base /\ AllHashed => HashMatchesFiles
  <2> SUFFICES ASSUME Base, AllHashed, NEW p \in Procs, proc[p].pc \in {"use", "write"}
               PROVE  proc[p].hash = Digests(proc[p].files)
    BY DEF HashMatchesFiles
  <2>1. Hashed(proc[p], Len(proc[p].files))
    BY DEF AllHashed, HashShape
  <2>2. QED
    BY <2>1, FieldTypes, HashIsDigests DEF Base
<1>4. QED
  BY <1>1, <1>2, <1>3, PTL DEF Spec

\* The artifact of a hit exists, and was compiled from the contents that the
\* files had when they were checked, although a file is hashed through the
\* descriptor it was opened with and compiled under its name: a build is exempt
\* when another file took the name of one it had open, or had hashed.
THEOREM RightArtifact == PowerOfTwo /\ Cuts \subseteq {0} => (Spec => []HitIsRight)
<1> SUFFICES ASSUME PowerOfTwo, Cuts \subseteq {0} PROVE Spec => []HitIsRight
  OBVIOUS
<1>1. CacheInv => HitIsRight
  <2> SUFFICES ASSUME CacheInv, NEW p \in Procs, proc[p].pc = "use", proc[p].hash \notin tainted
               PROVE  LET d == proc[p].hash
                          ins == SubSeq(d, 1, NumInputs) IN
                      /\ d \in DOMAIN artifacts /\ artifacts[d] = d
                      /\ Len(d) = NumInputs + Len(Imports(ins))
    BY DEF HitIsRight
  <2>1. proc[p].hash \in DOMAIN artifacts
    BY DEF CacheInv, AllRight, BuildRight
  <2>2. RightObject(proc[p].hash, artifacts[proc[p].hash])
    BY <2>1 DEF CacheInv, AllRight
  <2>3. QED
    BY <2>1, <2>2 DEF RightObject
<1>2. QED
  BY <1>1, CacheInvariant, PTL
=============================================================================
