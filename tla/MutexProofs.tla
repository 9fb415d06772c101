---------------------------- MODULE MutexProofs ----------------------------
(***************************************************************************)
(* Safety of the futex mutex for any set of threads.                       *)
(*                                                                         *)
(* IInv is the inductive invariant: mutual exclusion alone is not          *)
(* inductive, because a successful exchange is only safe when the word 0   *)
(* means that nobody owns the mutex (WordMatchesOwner), and release() only *)
(* keeps that meaning when a thread that found 2 stays an owner until it   *)
(* has stored 0 (Owns covers "unlock").                                    *)
(***************************************************************************)
EXTENDS Mutex, TLAPS

\* The word of a thread between the subtraction and the store is 1, and only
\* a waiter's exchange can have raised it to 2 again: an owner always sees a
\* positive word, which is what makes lock - 1 stay within its type.
IInv == TypeOK /\ MutualExclusion /\ WordMatchesOwner

\* The initial state: an unlocked word and no owner.
LEMMA InitIInv == Init => IInv
  BY DEF Init, IInv, TypeOK, MutualExclusion, WordMatchesOwner, Owns, Locations

\* Every step of acquire() and release() preserves the inductive invariant.
LEMMA NextIInv == IInv /\ [Next]_vars => IInv'
<1> SUFFICES ASSUME IInv, [Next]_vars PROVE IInv'
  OBVIOUS
<1> USE DEF IInv, TypeOK, MutualExclusion, WordMatchesOwner, Owns, Locations, Goto
<1>1. ASSUME NEW t \in Threads, CasSucceeds(t) PROVE IInv'
  BY <1>1 DEF CasSucceeds
<1>2. ASSUME NEW t \in Threads, CasFails(t) PROVE IInv'
  BY <1>2 DEF CasFails
<1>3. ASSUME NEW t \in Threads, ExchangeForWaiter(t) PROVE IInv'
  BY <1>3 DEF ExchangeForWaiter
<1>4. ASSUME NEW t \in Threads, FutexWait(t) PROVE IInv'
  BY <1>4 DEF FutexWait
<1>5. ASSUME NEW t \in Threads, Interrupted(t) PROVE IInv'
  BY <1>5 DEF Interrupted
<1>6. ASSUME NEW t \in Threads, SubtractOne(t) PROVE IInv'
  BY <1>6 DEF SubtractOne
<1>7. ASSUME NEW t \in Threads, StoreZero(t) PROVE IInv'
  BY <1>7 DEF StoreZero
<1>8. ASSUME NEW t \in Threads, FutexWake(t) PROVE IInv'
  BY <1>8 DEF FutexWake, Sleepers
<1>9. CASE UNCHANGED vars
  BY <1>9 DEF vars
<1>10. QED
  BY <1>1, <1>2, <1>3, <1>4, <1>5, <1>6, <1>7, <1>8, <1>9
  DEF Next, AcquireStep, ReleaseStep

\* The inductive invariant holds in every reachable state.
LEMMA Inductive == Spec => []IInv
  BY InitIInv, NextIInv, PTL DEF Spec

\* The futex word stays in 0..2 and every thread stays at a known place.
THEOREM TypeCorrect == Spec => []TypeOK
  BY Inductive, PTL DEF IInv

\* std.Mutex excludes: at most one thread is between acquire() and the end
\* of release(), for any number of threads.
THEOREM Exclusive == Spec => []MutualExclusion
  BY Inductive, PTL DEF IInv

\* The word is 0 exactly when nobody owns the mutex.
THEOREM WordTruthful == Spec => []WordMatchesOwner
  BY Inductive, PTL DEF IInv

-----------------------------------------------------------------------------
\* A sleeper is never forgotten, step by step: the word 2, a release on its
\* way to futex_wake and a thread about to exchange hand the duty to each
\* other.
LEMMA NextNoLostWakeup ==
  TypeOK /\ NoLostWakeup /\ [Next]_vars => NoLostWakeup'
<1> SUFFICES ASSUME TypeOK, NoLostWakeup, [Next]_vars PROVE NoLostWakeup'
  OBVIOUS
<1> USE DEF TypeOK, NoLostWakeup, Sleepers, Locations, Goto
<1>1. ASSUME NEW t \in Threads, AcquireStep(t) PROVE NoLostWakeup'
  <2>1. CASE CasSucceeds(t)
    BY <2>1 DEF CasSucceeds
  <2>2. CASE CasFails(t)
    BY <2>2 DEF CasFails
  <2>3. CASE ExchangeForWaiter(t)
    BY <2>3 DEF ExchangeForWaiter
  <2>4. CASE FutexWait(t)
    BY <2>4 DEF FutexWait
  <2>5. QED
    BY <1>1, <2>1, <2>2, <2>3, <2>4 DEF AcquireStep
<1>2. ASSUME NEW t \in Threads, ReleaseStep(t) PROVE NoLostWakeup'
  <2>1. CASE SubtractOne(t)
    BY <2>1 DEF SubtractOne
  <2>2. CASE StoreZero(t)
    BY <2>2 DEF StoreZero
  <2>3. CASE FutexWake(t)
    BY <2>3 DEF FutexWake
  <2>4. QED
    BY <1>2, <2>1, <2>2, <2>3 DEF ReleaseStep
<1>3. ASSUME NEW t \in Threads, Interrupted(t) PROVE NoLostWakeup'
  BY <1>3 DEF Interrupted
<1>4. CASE UNCHANGED vars
  BY <1>4 DEF vars
<1>5. QED
  BY <1>1, <1>2, <1>3, <1>4 DEF Next

\* No wake-up is ever lost: a thread asleep in futex_wait is announced by the
\* word, or someone is about to wake it or to announce it again.
THEOREM WakeupsKept == Spec => []NoLostWakeup
<1>1. Init => NoLostWakeup
  BY DEF Init, NoLostWakeup, Sleepers
<1>2. QED
  BY <1>1, TypeCorrect, NextNoLostWakeup, PTL DEF Spec

-----------------------------------------------------------------------------
\* With one owner the mapping is the owner, whichever CHOOSE takes.
LEMMA OwnerOfOwner ==
  ASSUME MutualExclusion, NEW t \in Threads, Owns(t)
  PROVE  OwnerOf = t
  BY DEF OwnerOf, MutualExclusion

\* Without an owner the mapping is Nobody.
LEMMA OwnerOfNobody ==
  ASSUME \A t \in Threads : ~Owns(t)
  PROVE  OwnerOf = Nobody
  BY DEF OwnerOf

\* A step that changes no thread's ownership is a stutter of AbstractMutex.
LEMMA OwnerOfStutter ==
  ASSUME \A t \in Threads : Owns(t)' <=> Owns(t)
  PROVE  OwnerOf' = OwnerOf
  BY Zenon DEF OwnerOf

\* Every step is an abstract step or changes no ownership.
LEMMA StepRefines ==
  IInv /\ IInv' /\ [Next]_vars => [Abstract!Next]_OwnerOf
<1> SUFFICES ASSUME IInv, IInv', [Next]_vars PROVE [Abstract!Next]_OwnerOf
  OBVIOUS
<1> USE DEF IInv
<1>a. ASSUME NEW t \in Threads, \A s \in Threads : ~Owns(s), Owns(t)'
      PROVE  Abstract!Next
  <2>1. OwnerOf = Nobody
    BY <1>a, OwnerOfNobody
  <2>2. MutualExclusion' => OwnerOf' = t
    BY <1>a DEF OwnerOf, MutualExclusion
  <2>3. QED
    BY <2>1, <2>2 DEF Abstract!Next, Abstract!Acquire
<1>b. ASSUME NEW t \in Threads, Owns(t), \A s \in Threads : ~Owns(s)'
      PROVE  Abstract!Next
  <2>1. OwnerOf = t
    BY <1>b, OwnerOfOwner
  <2>2. OwnerOf' = Nobody
    BY <1>b DEF OwnerOf
  <2>3. QED
    BY <2>1, <2>2 DEF Abstract!Next, Abstract!Release
<1> DEFINE Same == \A s \in Threads : Owns(s)' <=> Owns(s)
<1>c. ASSUME Same PROVE OwnerOf' = OwnerOf
  BY <1>c, OwnerOfStutter
<1>1. ASSUME NEW t \in Threads, CasSucceeds(t) PROVE Abstract!Next
  <2>1. \A s \in Threads : ~Owns(s)
    BY <1>1 DEF CasSucceeds, WordMatchesOwner
  <2>2. Owns(t)'
    BY <1>1 DEF CasSucceeds, Owns, Goto, TypeOK
  <2>3. QED
    BY <1>a, <2>1, <2>2
<1>2. ASSUME NEW t \in Threads, CasFails(t) PROVE Same
  BY <1>2 DEF CasFails, Owns, Goto, TypeOK
<1>3. ASSUME NEW t \in Threads, ExchangeForWaiter(t)
      PROVE  Abstract!Next \/ Same
  <2>1. CASE lock = 0
    <3>1. \A s \in Threads : ~Owns(s)
      BY <2>1 DEF WordMatchesOwner
    <3>2. Owns(t)'
      BY <1>3, <2>1 DEF ExchangeForWaiter, Owns, Goto, TypeOK
    <3>3. QED
      BY <1>a, <3>1, <3>2
  <2>2. CASE lock # 0
    BY <1>3, <2>2 DEF ExchangeForWaiter, Owns, Goto, TypeOK
  <2>3. QED
    BY <2>1, <2>2
<1>4. ASSUME NEW t \in Threads, FutexWait(t) PROVE Same
  BY <1>4 DEF FutexWait, Owns, Goto, TypeOK
<1>5. ASSUME NEW t \in Threads, Interrupted(t) PROVE Same
  BY <1>5 DEF Interrupted, Owns, Goto, TypeOK
<1>6. ASSUME NEW t \in Threads, SubtractOne(t) PROVE Abstract!Next \/ Same
  <2>1. CASE lock = 1
    <3>1. Owns(t)
      BY <1>6 DEF SubtractOne, Owns
    <3>2. \A s \in Threads : ~Owns(s)'
      BY <1>6, <2>1 DEF SubtractOne, WordMatchesOwner
    <3>3. QED
      BY <1>b, <3>1, <3>2
  <2>2. CASE lock # 1
    BY <1>6, <2>2 DEF SubtractOne, Owns, Goto, TypeOK
  <2>3. QED
    BY <2>1, <2>2
<1>7. ASSUME NEW t \in Threads, StoreZero(t) PROVE Abstract!Next
  <2>1. Owns(t)
    BY <1>7 DEF StoreZero, Owns
  <2>2. \A s \in Threads : ~Owns(s)'
    BY <1>7 DEF StoreZero, WordMatchesOwner
  <2>3. QED
    BY <1>b, <2>1, <2>2
<1>8. ASSUME NEW t \in Threads, FutexWake(t) PROVE Same
  BY <1>8 DEF FutexWake, Sleepers, Owns, Goto, TypeOK
<1>9. CASE UNCHANGED vars
  <2>1. Same
    BY <1>9 DEF vars, Owns
  <2>2. QED
    BY <2>1, <1>c
<1>10. QED
  BY <1>c, <1>1, <1>2, <1>3, <1>4, <1>5, <1>6, <1>7, <1>8, <1>9
  DEF Next, AcquireStep, ReleaseStep

\* The futex mutex implements the abstract mutex: ownership goes from nobody
\* to one thread and from that thread back to nobody, never directly from
\* one thread to another.
THEOREM Refinement == Spec => ImplementsAbstractMutex
<1>1. Init => Abstract!Init
  BY OwnerOfNobody DEF Init, Abstract!Init, Owns
<1>2. QED
  BY <1>1, Inductive, StepRefines, PTL
  DEF Spec, ImplementsAbstractMutex, Abstract!Spec
=============================================================================
