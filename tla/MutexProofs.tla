----------------------------- MODULE MutexProofs -----------------------------
(***************************************************************************)
(* Proofs about Mutex for any set of threads and any depth of recursion.   *)
(***************************************************************************)
EXTENDS Mutex, FiniteSetTheorems, TLAPS

\* A destroyed mutex is unlocked and nobody is inside lock().
DestroyedIdle == invalid => locked = 0 /\ InLock = {}

\* The part of the invariant that the whole interface keeps.  OwnerHolds is
\* inductive given the types; TypeOK needs WaitingBounds, without which a
\* thread might leave lock() and decrement a waiting_ that is zero, and
\* DestroyedIdle, since unlock() does not look at invalid_.
IInv == TypeOK /\ OwnerHolds /\ WaitingBounds /\ DestroyedIdle

\* What users of scoped_mutex keep in addition.
ScopedInv == IInv /\ NoLostWakeup

-----------------------------------------------------------------------------
\* Sets of threads are finite: their cardinalities are numbers.
LEMMA SubsetCard ==
    ASSUME NEW S \in SUBSET Thread
    PROVE  IsFiniteSet(S) /\ Cardinality(S) \in Nat
BY ThreadAssumption, FS_Subset, FS_CardinalityType

LEMMA AddCard ==
    ASSUME NEW S \in SUBSET Thread, NEW t \in Thread, t \notin S
    PROVE  Cardinality(S \cup {t}) = Cardinality(S) + 1
BY SubsetCard, FS_AddElement

LEMMA DelCard ==
    ASSUME NEW S \in SUBSET Thread, NEW t \in S
    PROVE  Cardinality(S \ {t}) = Cardinality(S) - 1
BY SubsetCard, FS_RemoveElement

LEMMA NoneCard ==
    ASSUME NEW S \in SUBSET Thread, Cardinality(S) = 0
    PROVE  S = {}
BY SubsetCard, FS_EmptySet

-----------------------------------------------------------------------------
\* A step that keeps waiting_ and the set of threads in lock() keeps their
\* relation, if it takes nobody out of the cancelled ones.
LEMMA SameWaiting ==
    ASSUME TypeOK, WaitingBounds, waiting' = waiting, InLock' = InLock,
           At("cancelled")' = At("cancelled")
    PROVE  WaitingBounds'
BY DEF WaitingBounds

\* A thread that is allowed to lock becomes the holder, at the right depth.
LEMMA AcquireOwner ==
    ASSUME TypeOK, OwnerHolds, NEW t \in Thread, MayLock(t), Acquire(t),
           UNCHANGED invalid
    PROVE  /\ OwnerHolds'
           /\ locked' \in Nat
           /\ lockedBy' \in Thread \cup {NoThread}
           /\ holds' \in [Thread -> Nat]
           /\ locked' > 0
BY DEF TypeOK, OwnerHolds, MayLock, Acquire

\* A thread leaves lock(): the two counts go down together.
LEMMA LeaveSets ==
    ASSUME TypeOK, WaitingBounds, NEW t \in Thread,
           pc[t] \in {"woken", "expired"}, Leave(t)
    PROVE  /\ waiting' \in Nat
           /\ pc' \in [Thread -> Positions]
           /\ timed' \in [Thread -> BOOLEAN]
           /\ At("blocked")' = At("blocked")
           /\ At("woken")' = At("woken") \ {t}
           /\ WaitingBounds'
<1>1. /\ pc' \in [Thread -> Positions]
      /\ At("blocked")' = At("blocked")
      /\ At("woken")' = At("woken") \ {t}
      /\ At("cancelled")' = At("cancelled")
      /\ InLock' = InLock \ {t}
      /\ t \in InLock
  BY DEF TypeOK, Leave, At, InLock, Positions
<1>2. timed' \in [Thread -> BOOLEAN]
  BY DEF TypeOK, Leave
<1>3. /\ InLock \in SUBSET Thread
      /\ At("cancelled") \in SUBSET Thread
  BY DEF InLock, At
<1>4. Cardinality(InLock') = Cardinality(InLock) - 1
  BY <1>1, <1>3, DelCard
<1>5. /\ Cardinality(InLock) \in Nat
      /\ Cardinality(InLock') \in Nat
      /\ Cardinality(At("cancelled")) \in Nat
  BY <1>1, <1>3, SubsetCard
<1>6. waiting' \in Nat /\ WaitingBounds'
  BY <1>1, <1>4, <1>5 DEF TypeOK, WaitingBounds, Leave
<1> QED
  BY <1>1, <1>2, <1>6

\* A signal, if any thread is queued, leaves one thread woken.
LEMMA SignalSets ==
    ASSUME TypeOK, Signal
    PROVE  /\ pc' \in [Thread -> Positions]
           /\ InLock' = InLock
           /\ At("cancelled")' = At("cancelled")
           /\ At("blocked")' # {} => At("woken")' # {}
<1>1. CASE At("blocked") = {} /\ UNCHANGED pc
  BY <1>1 DEF TypeOK, At, InLock
<1>2. ASSUME NEW t \in At("blocked"), pc' = [pc EXCEPT ![t] = "woken"]
      PROVE  /\ pc' \in [Thread -> Positions]
             /\ InLock' = InLock
             /\ At("cancelled")' = At("cancelled")
             /\ t \in At("woken")'
  BY <1>2 DEF TypeOK, At, InLock, Positions
<1> QED
  BY <1>1, <1>2 DEF Signal

-----------------------------------------------------------------------------
LEMMA InitScopedInv == Init => ScopedInv
<1> SUFFICES ASSUME Init PROVE ScopedInv
  OBVIOUS
<1>1. TypeOK /\ OwnerHolds
  BY DEF Init, TypeOK, OwnerHolds, Positions
<1>2. At("blocked") = {} /\ InLock = {} /\ At("cancelled") = {}
  BY DEF Init, At, InLock
<1>3. WaitingBounds
  BY <1>2, FS_EmptySet DEF Init, WaitingBounds
<1> QED
  BY <1>1, <1>2, <1>3
  DEF Init, ScopedInv, IInv, NoLostWakeup, UnlockWakes, DestroyedIdle

LEMMA LockInv ==
    ASSUME IInv, NEW t \in Thread, Lock(t) \/ TryLock(t)
    PROVE  IInv' /\ UnlockWakes'
<1>1. /\ MayLock(t) /\ Acquire(t) /\ ~invalid
      /\ UNCHANGED <<waiting, invalid, pc, timed, crashed, scoped>>
  BY DEF Lock, TryLock
<1>2. InLock' = InLock /\ At("cancelled")' = At("cancelled")
  BY <1>1 DEF InLock, At
<1>3. /\ OwnerHolds' /\ locked' > 0
      /\ locked' \in Nat /\ lockedBy' \in Thread \cup {NoThread}
      /\ holds' \in [Thread -> Nat]
  BY <1>1, AcquireOwner DEF IInv
<1>4. WaitingBounds'
  BY <1>1, <1>2, SameWaiting DEF IInv
<1>5. TypeOK'
  BY <1>1, <1>3 DEF IInv, TypeOK
<1> QED
  BY <1>1, <1>3, <1>4, <1>5 DEF IInv, UnlockWakes, DestroyedIdle

LEMMA LockBlockInv ==
    ASSUME IInv, NEW t \in Thread, NEW deadline \in BOOLEAN,
           LockBlock(t, deadline)
    PROVE  IInv' /\ UnlockWakes'
<1>1. TypeOK'
  BY DEF IInv, TypeOK, LockBlock, Positions
<1>2. /\ InLock' = InLock \cup {t}
      /\ t \notin InLock
      /\ At("cancelled")' = At("cancelled")
      /\ InLock \in SUBSET Thread
      /\ At("cancelled") \in SUBSET Thread
  BY DEF IInv, TypeOK, LockBlock, InLock, At, Positions
<1>3. Cardinality(InLock') = Cardinality(InLock) + 1
  BY <1>2, AddCard
<1>4. /\ Cardinality(InLock) \in Nat
      /\ Cardinality(At("cancelled")) \in Nat
  BY <1>2, SubsetCard
<1>5. WaitingBounds'
  BY <1>2, <1>3, <1>4 DEF IInv, TypeOK, LockBlock, WaitingBounds
<1>6. OwnerHolds' /\ UnlockWakes'
  BY DEF IInv, LockBlock, MayLock, OwnerHolds, UnlockWakes
<1> QED
  BY <1>1, <1>5, <1>6 DEF IInv, LockBlock, DestroyedIdle

LEMMA UnlockInv ==
    ASSUME IInv, NEW t \in Thread, Unlock(t)
    PROVE  IInv' /\ UnlockWakes'
<1> USE DEF IInv
<1>1. /\ locked' \in Nat /\ lockedBy' \in Thread \cup {NoThread}
      /\ holds' \in [Thread -> Nat] /\ OwnerHolds'
  <2>1. ~invalid
    BY DEF TypeOK, DestroyedIdle, Unlock
  <2>2. holds[t] = locked
    BY <2>1 DEF OwnerHolds, Unlock
  <2>3. locked' \in Nat /\ lockedBy' \in Thread \cup {NoThread}
    BY DEF TypeOK, Unlock
  <2> QED
    BY <2>1, <2>2, <2>3, ThreadAssumption DEF TypeOK, Unlock, OwnerHolds
<1>2. CASE waiting > 0 /\ Signal
  <2>1. /\ pc' \in [Thread -> Positions]
        /\ InLock' = InLock
        /\ At("cancelled")' = At("cancelled")
        /\ At("blocked")' # {} => At("woken")' # {}
    BY <1>2, SignalSets
  <2>2. WaitingBounds'
    BY <2>1, SameWaiting DEF Unlock
  <2> QED
    BY <1>1, <2>1, <2>2 DEF TypeOK, Unlock, UnlockWakes, DestroyedIdle
<1>3. CASE waiting = 0 /\ UNCHANGED pc
  <2>1. InLock \in SUBSET Thread /\ Cardinality(InLock) = 0
    BY <1>3, SubsetCard DEF InLock, WaitingBounds, TypeOK
  <2>2. At("blocked") = {}
    BY <2>1, NoneCard DEF InLock, At
  <2>3. /\ InLock' = InLock
        /\ At("cancelled")' = At("cancelled")
        /\ At("blocked")' = At("blocked")
    BY <1>3 DEF InLock, At
  <2>4. WaitingBounds'
    BY <2>3, SameWaiting DEF Unlock
  <2> QED
    BY <1>1, <1>3, <2>2, <2>3, <2>4
    DEF TypeOK, Unlock, UnlockWakes, DestroyedIdle
<1> QED
  BY <1>2, <1>3 DEF Unlock

LEMMA RecursiveUnlockInv ==
    ASSUME IInv, NEW t \in Thread, RecursiveUnlock(t)
    PROVE  IInv'
<1> USE DEF IInv
<1>1. TypeOK' /\ OwnerHolds'
  BY ThreadAssumption DEF TypeOK, OwnerHolds, RecursiveUnlock
<1>2. InLock' = InLock /\ At("cancelled")' = At("cancelled")
  BY DEF RecursiveUnlock, InLock, At
<1>3. WaitingBounds'
  BY <1>2, SameWaiting DEF RecursiveUnlock
<1> QED
  BY <1>1, <1>2, <1>3 DEF RecursiveUnlock, DestroyedIdle

\* A queued thread leaves the queue and stays in lock().
LEMMA UnqueueInv ==
    ASSUME IInv, NEW t \in Thread, Spurious(t) \/ Expire(t)
    PROVE  IInv' /\ (UnlockWakes => UnlockWakes')
<1> USE DEF IInv
<1>1. PICK p \in {"woken", "expired"} : pc' = [pc EXCEPT ![t] = p]
  BY DEF Spurious, Expire
<1>2. /\ pc[t] = "blocked"
      /\ UNCHANGED <<locked, lockedBy, waiting, invalid, timed, holds, crashed, scoped>>
  BY DEF Spurious, Expire
<1>3. TypeOK' /\ OwnerHolds'
  BY <1>1, <1>2 DEF TypeOK, OwnerHolds, Positions
<1>4. /\ InLock' = InLock
      /\ At("cancelled")' = At("cancelled")
      /\ t \in At("blocked")
      /\ At("woken") \subseteq At("woken")'
  BY <1>1, <1>2 DEF TypeOK, InLock, At, Positions
<1>5. WaitingBounds'
  BY <1>2, <1>4, SameWaiting
<1> QED
  BY <1>2, <1>3, <1>4, <1>5 DEF UnlockWakes, DestroyedIdle

LEMMA ResumeInv ==
    ASSUME IInv, NEW t \in Thread, Resume(t)
    PROVE  IInv' /\ (UnlockWakes => UnlockWakes')
<1> USE DEF IInv
<1>0. ~invalid /\ invalid' = invalid /\ crashed' = crashed /\ scoped' = scoped
  BY DEF Resume, DestroyedIdle, InLock
<1>1. CASE pc[t] = "woken" /\ MayLock(t) /\ Acquire(t) /\ Leave(t)
  <2>1. /\ OwnerHolds' /\ locked' > 0
        /\ locked' \in Nat /\ lockedBy' \in Thread \cup {NoThread}
        /\ holds' \in [Thread -> Nat]
    BY <1>1, AcquireOwner DEF Resume
  <2>2. /\ waiting' \in Nat
        /\ pc' \in [Thread -> Positions]
        /\ timed' \in [Thread -> BOOLEAN]
        /\ WaitingBounds'
    BY <1>1, LeaveSets
  <2> QED
    BY <1>0, <2>1, <2>2 DEF TypeOK, UnlockWakes, DestroyedIdle
<1>2. CASE /\ pc[t] = "woken" /\ ~MayLock(t)
           /\ pc' = [pc EXCEPT ![t] = "blocked"]
           /\ UNCHANGED <<locked, lockedBy, waiting, timed, holds>>
  <2>1. TypeOK' /\ OwnerHolds'
    BY <1>0, <1>2 DEF TypeOK, OwnerHolds, Positions
  <2>2. InLock' = InLock /\ At("cancelled")' = At("cancelled")
    BY <1>2 DEF TypeOK, InLock, At, Positions
  <2>3. WaitingBounds'
    BY <1>2, <2>2, SameWaiting
  <2> QED
    BY <1>0, <1>2, <2>1, <2>3 DEF MayLock, UnlockWakes, DestroyedIdle
<1>3. CASE /\ pc[t] = "expired" /\ Leave(t)
           /\ UNCHANGED <<locked, lockedBy, holds>>
  <2>1. /\ waiting' \in Nat
        /\ pc' \in [Thread -> Positions]
        /\ timed' \in [Thread -> BOOLEAN]
        /\ At("blocked")' = At("blocked")
        /\ At("woken")' = At("woken") \ {t}
        /\ WaitingBounds'
    BY <1>3, LeaveSets
  <2>2. At("woken") \ {t} = At("woken")
    BY <1>3 DEF At
  <2> QED
    BY <1>0, <1>3, <2>1, <2>2
    DEF TypeOK, OwnerHolds, UnlockWakes, DestroyedIdle
<1> QED
  BY <1>1, <1>2, <1>3 DEF Resume

LEMMA CancelInv ==
    ASSUME IInv, NEW t \in Thread, Cancel(t)
    PROVE  IInv' /\ (UnlockWakes => UnlockWakes')
<1> USE DEF IInv
<1>1. TypeOK' /\ OwnerHolds'
  BY DEF TypeOK, OwnerHolds, Cancel, Positions
<1>2. /\ At("cancelled")' = At("cancelled") \cup {t}
      /\ t \notin At("cancelled")
      /\ At("blocked")' \in SUBSET At("blocked")
      /\ At("woken")' = At("woken")
      /\ InLock' = InLock \ {t}
      /\ InLock \in SUBSET Thread
      /\ At("cancelled") \in SUBSET Thread
  BY DEF TypeOK, Cancel, InLock, At, Positions
<1>3. Cardinality(At("cancelled")') = Cardinality(At("cancelled")) + 1
  BY <1>2, AddCard
<1>4. Cardinality(InLock') \in {Cardinality(InLock), Cardinality(InLock) - 1}
  <2>1. CASE t \in InLock
    BY <1>2, <2>1, DelCard
  <2>2. CASE t \notin InLock
    <3>1. InLock' = InLock
      BY <1>2, <2>2
    <3> QED
      BY <3>1
  <2> QED
    BY <2>1, <2>2
<1>5. /\ Cardinality(InLock) \in Nat
      /\ Cardinality(At("cancelled")) \in Nat
  BY <1>2, SubsetCard
<1>6. WaitingBounds'
  BY <1>3, <1>4, <1>5 DEF TypeOK, Cancel, WaitingBounds
<1> QED
  BY <1>1, <1>2, <1>6 DEF Cancel, UnlockWakes, DestroyedIdle

\* A thread that is outside lock() ends.
LEMMA ExitInv ==
    ASSUME IInv, NEW t \in Thread, Exit(t) \/ ExitHolding(t)
    PROVE  IInv' /\ (UnlockWakes => UnlockWakes')
<1> USE DEF IInv
<1>1. /\ pc[t] = "idle"
      /\ pc' = [pc EXCEPT ![t] = "exited"]
      /\ crashed' \in BOOLEAN
      /\ UNCHANGED <<locked, lockedBy, waiting, invalid, timed, holds, scoped>>
  BY DEF Exit, ExitHolding, TypeOK
<1>2. TypeOK' /\ OwnerHolds'
  BY <1>1 DEF TypeOK, OwnerHolds, Positions
<1>3. /\ InLock' = InLock
      /\ \A p \in {"blocked", "woken", "cancelled"} : At(p)' = At(p)
  BY <1>1 DEF TypeOK, InLock, At, Positions
<1>4. WaitingBounds'
  BY <1>1, <1>3, SameWaiting
<1> QED
  BY <1>1, <1>2, <1>3, <1>4 DEF UnlockWakes, DestroyedIdle

LEMMA DestroyInv ==
    ASSUME IInv, Destroy
    PROVE  IInv' /\ UnlockWakes'
<1> USE DEF IInv
<1>1. TypeOK' /\ OwnerHolds'
  BY DEF TypeOK, OwnerHolds, Destroy
<1>2. InLock' = {} /\ At("cancelled")' = At("cancelled")
  BY DEF Destroy, InLock, At
<1>3. Cardinality(At("cancelled")) \in Nat
  BY SubsetCard DEF At
<1>4. WaitingBounds'
  BY <1>2, <1>3, FS_EmptySet DEF Destroy, WaitingBounds
<1> QED
  BY <1>1, <1>2, <1>4 DEF Destroy, UnlockWakes, DestroyedIdle

LEMMA StutterInv ==
    ASSUME IInv, UNCHANGED vars
    PROVE  IInv' /\ (UnlockWakes => UnlockWakes')
BY DEF IInv, vars, TypeOK, OwnerHolds, WaitingBounds, DestroyedIdle,
       UnlockWakes, InLock, At

\* One step of a user of scoped_mutex.
LEMMA ScopedStep ==
    ASSUME IInv, ScopedNext
    PROVE  IInv' /\ (UnlockWakes => UnlockWakes')
<1>1. ASSUME NEW t \in Thread, Lock(t)
      PROVE  IInv' /\ UnlockWakes'
  BY <1>1, LockInv
<1>2. ASSUME NEW t \in Thread, TryLock(t)
      PROVE  IInv' /\ UnlockWakes'
  BY <1>2, LockInv
<1>3. ASSUME NEW t \in Thread, NEW deadline \in BOOLEAN, LockBlock(t, deadline)
      PROVE  IInv' /\ UnlockWakes'
  BY <1>3, LockBlockInv
<1>4. ASSUME NEW t \in Thread, Unlock(t)
      PROVE  IInv' /\ UnlockWakes'
  BY <1>4, UnlockInv
<1>5. ASSUME NEW t \in Thread, Spurious(t) \/ Expire(t)
      PROVE  IInv' /\ (UnlockWakes => UnlockWakes')
  BY <1>5, UnqueueInv
<1>6. ASSUME NEW t \in Thread, Resume(t)
      PROVE  IInv' /\ (UnlockWakes => UnlockWakes')
  BY <1>6, ResumeInv
<1>7. ASSUME NEW t \in Thread, Cancel(t)
      PROVE  IInv' /\ (UnlockWakes => UnlockWakes')
  BY <1>7, CancelInv
<1>8. ASSUME NEW t \in Thread, Exit(t)
      PROVE  IInv' /\ (UnlockWakes => UnlockWakes')
  BY <1>8, ExitInv
<1>9. CASE Destroy
  BY <1>9, DestroyInv
<1> QED
  BY <1>1, <1>2, <1>3, <1>4, <1>5, <1>6, <1>7, <1>8, <1>9 DEF ScopedNext

\* One step of anybody.
LEMMA NextIInv == IInv /\ [Next]_vars => IInv'
<1> SUFFICES ASSUME IInv, [Next]_vars PROVE IInv'
  OBVIOUS
<1>1. CASE ScopedNext
  BY <1>1, ScopedStep
<1>2. ASSUME NEW t \in Thread, RecursiveUnlock(t)
      PROVE  IInv'
  BY <1>2, RecursiveUnlockInv
<1>3. ASSUME NEW t \in Thread, ExitHolding(t)
      PROVE  IInv'
  BY <1>3, ExitInv
<1>4. CASE UNCHANGED vars
  BY <1>4, StutterInv
<1> QED
  BY <1>1, <1>2, <1>3, <1>4 DEF Next

\* What threads use does not change.
LEMMA ScopedStays == [Next]_vars => scoped' = scoped
BY DEF Next, ScopedNext, Lock, TryLock, LockBlock, Unlock, Spurious, Expire,
       Resume, Cancel, Exit, Destroy, RecursiveUnlock, ExitHolding, vars

LEMMA NextScopedInv == ScopedInv /\ [Next]_vars => ScopedInv'
<1> SUFFICES ASSUME ScopedInv, [Next]_vars PROVE ScopedInv'
  OBVIOUS
<1>1. IInv /\ IInv'
  BY NextIInv DEF ScopedInv
<1>2. CASE scoped
  <2>1. UnlockWakes
    BY <1>2 DEF ScopedInv, NoLostWakeup
  <2>2. CASE ScopedNext
    BY <1>1, <2>1, <2>2, ScopedStep DEF ScopedInv, NoLostWakeup
  <2>3. CASE UNCHANGED vars
    BY <1>1, <2>1, <2>3, StutterInv DEF ScopedInv, NoLostWakeup
  <2> QED
    BY <1>2, <2>2, <2>3 DEF Next
<1>3. CASE ~scoped
  BY <1>1, <1>3, ScopedStays DEF ScopedInv, NoLostWakeup
<1> QED
  BY <1>2, <1>3

-----------------------------------------------------------------------------
\* The counters of the mutex never leave the natural numbers (as unsigned
\* integers they would wrap), whatever methods of mutex_impl_pthread.cc are
\* called in whatever order.
THEOREM TypeCorrect == Spec => []TypeOK
<1>1. Init => IInv
  BY InitScopedInv DEF ScopedInv
<1>2. Spec => []IInv
  BY <1>1, NextIInv, PTL DEF Spec
<1> QED
  BY <1>2, PTL DEF IInv

\* Mutual exclusion of the recursive mutex, for every number of threads and
\* every depth, recursive_unlock() and careless threads included.
THEOREM MutualExclusion == Spec => []OwnerHolds
<1>1. Init => IInv
  BY InitScopedInv DEF ScopedInv
<1>2. Spec => []IInv
  BY <1>1, NextIInv, PTL DEF Spec
<1> QED
  BY <1>2, PTL DEF IInv

\* For the users of scoped_mutex no wake-up of unlock() is lost.
THEOREM NoWakeupIsLost == Spec => []NoLostWakeup
<1>1. Spec => []ScopedInv
  BY InitScopedInv, NextScopedInv, PTL DEF Spec
<1> QED
  BY <1>1, PTL DEF ScopedInv
=============================================================================
