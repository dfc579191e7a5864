---------------------------- MODULE NThreadProofs ----------------------------
(***************************************************************************)
(* Proofs about event, from its lemmas about pevent, and about thread, for *)
(* any set of threads, any subset of them that may be cancelled, any bound *)
(* on the notifications, any runs and any clients that stop a thread.      *)
(***************************************************************************)
EXTENDS PEvent, Thread, FiniteSetTheorems, TLAPS

\* The destructor leaves nobody queued, and nobody queues afterwards.
DestroyedEmpty == invalid => At("blocked") = {}

\* WaitingBounds keeps waiting_ from being decremented below zero, and makes
\* waiting_ = 0 mean that nobody is queued, which notify() relies on when it
\* does not signal.  DestroyedEmpty covers the waiters that leave a destroyed
\* event without taking the notification that woke them.
IInv == TypeOK /\ WaitingBounds /\ NoLostWakeup /\ DestroyedEmpty

-----------------------------------------------------------------------------
\* Sets of threads are finite: their cardinalities are numbers.
LEMMA SubsetCard ==
    ASSUME NEW S \in SUBSET Thread
    PROVE  IsFiniteSet(S) /\ Cardinality(S) \in Nat
BY ThreadAssumption, FS_Subset, FS_CardinalityType

\* One thread more, one thread less.
LEMMA AddCard ==
    ASSUME NEW S \in SUBSET Thread, NEW t \in Thread, t \notin S
    PROVE  Cardinality(S \cup {t}) = Cardinality(S) + 1
BY SubsetCard, FS_AddElement

LEMMA DelCard ==
    ASSUME NEW S \in SUBSET Thread, NEW t \in S
    PROVE  Cardinality(S \ {t}) = Cardinality(S) - 1
BY SubsetCard, FS_RemoveElement

LEMMA SubCard ==
    ASSUME NEW S \in SUBSET Thread, NEW T \in SUBSET S
    PROVE  Cardinality(T) <= Cardinality(S)
BY SubsetCard, FS_Subset

LEMMA NoneCard ==
    ASSUME NEW S \in SUBSET Thread, Cardinality(S) = 0
    PROVE  S = {}
BY SubsetCard, FS_EmptySet

-----------------------------------------------------------------------------
\* What waking the queued threads W does to the sets the invariants speak of.
LEMMA WakeSets ==
    ASSUME TypeOK, NEW W \in SUBSET At("blocked"),
           pc' = [t \in Thread |-> IF t \in W THEN "woken" ELSE pc[t]]
    PROVE  /\ pc' \in [Thread -> Positions]
           /\ At("blocked")' = At("blocked") \ W
           /\ At("woken")' = At("woken") \cup W
           /\ At("cancelled")' = At("cancelled")
           /\ InWait' = InWait
BY DEF TypeOK, At, InWait, Positions

\* A broadcast wakes them all.
LEMMA BroadcastSets ==
    ASSUME TypeOK, Broadcast
    PROVE  /\ pc' \in [Thread -> Positions]
           /\ At("blocked")' = {}
           /\ At("cancelled")' = At("cancelled")
           /\ InWait' = InWait
BY DEF TypeOK, Broadcast, At, InWait, Positions

\* A thread leaves wait(): the two counts go down together.
LEMMA LeaveSets ==
    ASSUME TypeOK, WaitingBounds, NEW t \in Thread, NEW ret \in BOOLEAN,
           pc[t] \in {"woken", "expired"}, Leave(t, ret)
    PROVE  /\ available' \in Nat
           /\ waiting' \in Nat
           /\ pc' \in [Thread -> Positions]
           /\ timed' \in [Thread -> BOOLEAN]
           /\ result' \in [Thread -> BOOLEAN]
           /\ At("blocked")' = At("blocked")
           /\ At("woken")' = At("woken") \ {t}
           /\ WaitingBounds'
<1>1. /\ pc' \in [Thread -> Positions]
      /\ At("blocked")' = At("blocked")
      /\ At("woken")' = At("woken") \ {t}
      /\ At("cancelled")' = At("cancelled")
      /\ InWait' = InWait \ {t}
      /\ t \in InWait
  BY DEF TypeOK, Leave, At, InWait, Positions
<1>2. /\ timed' \in [Thread -> BOOLEAN]
      /\ result' \in [Thread -> BOOLEAN]
      /\ available' \in Nat
  BY DEF TypeOK, Leave
<1>3. /\ InWait \in SUBSET Thread
      /\ At("cancelled") \in SUBSET Thread
  BY DEF InWait, At
<1>4. Cardinality(InWait') = Cardinality(InWait) - 1
  BY <1>1, <1>3, DelCard
<1>5. /\ Cardinality(InWait) \in Nat
      /\ Cardinality(InWait') \in Nat
      /\ Cardinality(At("cancelled")) \in Nat
  BY <1>1, <1>3, SubsetCard
<1>6. waiting' \in Nat /\ WaitingBounds'
  BY <1>1, <1>4, <1>5 DEF TypeOK, WaitingBounds, Leave
<1> QED
  BY <1>1, <1>2, <1>6

-----------------------------------------------------------------------------
LEMMA InitIInv == Init => IInv
<1> SUFFICES ASSUME Init PROVE IInv
  OBVIOUS
<1>1. TypeOK
  BY DEF Init, TypeOK, Positions
<1>2. At("blocked") = {} /\ InWait = {} /\ At("cancelled") = {}
  BY DEF Init, At, InWait
<1>3. WaitingBounds
  BY <1>2, FS_EmptySet DEF Init, WaitingBounds
<1> QED
  BY <1>1, <1>2, <1>3 DEF IInv, NoLostWakeup, DestroyedEmpty

LEMMA NotifyIInv ==
    ASSUME IInv, NEW n \in 1..MaxAvailable, Notify(n)
    PROVE  IInv'
<1> USE DEF IInv
<1>1. /\ available' \in Nat /\ waiting' \in Nat /\ invalid' \in BOOLEAN
      /\ timed' \in [Thread -> BOOLEAN] /\ result' \in [Thread -> BOOLEAN]
  BY MaxAvailableAssumption DEF TypeOK, Notify
<1>2. CASE waiting = 0 /\ UNCHANGED pc
  <2>1. InWait \in SUBSET Thread /\ Cardinality(InWait) = 0
    BY <1>2, SubsetCard DEF InWait, WaitingBounds, TypeOK
  <2>2. At("blocked") = {}
    BY <2>1, NoneCard DEF InWait, At
  <2>3. InWait' = InWait /\ \A p \in Positions : At(p)' = At(p)
    BY <1>2 DEF InWait, At
  <2> QED
    BY <1>1, <1>2, <2>2, <2>3
    DEF Notify, TypeOK, WaitingBounds, NoLostWakeup, DestroyedEmpty, Positions
<1>3. CASE Broadcast
  <2> QED
    BY <1>1, <1>3, BroadcastSets
    DEF Notify, TypeOK, WaitingBounds, NoLostWakeup, DestroyedEmpty
<1>4. CASE waiting > 0 /\ available' < waiting /\ SignalTimes(available')
  <2>1. PICK W \in SUBSET At("blocked") :
           /\ \/ Cardinality(W) = available'
              \/ W = At("blocked")
           /\ pc' = [t \in Thread |-> IF t \in W THEN "woken" ELSE pc[t]]
    BY <1>4 DEF SignalTimes
  <2>2. /\ pc' \in [Thread -> Positions]
        /\ At("blocked")' = At("blocked") \ W
        /\ At("woken")' = At("woken") \cup W
        /\ At("cancelled")' = At("cancelled")
        /\ InWait' = InWait
    BY <2>1, WakeSets
  <2>3. At("woken")' \in SUBSET Thread
    BY DEF At
  <2>4. /\ Cardinality(W) <= Cardinality(At("woken")')
        /\ Cardinality(At("woken")') \in Nat
        /\ Cardinality(W) \in Nat
    BY <2>2, <2>3, SubCard, SubsetCard
  <2>5. NoLostWakeup'
    BY <1>1, <2>1, <2>2, <2>4 DEF NoLostWakeup
  <2> QED
    BY <1>1, <2>2, <2>5 DEF Notify, TypeOK, WaitingBounds, DestroyedEmpty
<1> QED
  BY <1>2, <1>3, <1>4 DEF Notify

LEMMA NotifyAllIInv ==
    ASSUME IInv, NotifyAll
    PROVE  IInv'
<1> USE DEF IInv
<1>1. /\ available' \in Nat /\ waiting' \in Nat /\ invalid' \in BOOLEAN
      /\ timed' \in [Thread -> BOOLEAN] /\ result' \in [Thread -> BOOLEAN]
  BY DEF TypeOK, NotifyAll
<1>2. CASE waiting = 0 /\ UNCHANGED pc
  <2>1. InWait \in SUBSET Thread /\ Cardinality(InWait) = 0
    BY <1>2, SubsetCard DEF InWait, WaitingBounds, TypeOK
  <2>2. At("blocked") = {}
    BY <2>1, NoneCard DEF InWait, At
  <2>3. InWait' = InWait /\ \A p \in Positions : At(p)' = At(p)
    BY <1>2 DEF InWait, At
  <2> QED
    BY <1>1, <1>2, <2>2, <2>3
    DEF NotifyAll, TypeOK, WaitingBounds, NoLostWakeup, DestroyedEmpty,
        Positions
<1>3. CASE Broadcast
  BY <1>1, <1>3, BroadcastSets
  DEF NotifyAll, TypeOK, WaitingBounds, NoLostWakeup, DestroyedEmpty
<1> QED
  BY <1>2, <1>3 DEF NotifyAll

\* A thread enters the queue when nothing is pending.
LEMMA WaitBlockIInv ==
    ASSUME IInv, NEW t \in Thread, NEW deadline \in BOOLEAN,
           WaitBlock(t, deadline)
    PROVE  IInv'
<1> USE DEF IInv
<1>1. TypeOK'
  BY DEF TypeOK, WaitBlock, Positions
<1>2. /\ InWait' = InWait \cup {t}
      /\ t \notin InWait
      /\ At("cancelled")' = At("cancelled")
      /\ InWait \in SUBSET Thread
      /\ At("woken")' \in SUBSET Thread
      /\ At("cancelled") \in SUBSET Thread
  BY DEF TypeOK, WaitBlock, InWait, At, Positions
<1>3. Cardinality(InWait') = Cardinality(InWait) + 1
  BY <1>2, AddCard
<1>4. /\ Cardinality(InWait) \in Nat
      /\ Cardinality(At("cancelled")) \in Nat
      /\ Cardinality(At("woken")') \in Nat
  BY <1>2, SubsetCard
<1>5. WaitingBounds'
  BY <1>2, <1>3, <1>4 DEF TypeOK, WaitBlock, WaitingBounds
<1>6. NoLostWakeup'
  BY <1>4 DEF WaitBlock, NoLostWakeup
<1> QED
  BY <1>1, <1>5, <1>6 DEF WaitBlock, DestroyedEmpty

\* A queued thread leaves the queue and stays in wait().
LEMMA UnqueueIInv ==
    ASSUME IInv, NEW t \in Thread, pc[t] = "blocked",
           NEW p \in {"woken", "expired"},
           pc' = [pc EXCEPT ![t] = p],
           UNCHANGED <<available, waiting, invalid, timed, result>>
    PROVE  IInv'
<1> USE DEF IInv
<1>1. TypeOK'
  BY DEF TypeOK, Positions
<1>2. /\ InWait' = InWait
      /\ At("cancelled")' = At("cancelled")
      /\ At("blocked") # {}
      /\ At("blocked")' \in SUBSET At("blocked")
      /\ At("woken") \in SUBSET At("woken")'
      /\ At("woken")' \in SUBSET Thread
  BY DEF TypeOK, InWait, At, Positions
<1>3. /\ Cardinality(At("woken")') \in Nat
      /\ Cardinality(At("woken")) \in Nat
      /\ Cardinality(At("woken")) <= Cardinality(At("woken")')
  BY <1>2, SubsetCard, SubCard
<1>4. NoLostWakeup'
  BY <1>2, <1>3 DEF NoLostWakeup, TypeOK
<1> QED
  BY <1>1, <1>2, <1>4 DEF WaitingBounds, DestroyedEmpty

\* One notification fewer with the same threads queued and woken.
LEMMA TakenIInv ==
    ASSUME IInv, available' \in Nat, available' <= available,
           result' \in [Thread -> BOOLEAN],
           UNCHANGED <<waiting, invalid, pc, timed>>
    PROVE  IInv'
<1> USE DEF IInv
<1>1. InWait' = InWait /\ \A p \in Positions : At(p)' = At(p)
  BY DEF InWait, At
<1>2. Cardinality(At("woken")) \in Nat
  BY SubsetCard DEF At
<1> QED
  BY <1>1, <1>2
  DEF TypeOK, WaitingBounds, NoLostWakeup, DestroyedEmpty, Positions

LEMMA ResumeIInv ==
    ASSUME IInv, NEW t \in Thread, Resume(t)
    PROVE  IInv'
<1> USE DEF IInv
<1>0. /\ At("woken") \in SUBSET Thread
      /\ At("woken")' \in SUBSET Thread
      /\ Cardinality(At("woken")) \in Nat
      /\ Cardinality(At("woken")') \in Nat
  BY SubsetCard DEF At
<1>1. CASE pc[t] = "woken" /\ available > 0 /\ Leave(t, TRUE)
  <2>1. t \in At("woken")
    BY <1>1 DEF At
  <2>2. /\ TypeOK' /\ WaitingBounds'
        /\ At("blocked")' = At("blocked")
        /\ At("woken")' = At("woken") \ {t}
    BY <1>1, LeaveSets DEF Resume, TypeOK
  <2>3. Cardinality(At("woken")') = Cardinality(At("woken")) - 1
    BY <1>0, <2>1, <2>2, DelCard
  <2>4. available' = available - 1
    BY <1>1 DEF Leave
  <2> QED
    BY <1>0, <2>2, <2>3, <2>4 DEF NoLostWakeup, DestroyedEmpty, Resume, TypeOK
<1>2. CASE /\ pc[t] = "woken"
           /\ available = 0
           /\ pc' = [pc EXCEPT ![t] = "blocked"]
           /\ UNCHANGED <<available, waiting, timed, result>>
  <2>1. /\ TypeOK'
        /\ InWait' = InWait
        /\ At("cancelled")' = At("cancelled")
    BY <1>2 DEF Resume, TypeOK, InWait, At, Positions
  <2> QED
    BY <1>0, <1>2, <2>1 DEF NoLostWakeup, WaitingBounds, DestroyedEmpty, Resume
<1>3. CASE pc[t] = "expired" /\ Leave(t, FALSE)
  <2>1. At("woken") \ {t} = At("woken")
    BY <1>3 DEF At
  <2>2. /\ TypeOK' /\ WaitingBounds'
        /\ At("blocked")' = At("blocked")
        /\ At("woken")' = At("woken")
    BY <1>3, <2>1, LeaveSets DEF Resume, TypeOK
  <2>3. available' = available
    BY <1>3 DEF Leave
  <2> QED
    BY <2>2, <2>3 DEF NoLostWakeup, DestroyedEmpty, Resume
<1> QED
  BY <1>1, <1>2, <1>3 DEF Resume

LEMMA CancelIInv ==
    ASSUME IInv, NEW t \in Thread, Cancel(t)
    PROVE  IInv'
<1> USE DEF IInv
<1>1. TypeOK'
  BY DEF TypeOK, Cancel, Positions
<1>2. /\ At("cancelled")' = At("cancelled") \cup {t}
      /\ t \notin At("cancelled")
      /\ At("blocked")' \in SUBSET At("blocked")
      /\ At("woken")' = At("woken")
      /\ InWait' = InWait \ {t}
      /\ InWait \in SUBSET Thread
      /\ At("cancelled") \in SUBSET Thread
  BY DEF TypeOK, Cancel, InWait, At, Positions
<1>3. Cardinality(At("cancelled")') = Cardinality(At("cancelled")) + 1
  BY <1>2, AddCard
<1>4. Cardinality(InWait') \in {Cardinality(InWait), Cardinality(InWait) - 1}
  <2>1. CASE t \in InWait
    BY <1>2, <2>1, DelCard
  <2>2. CASE t \notin InWait
    <3>1. InWait' = InWait
      BY <1>2, <2>2
    <3> QED
      BY <3>1
  <2> QED
    BY <2>1, <2>2
<1>5. /\ Cardinality(InWait) \in Nat
      /\ Cardinality(At("cancelled")) \in Nat
  BY <1>2, SubsetCard
<1>6. WaitingBounds'
  BY <1>3, <1>4, <1>5 DEF TypeOK, Cancel, WaitingBounds
<1>7. NoLostWakeup'
  BY <1>2 DEF Cancel, NoLostWakeup
<1> QED
  BY <1>1, <1>2, <1>6, <1>7 DEF Cancel, DestroyedEmpty

LEMMA DestroyIInv ==
    ASSUME IInv, Destroy
    PROVE  IInv'
BY BroadcastSets
DEF IInv, Destroy, TypeOK, WaitingBounds, NoLostWakeup, DestroyedEmpty

LEMMA ResumeDestroyedIInv ==
    ASSUME IInv, NEW t \in Thread, ResumeDestroyed(t)
    PROVE  IInv'
<1> USE DEF IInv
<1>1. PICK ret \in BOOLEAN : Leave(t, ret)
  BY DEF ResumeDestroyed
<1>2. pc[t] \in {"woken", "expired"} /\ invalid /\ invalid'
  BY DEF ResumeDestroyed
<1>3. /\ TypeOK' /\ WaitingBounds'
      /\ At("blocked")' = At("blocked")
  BY <1>1, <1>2, LeaveSets DEF TypeOK
<1> QED
  BY <1>2, <1>3 DEF NoLostWakeup, DestroyedEmpty

\* Every step of the event or of a thread keeps the inductive invariant.
LEMMA NextIInv == IInv /\ [Next]_vars => IInv'
<1> SUFFICES ASSUME IInv, [Next]_vars PROVE IInv'
  OBVIOUS
<1>1. CASE \E n \in 1..MaxAvailable : Notify(n)
  BY <1>1, NotifyIInv
<1>2. CASE NotifyAll
  BY <1>2, NotifyAllIInv
<1>3. CASE ClearAvailable
  BY <1>3, TakenIInv DEF ClearAvailable, IInv, TypeOK
<1>4. CASE Destroy
  BY <1>4, DestroyIInv
<1>5. ASSUME NEW t \in Thread, WaitTake(t)
      PROVE  IInv'
  BY <1>5, TakenIInv DEF WaitTake, IInv, TypeOK
<1>6. ASSUME NEW t \in Thread, NEW deadline \in BOOLEAN, WaitBlock(t, deadline)
      PROVE  IInv'
  BY <1>6, WaitBlockIInv
<1>7. ASSUME NEW t \in Thread, Spurious(t) \/ Expire(t)
      PROVE  IInv'
  BY <1>7, UnqueueIInv DEF Spurious, Expire
<1>8. ASSUME NEW t \in Thread, Resume(t)
      PROVE  IInv'
  BY <1>8, ResumeIInv
<1>9. ASSUME NEW t \in Thread, ResumeDestroyed(t)
      PROVE  IInv'
  BY <1>9, ResumeDestroyedIInv
<1>10. ASSUME NEW t \in Thread, Cancel(t)
       PROVE  IInv'
  BY <1>10, CancelIInv
<1>11. ASSUME NEW t \in Thread, WaitNb(t)
       PROVE  IInv'
  <2>1. (available > 0) \in BOOLEAN
    OBVIOUS
  <2>2. result' \in [Thread -> BOOLEAN]
    BY <1>11, <2>1, Zenon DEF WaitNb, IInv, TypeOK
  <2>3. /\ available' \in Nat /\ available' <= available
        /\ UNCHANGED <<waiting, invalid, pc, timed>>
    BY <1>11 DEF WaitNb, IInv, TypeOK
  <2> QED
    BY <2>2, <2>3, TakenIInv
<1>12. CASE UNCHANGED vars
  BY <1>12, TakenIInv DEF vars, IInv, TypeOK
<1> QED
  BY <1>1, <1>2, <1>3, <1>4, <1>5, <1>6, <1>7, <1>8, <1>9, <1>10, <1>11,
     <1>12 DEF Next

-----------------------------------------------------------------------------
\* The counters of the event never leave the natural numbers: no interleaving
\* of the methods of event_impl_pthread.cc decrements waiting_ or available_
\* below zero (as unsigned integers they would wrap).
THEOREM TypeCorrect == Spec => []TypeOK
<1>1. Spec => []IInv
  BY InitIInv, NextIInv, PTL DEF Spec
<1> QED
  BY <1>1, PTL DEF IInv

\* No wake-up of event::notify() or notify_all() is lost, for any number of
\* threads, with time-outs, spurious wake-ups, cancellation and destruction.
THEOREM NoWakeupIsLost == Spec => []NoLostWakeup
<1>1. Spec => []IInv
  BY InitIInv, NextIInv, PTL DEF Spec
<1> QED
  BY <1>1, PTL DEF IInv

\* waiting_count() is never short of a thread inside event::wait(), and beyond
\* by at most the threads that were cancelled.
THEOREM WaitingWithinBounds == Spec => []WaitingBounds
<1>1. Spec => []IInv
  BY InitIInv, NextIInv, PTL DEF Spec
<1> QED
  BY <1>1, PTL DEF IInv

-----------------------------------------------------------------------------
(* The event implements the counting semaphore: the safety part of         *)
(* ImplementsSemaphore.  InWait are the parked threads, and what waiting_   *)
(* counts beyond them is the semaphore's surplus.                           *)

Surplus == waiting - Cardinality(InWait)

\* The variables of the semaphore that a step leaves alone when it moves no
\* thread into or out of wait().
LEMMA SameParked ==
    ASSUME UNCHANGED waiting, InWait' = InWait
    PROVE  Surplus' = Surplus
BY DEF Surplus

\* The surplus and the threads inside wait() make up waiting_.
LEMMA SurplusSum ==
    ASSUME IInv
    PROVE  /\ Cardinality(InWait) + Surplus = waiting
           /\ InWait \in SUBSET Thread
           /\ Cardinality(InWait) \in Nat
<1>1. InWait \in SUBSET Thread
  BY DEF InWait
<1>2. Cardinality(InWait) \in Nat
  BY <1>1, SubsetCard
<1> QED
  BY <1>1, <1>2 DEF Surplus, IInv, TypeOK

\* Both modules count the same way.
LEMMA SameCardinality ==
    ASSUME NEW S
    PROVE  Abstract!Cardinality(S) = Cardinality(S)
BY DEF Cardinality, Abstract!Cardinality, IsFiniteSet, Abstract!IsFiniteSet

\* A new event is a semaphore without notifications.
LEMMA RefinesInit == Init => Abstract!SInit
<1> SUFFICES ASSUME Init
             PROVE  Abstract!SInit
  OBVIOUS
<1>1. InWait = {} /\ Cardinality(InWait) = 0
  BY FS_EmptySet DEF Init, InWait
<1> QED
  BY <1>1 DEF Init, Abstract!SInit

\* A thread that leaves wait() in the code leaves the semaphore.
LEMMA LeaveParked ==
    ASSUME IInv, NEW t \in Thread, NEW ret \in BOOLEAN, t \in InWait, Leave(t, ret)
    PROVE  InWait' = InWait \ {t} /\ Surplus' = Surplus
<1>1. InWait' = InWait \ {t}
  BY DEF IInv, TypeOK, Leave, InWait
<1>2. Cardinality(InWait') = Cardinality(InWait) - 1
  BY <1>1, SurplusSum, DelCard
<1>3. waiting' = waiting - 1 /\ waiting \in Nat
  BY DEF Leave, IInv, TypeOK
<1> QED
  BY <1>1, <1>2, <1>3, SurplusSum DEF Surplus

\* Posting and forgetting notifications, and the destructor.
LEMMA RefinesRelease ==
    ASSUME IInv,
           (\E n \in 1..MaxAvailable : Notify(n)) \/ NotifyAll \/ ClearAvailable \/ Destroy
    PROVE  Abstract!SNext
<1>0. TypeOK
  BY DEF IInv
<1>1. InWait' = InWait /\ UNCHANGED <<waiting, result>>
  <2>1. CASE Broadcast \/ UNCHANGED pc
    BY <1>0, <2>1, BroadcastSets
    DEF Notify, NotifyAll, ClearAvailable, Destroy, InWait
  <2>2. ASSUME NEW n, SignalTimes(n)
        PROVE  InWait' = InWait
    BY <1>0, <2>2, WakeSets DEF SignalTimes
  <2> QED
    BY <2>1, <2>2 DEF Notify, NotifyAll, ClearAvailable, Destroy
<1>2. (waiting - Cardinality(InWait))' = waiting - Cardinality(InWait)
  BY <1>1
<1>3. Abstract!Cardinality(InWait) + (waiting - Cardinality(InWait)) = waiting
  BY SurplusSum, SameCardinality DEF Surplus
<1>4. ASSUME NEW n \in 1..MaxAvailable, Notify(n)
      PROVE  Abstract!Release(n)
  BY <1>1, <1>2, <1>4 DEF Notify, Abstract!Release
<1>5. CASE NotifyAll
  <2>1. Abstract!ReleaseAll
    BY <1>1, <1>2, <1>3, <1>5, Zenon DEF NotifyAll, Abstract!ReleaseAll
  <2> QED
    BY <2>1 DEF Abstract!SNext
<1>6. CASE ClearAvailable
  BY <1>1, <1>2, <1>6 DEF ClearAvailable, Abstract!SNext, Abstract!Drain
<1>7. CASE Destroy
  <2>1. Abstract!Close
    BY <1>1, <1>2, <1>3, <1>7, Zenon DEF Destroy, Abstract!Close
  <2> QED
    BY <2>1 DEF Abstract!SNext
<1> QED
  BY <1>4, <1>5, <1>6, <1>7 DEF Abstract!SNext

\* wait() that does not block, and wait_nb().
LEMMA RefinesTakeNow ==
    ASSUME IInv, NEW t \in Thread, WaitTake(t) \/ WaitNb(t)
    PROVE  Abstract!SNext
<1>1. InWait' = InWait /\ UNCHANGED <<waiting, invalid>> /\ ~invalid
  BY DEF WaitTake, WaitNb, InWait
<1>2. (waiting - Cardinality(InWait))' = waiting - Cardinality(InWait)
  BY <1>1
<1>3. CASE available > 0
  <2>1. available' = available - 1 /\ result' = [result EXCEPT ![t] = TRUE]
    <3>1. (available > 0) = TRUE
      BY <1>3
    <3> QED
      BY <1>3, <3>1 DEF WaitTake, WaitNb
  <2>2. Abstract!TakeNow(t)
    BY <1>1, <1>2, <1>3, <2>1 DEF Abstract!TakeNow
  <2> QED
    BY <2>2 DEF Abstract!SNext
<1>4. CASE ~(available > 0)
  <2>1. available' = available /\ result' = [result EXCEPT ![t] = FALSE]
    <3>1. (available > 0) = FALSE
      BY <1>4
    <3> QED
      BY <1>4, <3>1 DEF WaitTake, WaitNb
  <2>2. available = 0
    BY <1>4 DEF IInv, TypeOK
  <2>3. Abstract!TakeFails(t)
    BY <1>1, <1>2, <2>1, <2>2 DEF Abstract!TakeFails
  <2> QED
    BY <2>3 DEF Abstract!SNext
<1> QED
  BY <1>3, <1>4

\* A wait() that blocks parks the thread.
LEMMA RefinesPark ==
    ASSUME IInv, NEW t \in Thread, NEW deadline \in BOOLEAN, WaitBlock(t, deadline)
    PROVE  Abstract!SNext
<1>1. t \notin InWait /\ InWait' = InWait \cup {t}
  BY DEF IInv, TypeOK, WaitBlock, InWait
<1>2. Cardinality(InWait') = Cardinality(InWait) + 1
  BY <1>1, SurplusSum, AddCard
<1>3. waiting' = waiting + 1 /\ waiting \in Nat
  BY DEF WaitBlock, IInv, TypeOK
<1>4. (waiting - Cardinality(InWait))' = waiting - Cardinality(InWait)
  BY <1>2, <1>3, SurplusSum
<1>5. Abstract!Park(t)
  BY <1>1, <1>4 DEF WaitBlock, Abstract!Park
<1> QED
  BY <1>5 DEF Abstract!SNext

\* Moves on and off the queue of the condition variable are not seen.
LEMMA RefinesStutter ==
    ASSUME IInv, UNCHANGED <<available, waiting, invalid, result>>, InWait' = InWait
    PROVE  UNCHANGED Abstract!svars
<1>1. (waiting - Cardinality(InWait))' = waiting - Cardinality(InWait)
  OBVIOUS
<1> QED
  BY <1>1 DEF Abstract!svars

\* A thread comes back from the queue: it takes a notification, gives up, or
\* goes round the loop.
LEMMA RefinesResume ==
    ASSUME IInv, NEW t \in Thread, Resume(t)
    PROVE  Abstract!SNext \/ UNCHANGED Abstract!svars
<1>0. ~invalid /\ UNCHANGED invalid
  BY DEF Resume
<1>1. CASE pc[t] = "woken" /\ available > 0 /\ Leave(t, TRUE)
  <2>1. t \in InWait
    BY <1>1 DEF InWait
  <2>2. /\ InWait' = InWait \ {t}
        /\ (waiting - Cardinality(InWait))' = waiting - Cardinality(InWait)
    BY <1>1, <2>1, LeaveParked DEF Surplus
  <2>3. available' = available - 1 /\ result' = [result EXCEPT ![t] = TRUE]
    BY <1>1 DEF Leave
  <2>4. Abstract!Take(t)
    BY <1>0, <1>1, <2>1, <2>2, <2>3 DEF Abstract!Take
  <2> QED
    BY <2>4 DEF Abstract!SNext
<1>2. CASE pc[t] = "expired" /\ Leave(t, FALSE)
  <2>1. t \in InWait
    BY <1>2 DEF InWait
  <2>2. /\ InWait' = InWait \ {t}
        /\ (waiting - Cardinality(InWait))' = waiting - Cardinality(InWait)
    BY <1>2, <2>1, LeaveParked DEF Surplus
  <2>3. available' = available /\ result' = [result EXCEPT ![t] = FALSE]
    BY <1>2 DEF Leave
  <2>4. Abstract!GiveUp(t)
    BY <1>0, <2>1, <2>2, <2>3 DEF Abstract!GiveUp
  <2> QED
    BY <2>4 DEF Abstract!SNext
<1>3. CASE /\ pc[t] = "woken"
           /\ pc' = [pc EXCEPT ![t] = "blocked"]
           /\ UNCHANGED <<available, waiting, timed, result>>
  <2>1. InWait' = InWait
    BY <1>3 DEF IInv, TypeOK, InWait
  <2> QED
    BY <1>0, <1>3, <2>1, RefinesStutter
<1> QED
  BY <1>1, <1>2, <1>3 DEF Resume

\* A thread comes back to a destroyed event.
LEMMA RefinesLetGo ==
    ASSUME IInv, NEW t \in Thread, ResumeDestroyed(t)
    PROVE  Abstract!SNext
<1>1. t \in InWait /\ invalid /\ UNCHANGED invalid
  BY DEF ResumeDestroyed, InWait
<1>2. PICK ret \in BOOLEAN : Leave(t, ret) /\ (ret => available > 0)
  BY DEF ResumeDestroyed
<1>3. /\ InWait' = InWait \ {t}
      /\ (waiting - Cardinality(InWait))' = waiting - Cardinality(InWait)
  BY <1>1, <1>2, LeaveParked DEF Surplus
<1>4. \/ /\ available > 0 /\ available' = available - 1
         /\ result' = [result EXCEPT ![t] = TRUE]
      \/ /\ available' = available
         /\ result' = [result EXCEPT ![t] = FALSE]
  BY <1>2 DEF Leave
<1>5. Abstract!LetGo(t)
  BY <1>1, <1>3, <1>4 DEF Abstract!LetGo
<1> QED
  BY <1>5 DEF Abstract!SNext

\* A thread is cancelled: inside wait() it vanishes from the semaphore and stays
\* in the surplus.
LEMMA RefinesCancel ==
    ASSUME IInv, NEW t \in Thread, Cancel(t)
    PROVE  Abstract!SNext \/ UNCHANGED Abstract!svars
<1>1. UNCHANGED <<available, waiting, invalid, result>> /\ waiting \in Nat
  BY DEF Cancel, IInv, TypeOK
<1>2. CASE pc[t] = "blocked"
  <2>1. t \in InWait /\ InWait' = InWait \ {t}
    BY <1>2 DEF Cancel, IInv, TypeOK, InWait
  <2>2. Cardinality(InWait') = Cardinality(InWait) - 1
    BY <2>1, SurplusSum, DelCard
  <2>3. (waiting - Cardinality(InWait))' = (waiting - Cardinality(InWait)) + 1
    BY <1>1, <2>2, SurplusSum
  <2>4. Abstract!Vanish(t)
    BY <1>1, <2>1, <2>3 DEF Abstract!Vanish
  <2> QED
    BY <2>4 DEF Abstract!SNext
<1>3. CASE pc[t] = "idle"
  <2>1. InWait' = InWait
    BY <1>3 DEF Cancel, IInv, TypeOK, InWait
  <2> QED
    BY <1>1, <2>1, RefinesStutter
<1> QED
  BY <1>2, <1>3 DEF Cancel

\* Every step of the code is a step of the semaphore, or none.
LEMMA RefinesNext == IInv /\ [Next]_vars => [Abstract!SNext]_(Abstract!svars)
<1> SUFFICES ASSUME IInv, [Next]_vars
             PROVE  Abstract!SNext \/ UNCHANGED Abstract!svars
  OBVIOUS
<1>1. CASE (\E n \in 1..MaxAvailable : Notify(n)) \/ NotifyAll \/ ClearAvailable \/ Destroy
  BY <1>1, RefinesRelease
<1>2. ASSUME NEW t \in Thread, WaitTake(t) \/ WaitNb(t)
      PROVE  Abstract!SNext
  BY <1>2, RefinesTakeNow
<1>3. ASSUME NEW t \in Thread, NEW deadline \in BOOLEAN, WaitBlock(t, deadline)
      PROVE  Abstract!SNext
  BY <1>3, RefinesPark
<1>4. ASSUME NEW t \in Thread, Spurious(t) \/ Expire(t)
      PROVE  UNCHANGED Abstract!svars
  <2>1. InWait' = InWait
    BY <1>4 DEF Spurious, Expire, IInv, TypeOK, InWait
  <2> QED
    BY <1>4, <2>1, RefinesStutter DEF Spurious, Expire
<1>5. ASSUME NEW t \in Thread, Resume(t)
      PROVE  Abstract!SNext \/ UNCHANGED Abstract!svars
  BY <1>5, RefinesResume
<1>6. ASSUME NEW t \in Thread, ResumeDestroyed(t)
      PROVE  Abstract!SNext
  BY <1>6, RefinesLetGo
<1>7. ASSUME NEW t \in Thread, Cancel(t)
      PROVE  Abstract!SNext \/ UNCHANGED Abstract!svars
  BY <1>7, RefinesCancel
<1>8. CASE UNCHANGED vars
  BY <1>8, RefinesStutter DEF vars, InWait
<1> QED
  BY <1>1, <1>2, <1>3, <1>4, <1>5, <1>6, <1>7, <1>8 DEF Next

\* For any number of threads, event_impl_pthread.cc with its mutex, its condition
\* variable and its counters does what the counting semaphore of event.hh does:
\* the safety part of ImplementsSemaphore.
THEOREM EventRefinesSemaphore ==
    Spec => Abstract!SInit /\ [][Abstract!SNext]_(Abstract!svars)
<1>1. Spec => []IInv
  BY InitIInv, NextIInv, PTL DEF Spec
<1> QED
  BY <1>1, RefinesInit, RefinesNext, PTL DEF Spec

-----------------------------------------------------------------------------
(* pevent: the permanent flag loses no wake-up, and a waiter stays in a      *)
(* permanent event only if its notification was taken by somebody who came   *)
(* later.                                                                    *)

\* Threads that a permanent event should let go: queued or on their way out.
Held == At("blocked") \cup At("woken")

\* The inductive invariant.  set_permanent() and notify_all() leave a
\* notification for everybody that waiting_ counts, hence WaitingBounds.
PInv == PTypeOK /\ IInv /\ OnlyRobbedStay

-----------------------------------------------------------------------------
\* The waiters are some of the threads inside wait().
LEMMA HeldCard ==
    ASSUME IInv
    PROVE  /\ Held \in SUBSET Thread /\ Cardinality(Held) \in Nat
           /\ Cardinality(Held) <= waiting
<1>1. Held \in SUBSET InWait /\ InWait \in SUBSET Thread
  BY DEF Held, At, InWait
<1>2. /\ Cardinality(Held) <= Cardinality(InWait)
      /\ Cardinality(Held) \in Nat /\ Cardinality(InWait) \in Nat
  BY <1>1, SubCard, SubsetCard
<1> QED
  BY <1>1, <1>2 DEF IInv, TypeOK, WaitingBounds

\* The arithmetic of OnlyRobbedStay: threads held, notifications and robberies
\* before and after a step.
LEMMA StillEnough ==
    ASSUME NEW held \in Nat, NEW av \in Nat, NEW rob \in Nat, held <= av + rob,
           NEW held1 \in Nat, NEW av1 \in Nat, NEW rob1 \in Nat,
           \/ held1 <= held /\ av1 + rob1 >= av + rob
           \/ held1 = held - 1 /\ av1 + rob1 = av + rob - 1
    PROVE  held1 <= av1 + rob1
OBVIOUS

\* A step after which as many are accounted for as before.
LEMMA RobbedKept ==
    ASSUME PInv, IInv', UNCHANGED <<permanent, invalid>>, robbed' \in Nat,
           Held' \in SUBSET Held,
           \/ available' + robbed' >= available + robbed
           \/ /\ available' + robbed' = available + robbed - 1
              /\ \E t \in Held : Held' = Held \ {t}
    PROVE  PInv'
<1>1. available' \in Nat /\ available \in Nat /\ robbed \in Nat
  BY DEF PInv, PTypeOK, IInv, TypeOK
<1>2. /\ Held \in SUBSET Thread
      /\ Cardinality(Held) \in Nat /\ Cardinality(Held') \in Nat
      /\ Cardinality(Held') <= Cardinality(Held)
  BY HeldCard, SubCard, SubsetCard DEF PInv
<1>3. ASSUME Cardinality(Held) <= available + robbed
      PROVE  Cardinality(Held') <= available' + robbed'
  <2>1. CASE available' + robbed' >= available + robbed
    BY <1>1, <1>2, <1>3, <2>1, StillEnough
  <2>2. CASE /\ available' + robbed' = available + robbed - 1
             /\ \E t \in Held : Held' = Held \ {t}
    <3>1. Cardinality(Held') = Cardinality(Held) - 1
      BY <1>2, <2>2, DelCard
    <3> QED
      BY <1>1, <1>2, <1>3, <2>2, <3>1, StillEnough
  <2> QED
    BY <2>1, <2>2
<1>4. OnlyRobbedStay'
  BY <1>3 DEF PInv, OnlyRobbedStay, Held
<1> QED
  BY <1>4 DEF PInv, PTypeOK, IInv

\* A step after which the event is not permanent, or gone.
LEMMA NotPermanent ==
    ASSUME PInv, IInv', permanent' \in BOOLEAN, robbed' \in Nat,
           ~permanent' \/ invalid'
    PROVE  PInv'
BY DEF PInv, PTypeOK, IInv, OnlyRobbedStay

\* The arithmetic when everybody has a notification.
LEMMA EnoughForAll ==
    ASSUME NEW held1 \in Nat, NEW held \in Nat, NEW wait \in Nat, NEW av1 \in Nat,
           held1 <= held, held <= wait, wait <= av1
    PROVE  held1 <= av1 + 0
OBVIOUS

\* A step that leaves a notification for everybody who waits.
LEMMA EverybodyNotified ==
    ASSUME PInv, IInv', permanent' \in BOOLEAN, robbed' = 0,
           Held' \in SUBSET Held, waiting <= available'
    PROVE  PInv'
<1>1. /\ Held \in SUBSET Thread
      /\ Cardinality(Held) <= waiting
      /\ Cardinality(Held') <= Cardinality(Held)
      /\ Cardinality(Held) \in Nat /\ Cardinality(Held') \in Nat
  BY HeldCard, SubCard, SubsetCard DEF PInv
<1>2. waiting \in Nat /\ available' \in Nat
  BY DEF PInv, IInv, TypeOK
<1>3. Cardinality(Held') <= available' + robbed'
  BY <1>1, <1>2, EnoughForAll
<1> QED
  BY <1>3 DEF PInv, PTypeOK, IInv, OnlyRobbedStay, Held

-----------------------------------------------------------------------------
\* A new event is not permanent.
LEMMA PInitInv == PInit => PInv
<1> SUFFICES ASSUME PInit
             PROVE  PInv
  OBVIOUS
<1>1. IInv /\ TypeOK
  BY InitIInv DEF PInit, IInv
<1>2. robbed \in Nat /\ permanent \in BOOLEAN /\ ~permanent
  BY DEF PInit
<1> QED
  BY <1>1, <1>2 DEF PInv, PTypeOK, OnlyRobbedStay

\* notify_all() and set_permanent() wake everybody: who waits still does.
LEMMA BroadcastHeld ==
    ASSUME IInv, Broadcast \/ UNCHANGED pc
    PROVE  Held' = Held
BY DEF IInv, TypeOK, Broadcast, Held, At, Positions

LEMMA SetPermanentInv ==
    ASSUME PInv, SetPermanent
    PROVE  PInv'
<1>1. IInv'
  BY BroadcastSets
  DEF PInv, IInv, SetPermanent, TypeOK, WaitingBounds, NoLostWakeup, DestroyedEmpty
<1>2. Held' = Held
  BY BroadcastHeld DEF SetPermanent, PInv
<1>3. waiting <= available'
  BY DEF SetPermanent, PInv, IInv, TypeOK
<1> QED
  BY <1>1, <1>2, <1>3, EverybodyNotified DEF SetPermanent

LEMMA PNotifyAllInv ==
    ASSUME PInv, PNotifyAll
    PROVE  PInv'
<1>1. IInv'
  BY NotifyAllIInv DEF PInv, PNotifyAll
<1>2. Held' = Held
  BY BroadcastHeld DEF PNotifyAll, NotifyAll, PInv
<1>3. waiting <= available'
  BY DEF PNotifyAll, NotifyAll, PInv, IInv, TypeOK
<1> QED
  BY <1>1, <1>2, <1>3, EverybodyNotified DEF PNotifyAll, PInv, PTypeOK

\* wait() on a permanent event and wait_nb() on any take a notification if there
\* is one; from a permanent event they rob a waiter of it.
LEMMA RobInv ==
    ASSUME PInv, UNCHANGED <<waiting, invalid, pc, timed, permanent>>,
           available' = IF available > 0 THEN available - 1 ELSE available,
           robbed' = IF permanent /\ available > 0 THEN robbed + 1 ELSE robbed,
           result' \in [Thread -> BOOLEAN]
    PROVE  PInv'
<1>1. available \in Nat /\ robbed \in Nat /\ permanent \in BOOLEAN
  BY DEF PInv, PTypeOK, IInv, TypeOK
<1>2. available' \in Nat /\ available' <= available /\ robbed' \in Nat
  BY <1>1
<1>3. IInv'
  BY <1>2, TakenIInv DEF PInv
<1>4. Held' = Held
  BY DEF Held, At
<1>5. CASE permanent
  <2>1. available' + robbed' >= available + robbed
    <3>1. CASE available > 0
      BY <1>1, <1>5, <3>1
    <3>2. CASE ~(available > 0)
      BY <1>1, <1>5, <3>2
    <3> QED
      BY <3>1, <3>2
  <2> QED
    BY <1>2, <1>3, <1>4, <2>1, RobbedKept
<1>6. CASE ~permanent
  BY <1>1, <1>2, <1>3, <1>6, NotPermanent
<1> QED
  BY <1>5, <1>6

\* A wait loop goes round, or a waiter leaves with its notification.
LEMMA PResumeInv ==
    ASSUME PInv, NEW t \in Thread, PResume(t)
    PROVE  PInv'
<1>1. IInv'
  BY ResumeIInv DEF PInv, PResume
<1>2. /\ UNCHANGED <<permanent, robbed, invalid>>
      /\ available \in Nat /\ robbed \in Nat
  BY DEF PResume, Resume, PInv, PTypeOK, IInv, TypeOK
<1>3. CASE pc[t] = "woken" /\ available > 0 /\ Leave(t, TRUE)
  <2>1. t \in Held /\ Held' = Held \ {t}
    BY <1>3 DEF Leave, Held, At, PInv, IInv, TypeOK
  <2>2. available' + robbed' = available + robbed - 1
    BY <1>2, <1>3 DEF Leave
  <2> QED
    BY <1>1, <1>2, <2>1, <2>2, RobbedKept
<1>4. CASE pc[t] = "expired" /\ Leave(t, FALSE)
  <2>1. Held' = Held
    BY <1>4 DEF Leave, Held, At, PInv, IInv, TypeOK
  <2>2. available' = available
    BY <1>4 DEF Leave
  <2>3. available' + robbed' >= available + robbed
    BY <1>2, <2>2
  <2> QED
    BY <1>1, <1>2, <2>1, <2>3, RobbedKept
<1>5. CASE pc[t] = "woken" /\ pc' = [pc EXCEPT ![t] = "blocked"] /\ UNCHANGED available
  <2>1. Held' = Held
    BY <1>5 DEF Held, At, PInv, IInv, TypeOK
  <2>2. available' + robbed' >= available + robbed
    BY <1>2, <1>5
  <2> QED
    BY <1>1, <1>2, <2>1, <2>2, RobbedKept
<1> QED
  BY <1>3, <1>4, <1>5 DEF PResume, Resume

\* A thread leaves the queue without a notification.
LEMMA UnheldInv ==
    ASSUME PInv, NEW t \in Thread, PSpurious(t) \/ PExpire(t) \/ PCancel(t)
    PROVE  PInv'
<1>1. IInv'
  <2>1. CASE PSpurious(t) \/ PExpire(t)
    BY <2>1, UnqueueIInv DEF PInv, PSpurious, PExpire, Spurious, Expire
  <2>2. CASE PCancel(t)
    BY <2>2, CancelIInv DEF PInv, PCancel
  <2> QED
    BY <2>1, <2>2
<1>2. /\ UNCHANGED <<permanent, robbed, invalid, available>>
      /\ available \in Nat /\ robbed \in Nat
  BY DEF PSpurious, PExpire, PCancel, Spurious, Expire, Cancel, PInv, PTypeOK, IInv, TypeOK
<1>3. Held' \in SUBSET Held
  BY DEF PSpurious, PExpire, PCancel, Spurious, Expire, Cancel, Held, At, PInv, IInv, TypeOK
<1>4. available' + robbed' >= available + robbed
  BY <1>2
<1> QED
  BY <1>1, <1>2, <1>3, <1>4, RobbedKept

\* Every step of the event or of a thread keeps the invariant.
LEMMA PNextInv == PInv /\ [PNext]_pvars => PInv'
<1> SUFFICES ASSUME PInv, [PNext]_pvars
             PROVE  PInv'
  OBVIOUS
<1>0. /\ IInv /\ TypeOK /\ permanent \in BOOLEAN /\ robbed \in Nat
  BY DEF PInv, PTypeOK
<1>1. ASSUME NEW n \in 1..MaxAvailable, PNotify(n)
      PROVE  PInv'
  BY <1>0, <1>1, NotifyIInv, NotPermanent DEF PNotify
<1>2. CASE PNotifyAll
  BY <1>2, PNotifyAllInv
<1>3. CASE PClearAvailable
  <2>1. IInv'
    BY <1>0, <1>3, TakenIInv DEF PClearAvailable, ClearAvailable, TypeOK
  <2> QED
    BY <1>3, <2>1, NotPermanent DEF PClearAvailable
<1>4. CASE SetPermanent
  BY <1>4, SetPermanentInv
<1>5. CASE ClearPermanent
  <2>1. IInv'
    BY <1>0, <1>5, TakenIInv DEF ClearPermanent, vars, TypeOK
  <2> QED
    BY <1>5, <2>1, NotPermanent DEF ClearPermanent
<1>6. CASE PDestroy
  BY <1>0, <1>6, DestroyIInv, NotPermanent DEF PDestroy, Destroy
<1>7. ASSUME NEW t \in Thread, WaitPermanent(t)
      PROVE  PInv'
  BY <1>0, <1>7, RobInv DEF WaitPermanent, TypeOK
<1>8. ASSUME NEW t \in Thread, PWaitTake(t)
      PROVE  PInv'
  <2>1. IInv'
    BY <1>0, <1>8, TakenIInv DEF PWaitTake, WaitTake, TypeOK
  <2> QED
    BY <1>0, <1>8, <2>1, NotPermanent DEF PWaitTake
<1>9. ASSUME NEW t \in Thread, NEW deadline \in BOOLEAN, PWaitBlock(t, deadline)
      PROVE  PInv'
  BY <1>0, <1>9, WaitBlockIInv, NotPermanent DEF PWaitBlock
<1>10. ASSUME NEW t \in Thread, PWaitNb(t)
       PROVE  PInv'
  <2>1. (available > 0 \/ permanent) \in BOOLEAN
    OBVIOUS
  <2>2. result' \in [Thread -> BOOLEAN]
    BY <1>0, <1>10, <2>1, Zenon DEF PWaitNb, TypeOK
  <2> QED
    BY <1>10, <2>2, RobInv DEF PWaitNb
<1>11. ASSUME NEW t \in Thread, PSpurious(t) \/ PExpire(t) \/ PCancel(t)
       PROVE  PInv'
  BY <1>11, UnheldInv
<1>12. ASSUME NEW t \in Thread, PResume(t)
       PROVE  PInv'
  BY <1>12, PResumeInv
<1>13. ASSUME NEW t \in Thread, PResumeDestroyed(t)
       PROVE  PInv'
  BY <1>0, <1>13, ResumeDestroyedIInv, NotPermanent DEF PResumeDestroyed, ResumeDestroyed
<1>14. CASE UNCHANGED pvars
  <2>1. IInv' /\ Held' = Held
    BY <1>0, <1>14, TakenIInv DEF pvars, vars, TypeOK, Held, At
  <2>2. /\ UNCHANGED <<permanent, robbed, available, invalid>>
        /\ available \in Nat
    BY <1>0, <1>14 DEF pvars, vars, TypeOK
  <2>3. available' + robbed' >= available + robbed
    BY <1>0, <2>2
  <2> QED
    BY <1>0, <2>1, <2>2, <2>3, RobbedKept
<1> QED
  BY <1>1, <1>2, <1>3, <1>4, <1>5, <1>6, <1>7, <1>8, <1>9, <1>10, <1>11, <1>12,
     <1>13, <1>14 DEF PNext

\* Every behaviour of the event keeps the invariant.
THEOREM PInvariant == PSpec => []PInv
BY PInitInv, PNextInv, PTL DEF PSpec

-----------------------------------------------------------------------------
\* The counters stay natural numbers and the flag a flag, also with the takes of
\* wait() and wait_nb() on a permanent event.
THEOREM PTypeCorrect == PSpec => []PTypeOK
<1>1. PInv => PTypeOK
  BY DEF PInv
<1> QED
  BY <1>1, PInvariant, PTL

\* set_permanent(), clear_permanent() and the ignored notify()s lose no wake-up.
THEOREM PNoWakeupIsLost == PSpec => []NoLostWakeup
<1>1. PInv => NoLostWakeup
  BY DEF PInv, IInv
<1> QED
  BY <1>1, PInvariant, PTL

\* A thread still inside wait() of a permanent event has a notification to take,
\* or a later wait() or wait_nb() took it.
THEOREM POnlyRobbedStay == PSpec => []OnlyRobbedStay
<1>1. PInv => OnlyRobbedStay
  BY DEF PInv
<1> QED
  BY <1>1, PInvariant, PTL

-----------------------------------------------------------------------------
(* thread: the exit event tells the truth and the object outlives its thread. *)

\* What start(), stop() and the destructor take for granted: tid_ is set before
\* any run begins, and only a thread that has started is stopped or joined.
Launched ==
    /\ \A r \in Run : run[r] # "none" => tid # NoRun
    /\ \A r \in Run : run[r] \notin {"none", "launched"} => started
    /\ started => tid # NoRun
    /\ \A c \in Client : client[c] # "idle" => started
    /\ object = "joining" => tid # NoRun

\* A patient owner has one run, the one that tid_ names; it has begun when the
\* start event says so, and nothing but its end sets the exit event.
OneRun ==
    patient =>
        /\ \A r \in Run : run[r] # "none" => r = tid
        /\ started => run[tid] \in {"running", "returned", "done"}
        /\ exited => started /\ run[tid] = "done"
        /\ object # "alive" => started
        /\ object = "gone" => run[tid] = "done"

\* The inductive invariant.
TInv == TTypeOK /\ Launched /\ OneRun

-----------------------------------------------------------------------------
\* No thread has been created yet, and the object is alive.
LEMMA TInvInit == TInit => TInv
BY RunAssumption DEF TInit, TInv, TTypeOK, Launched, OneRun

\* Each operation of the object, of its run and of its clients keeps the
\* invariant.
LEMMA TInvNext == TInv /\ [TNext]_tvars => TInv'
<1> SUFFICES ASSUME TInv, [TNext]_tvars
             PROVE  TInv'
  OBVIOUS
<1> USE RunAssumption DEF TInv, TTypeOK, Launched, OneRun
<1>1. CASE SetEntry
  BY <1>1 DEF SetEntry
<1>2. CASE Start
  BY <1>2 DEF Start
<1>3. CASE Delete
  BY <1>3 DEF Delete
<1>4. CASE Join
  BY <1>4 DEF Join
<1>5. ASSUME NEW r \in Run, RunStep(r)
      PROVE  TInv'
  <2>1. CASE Begin(r)
    BY <2>1 DEF Begin
  <2>2. CASE Return(r)
    BY <2>2 DEF Return
  <2>3. CASE Cancelled(r)
    BY <2>3 DEF Cancelled
  <2>4. CASE FlagExit(r)
    BY <2>4 DEF FlagExit
  <2> QED
    BY <1>5, <2>1, <2>2, <2>3, <2>4 DEF RunStep
<1>6. ASSUME NEW c \in Client, StopTest(c)
      PROVE  TInv'
  BY <1>6 DEF StopTest
<1>7. ASSUME NEW c \in Client, StopCancel(c)
      PROVE  TInv'
  BY <1>7 DEF StopCancel
<1>8. ASSUME NEW c \in Client, StopDone(c)
      PROVE  TInv'
  BY <1>8 DEF StopDone
<1>9. CASE UNCHANGED tvars
  BY <1>9 DEF tvars
<1> QED
  BY <1>1, <1>2, <1>3, <1>4, <1>5, <1>6, <1>7, <1>8, <1>9 DEF TNext

\* Every behaviour of the object keeps the invariant.
THEOREM ThreadInvariant == TSpec => []TInv
BY TInvInit, TInvNext, PTL DEF TSpec

-----------------------------------------------------------------------------
\* Every variable has its type; pthread_cancel() is only called with the id of a
\* run.
THEOREM ThreadTypeCorrect == TSpec => []TTypeOK
<1>1. TInv => TTypeOK
  BY DEF TInv
<1> QED
  BY <1>1, ThreadInvariant, PTL

\* is_exited() is true only when no run of the object is, or will be, in the
\* callback.
THEOREM ThreadExitMeansDone == TSpec => []ExitMeansDone
<1>1. TInv => ExitMeansDone
  BY DEF TInv, TTypeOK, OneRun, ExitMeansDone
<1> QED
  BY <1>1, ThreadInvariant, PTL

\* When the destructor has returned no run is left that could touch the object.
THEOREM ThreadNoRunAfterDelete == TSpec => []NoRunAfterDelete
<1>1. TInv => NoRunAfterDelete
  BY DEF TInv, TTypeOK, OneRun, NoRunAfterDelete
<1> QED
  BY <1>1, ThreadInvariant, PTL
=============================================================================
