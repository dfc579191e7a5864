-------------------------------- MODULE Mutex --------------------------------
(***************************************************************************)
(* nthread::mutex, a recursive mutex with time-outs built from a pthread   *)
(* mutex and a condition variable (nthread/mutex_impl_pthread.cc).  Every  *)
(* method is one critical section of mtx_; lock() leaves it while it waits *)
(* on cond_.  Positions of a thread inside lock(): "blocked" (queued on    *)
(* cond_), "woken" and "expired" (off the queue, not yet back in mtx_).    *)
(* "cancelled" and "exited" threads are gone.                              *)
(***************************************************************************)
EXTENDS Integers, FiniteSets

CONSTANTS Thread,       \* threads that use the mutex
          Cancellable,  \* those of them that somebody may thread::stop()
          NoThread,     \* locked_by_ == 0
          MaxDepth      \* bound on locked_, the depth of recursive locking

ASSUME ThreadAssumption ==
    /\ IsFiniteSet(Thread)
    /\ Cancellable \subseteq Thread
    /\ NoThread \notin Thread

ASSUME MaxDepthAssumption == MaxDepth \in Nat

VARIABLES locked,    \* impl::locked_
          lockedBy,  \* impl::locked_by_
          waiting,   \* impl::waiting_
          invalid,   \* impl::invalid_
          pc,        \* where each thread is
          timed,     \* the current lock() of the thread has a deadline
          holds,     \* lock()s and try_lock()s that succeeded and are not undone
          crashed,   \* the process is gone
          scoped     \* all threads use scoped_mutex only, as codesloop does

vars == <<locked, lockedBy, waiting, invalid, pc, timed, holds, crashed, scoped>>

Positions == {"idle", "blocked", "woken", "expired", "cancelled", "exited"}

At(p) == {t \in Thread : pc[t] = p}

\* Threads inside lock(), between ++waiting_ and --waiting_.
InLock == {t \in Thread : pc[t] \in {"blocked", "woken", "expired"}}

Init ==
    /\ locked = 0
    /\ lockedBy = NoThread
    /\ waiting = 0
    /\ invalid = FALSE
    /\ pc = [t \in Thread |-> "idle"]
    /\ timed = [t \in Thread |-> FALSE]
    /\ holds = [t \in Thread |-> 0]
    /\ crashed = FALSE
    /\ scoped \in BOOLEAN

-----------------------------------------------------------------------------
\* The negation of the loop condition: not locked, or locked by the caller.
MayLock(t) == locked = 0 \/ lockedBy = t

\* ++locked_, locked_by_ = pthread_self()
Acquire(t) ==
    /\ locked < MaxDepth
    /\ locked' = locked + 1
    /\ lockedBy' = t
    /\ holds' = [holds EXCEPT ![t] = @ + 1]

\* lock() that does not have to wait.
Lock(t) ==
    /\ pc[t] = "idle"
    /\ ~invalid
    /\ MayLock(t)
    /\ Acquire(t)
    /\ UNCHANGED <<waiting, invalid, pc, timed, crashed, scoped>>

\* lock() of a mutex that another thread holds.
LockBlock(t, deadline) ==
    /\ pc[t] = "idle"
    /\ ~invalid
    /\ ~MayLock(t)
    /\ waiting' = waiting + 1
    /\ pc' = [pc EXCEPT ![t] = "blocked"]
    /\ timed' = [timed EXCEPT ![t] = deadline]
    /\ UNCHANGED <<locked, lockedBy, invalid, holds, crashed, scoped>>

\* try_lock(); on a mutex that another thread holds it changes nothing.
TryLock(t) ==
    /\ pc[t] = "idle"
    /\ ~invalid
    /\ MayLock(t)
    /\ Acquire(t)
    /\ UNCHANGED <<waiting, invalid, pc, timed, crashed, scoped>>

\* pthread_cond_signal (external): wakes one queued thread, if there is one.
Signal ==
    \/ At("blocked") = {} /\ UNCHANGED pc
    \/ \E t \in At("blocked") : pc' = [pc EXCEPT ![t] = "woken"]

\* Mutant: unlock() signals only when it leaves a recursive lock.
UnlockSignalsInner(t) ==
    /\ pc[t] = "idle"
    /\ locked > 0
    /\ lockedBy = t
    /\ locked' = locked - 1
    /\ lockedBy' = IF locked' = 0 THEN NoThread ELSE lockedBy
    /\ holds' = [holds EXCEPT ![t] = @ - 1]
    /\ \/ waiting > 0 /\ locked' > 0 /\ Signal
       \/ ~(waiting > 0 /\ locked' > 0) /\ UNCHANGED pc
    /\ UNCHANGED <<waiting, invalid, timed, crashed, scoped>>

\* unlock(); it fails and changes nothing if the caller does not hold it.
Unlock(t) ==
    /\ pc[t] = "idle"
    /\ locked > 0
    /\ lockedBy = t
    /\ locked' = locked - 1
    /\ lockedBy' = IF locked' = 0 THEN NoThread ELSE lockedBy
    /\ holds' = [holds EXCEPT ![t] = @ - 1]
    /\ \/ waiting > 0 /\ Signal
       \/ waiting = 0 /\ UNCHANGED pc
    /\ UNCHANGED <<waiting, invalid, timed, crashed, scoped>>

\* recursive_unlock() drops every level at once.  It does not signal.
RecursiveUnlock(t) ==
    /\ pc[t] = "idle"
    /\ locked > 0
    /\ lockedBy = t
    /\ locked' = 0
    /\ lockedBy' = NoThread
    /\ holds' = [holds EXCEPT ![t] = 0]
    /\ UNCHANGED <<waiting, invalid, pc, timed, crashed, scoped>>

\* A condition variable may wake a queued thread for no reason.
Spurious(t) ==
    /\ pc[t] = "blocked"
    /\ pc' = [pc EXCEPT ![t] = "woken"]
    /\ UNCHANGED <<locked, lockedBy, waiting, invalid, timed, holds, crashed, scoped>>

\* pthread_cond_timedwait: the deadline passes while the thread is queued.
Expire(t) ==
    /\ pc[t] = "blocked"
    /\ timed[t]
    /\ pc' = [pc EXCEPT ![t] = "expired"]
    /\ UNCHANGED <<locked, lockedBy, waiting, invalid, timed, holds, crashed, scoped>>

\* --waiting_ and the end of lock()
Leave(t) ==
    /\ waiting' = waiting - 1
    /\ pc' = [pc EXCEPT ![t] = "idle"]
    /\ timed' = [timed EXCEPT ![t] = FALSE]

\* Mutant: the loops of lock() do not re-test the condition after a wake-up.
ResumeIf(t) ==
    /\ \/ pc[t] = "woken" /\ Acquire(t) /\ Leave(t)
       \/ pc[t] = "expired" /\ Leave(t) /\ UNCHANGED <<locked, lockedBy, holds>>
    /\ UNCHANGED <<invalid, crashed, scoped>>

\* Mutant: the timed loop does not break on ETIMEDOUT.
ResumeNoBreak(t) ==
    /\ pc[t] \in {"woken", "expired"}
    /\ \/ MayLock(t) /\ Acquire(t) /\ Leave(t)
       \/ /\ ~MayLock(t)
          /\ pc' = [pc EXCEPT ![t] = "blocked"]
          /\ UNCHANGED <<locked, lockedBy, waiting, timed, holds>>
    /\ UNCHANGED <<invalid, crashed, scoped>>

\* The wait loop has mtx_ again.  A woken thread re-tests the condition; an
\* expired one gives up even if the mutex has become free.
Resume(t) ==
    /\ \/ /\ pc[t] = "woken"
          /\ MayLock(t)
          /\ Acquire(t)
          /\ Leave(t)
       \/ /\ pc[t] = "woken"
          /\ ~MayLock(t)
          /\ pc' = [pc EXCEPT ![t] = "blocked"]
          /\ UNCHANGED <<locked, lockedBy, waiting, timed, holds>>
       \/ /\ pc[t] = "expired"
          /\ Leave(t)
          /\ UNCHANGED <<locked, lockedBy, holds>>
    /\ UNCHANGED <<invalid, crashed, scoped>>

\* thread::stop(): the thread ends at a cancellation point.  Inside lock() the
\* unwinding unlocks mtx_ and leaves waiting_ counted; a scoped_mutex it held
\* has been released by the same unwinding.
Cancel(t) ==
    /\ t \in Cancellable
    /\ pc[t] = "blocked" \/ (pc[t] = "idle" /\ holds[t] = 0)
    /\ pc' = [pc EXCEPT ![t] = "cancelled"]
    /\ timed' = [timed EXCEPT ![t] = FALSE]
    /\ UNCHANGED <<locked, lockedBy, waiting, invalid, holds, crashed, scoped>>

\* The thread returns from its entry function without the lock.
Exit(t) ==
    /\ pc[t] = "idle"
    /\ invalid \/ lockedBy # t
    /\ pc' = [pc EXCEPT ![t] = "exited"]
    /\ UNCHANGED <<locked, lockedBy, waiting, invalid, timed, holds, crashed, scoped>>

\* The thread returns holding the lock.  mutex_unlock_function_ is then called
\* with the impl * that pthread_setspecific stored and uses it as a mutex *:
\* it dereferences a pointer made of invalid_ and waiting_.
ExitHolding(t) ==
    /\ pc[t] = "idle"
    /\ ~invalid
    /\ lockedBy = t
    /\ pc' = [pc EXCEPT ![t] = "exited"]
    /\ crashed' = TRUE
    /\ UNCHANGED <<locked, lockedBy, waiting, invalid, timed, holds, scoped>>

\* ~impl() of a mutex nobody waits for.  (The code broadcasts to waiters, who
\* would come back to a destroyed pthread mutex and to freed memory: that is not
\* modelled.)  Afterwards lock() and try_lock() return false.
Destroy ==
    /\ ~invalid
    /\ InLock = {}
    /\ invalid' = TRUE
    /\ locked' = 0
    /\ waiting' = 0
    /\ UNCHANGED <<lockedBy, pc, timed, holds, crashed, scoped>>

-----------------------------------------------------------------------------
\* What a user of scoped_mutex does; everybody in codesloop is one.
ScopedNext ==
    \/ \E t \in Thread :
          \/ Lock(t)
          \/ TryLock(t)
          \/ \E deadline \in BOOLEAN : LockBlock(t, deadline)
          \/ Unlock(t)
          \/ Spurious(t)
          \/ Expire(t)
          \/ Resume(t)
          \/ Cancel(t)
          \/ Exit(t)
    \/ Destroy

\* The rest of the interface, and threads that forget to unlock.
Next ==
    /\ ~crashed
    /\ \/ ScopedNext
       \/ ~scoped /\ \E t \in Thread : RecursiveUnlock(t) \/ ExitHolding(t)

\* A thread off the queue gets mtx_ eventually, a deadline is absolute (at),
\* and critical sections end.
Fairness ==
    \A t \in Thread :
        /\ WF_vars(~crashed /\ Resume(t))
        /\ WF_vars(~crashed /\ Unlock(t))
        /\ SF_vars(~crashed /\ Expire(t))

Spec == Init /\ [][Next]_vars /\ Fairness

-----------------------------------------------------------------------------
(* Properties.                                                             *)

\* Every variable of the mutex and of its threads has its type.
TypeOK ==
    /\ locked \in Nat
    /\ lockedBy \in Thread \cup {NoThread}
    /\ waiting \in Nat
    /\ invalid \in BOOLEAN
    /\ pc \in [Thread -> Positions]
    /\ timed \in [Thread -> BOOLEAN]
    /\ holds \in [Thread -> Nat]
    /\ crashed \in BOOLEAN
    /\ scoped \in BOOLEAN

\* Until the mutex is destroyed the owner, and nobody else, holds it, at
\* exactly the depth that locked_ says: mutual exclusion across recursive
\* locks, barging try_lock()s, time-outs and recursive_unlock().
OwnerHolds ==
    ~invalid => \A t \in Thread :
                    holds[t] = IF lockedBy = t THEN locked ELSE 0

\* waiting_ counts every thread inside lock(), and beyond those only threads
\* cancelled in there: unlock() may skip the signal when it is zero.
WaitingBounds ==
    /\ Cardinality(InLock) <= waiting
    /\ waiting <= Cardinality(InLock) + Cardinality(At("cancelled"))

\* A free mutex with threads queued for it has one of them on its way.
UnlockWakes ==
    (locked = 0 /\ ~invalid /\ At("blocked") # {}) => At("woken") # {}

\* With scoped_mutex no wake-up is lost: the one signal of unlock() is enough
\* although others may lock before the woken thread runs, and woken threads and
\* queued ones may time out or be cancelled.
NoLostWakeup == scoped => UnlockWakes

\* A lock() with a timeout ends, whoever holds the mutex.
TimedLockEnds == \A t \in Thread : (scoped /\ timed[t]) ~> ~timed[t]

\* A free mutex that threads wait for is taken, or they all give up.
Handover ==
    (scoped /\ InLock # {} /\ locked = 0) ~> (locked > 0 \/ InLock = {})
=============================================================================
