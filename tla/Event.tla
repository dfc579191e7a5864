-------------------------------- MODULE Event --------------------------------
(***************************************************************************)
(* nthread::event, the counting notification object everything threaded in *)
(* codesloop is built on (nthread/event_impl_pthread.cc).  Every method is *)
(* one critical section of the pthread mutex mtx_; wait() leaves it while  *)
(* it is blocked on the condition variable cond_, so a waiting thread is   *)
(* in one of the positions                                                 *)
(*                                                                         *)
(*   "blocked"  queued on cond_                                            *)
(*   "woken"    off the queue after a signal, a broadcast or spuriously,   *)
(*              and not yet back in the mutex                              *)
(*   "expired"  off the queue because its deadline passed, and not yet     *)
(*              back in the mutex                                          *)
(*                                                                         *)
(* and any other thread may run in between.  "cancelled" is a thread that  *)
(* pthread_cancel (thread::stop) ended at a cancellation point.            *)
(***************************************************************************)
EXTENDS Integers, FiniteSets

CONSTANTS Thread,         \* threads that use the event
          Cancellable,    \* those of them that somebody may thread::stop()
          MaxAvailable    \* bound on available_ (the code wraps at 2^32)

ASSUME ThreadAssumption ==
    /\ IsFiniteSet(Thread)
    /\ Cancellable \subseteq Thread

ASSUME MaxAvailableAssumption == MaxAvailable \in Nat

VARIABLES available,   \* impl::available_
          waiting,     \* impl::waiting_
          invalid,     \* impl::invalid_
          pc,          \* where each thread is
          timed,       \* the current wait() of the thread has a deadline
          result       \* what its last wait() or wait_nb() returned

vars == <<available, waiting, invalid, pc, timed, result>>

Positions == {"idle", "blocked", "woken", "expired", "cancelled"}

At(p) == {t \in Thread : pc[t] = p}

\* Threads inside wait(), between ++waiting_ and --waiting_.
InWait == {t \in Thread : pc[t] \in {"blocked", "woken", "expired"}}

Init ==
    /\ available = 0
    /\ waiting = 0
    /\ invalid = FALSE
    /\ pc = [t \in Thread |-> "idle"]
    /\ timed = [t \in Thread |-> FALSE]
    /\ result = [t \in Thread |-> FALSE]

-----------------------------------------------------------------------------
\* The condition variable (external): which threads leave its queue.

\* Mutant: notify() signals once, however many notifications it posts.
SignalOnce(n) ==
    \E W \in SUBSET At("blocked") :
        /\ Cardinality(W) = (IF At("blocked") = {} THEN 0 ELSE 1)
        /\ pc' = [t \in Thread |-> IF t \in W THEN "woken" ELSE pc[t]]

\* pthread_cond_signal called n times wakes n queued threads, or all of them.
SignalTimes(n) ==
    \E W \in SUBSET At("blocked") :
        /\ \/ Cardinality(W) = n
           \/ W = At("blocked") /\ Cardinality(W) <= n
        /\ pc' = [t \in Thread |-> IF t \in W THEN "woken" ELSE pc[t]]

\* pthread_cond_broadcast wakes them all.
Broadcast ==
    pc' = [t \in Thread |-> IF pc[t] = "blocked" THEN "woken" ELSE pc[t]]

-----------------------------------------------------------------------------
\* notify(n), n > 0 (notify(0) returns before it touches anything)
Notify(n) ==
    /\ ~invalid
    /\ available + n <= MaxAvailable
    /\ available' = available + n
    /\ \/ waiting = 0 /\ UNCHANGED pc
       \/ waiting > 0 /\ available' >= waiting /\ Broadcast
       \/ waiting > 0 /\ available' < waiting /\ SignalTimes(available')
    /\ UNCHANGED <<waiting, invalid, timed, result>>

NotifyAll ==
    /\ ~invalid
    /\ available' = IF available <= waiting THEN waiting ELSE available
    /\ \/ waiting > 0 /\ Broadcast
       \/ waiting = 0 /\ UNCHANGED pc
    /\ UNCHANGED <<waiting, invalid, timed, result>>

ClearAvailable ==
    /\ ~invalid
    /\ available' = 0
    /\ UNCHANGED <<waiting, invalid, pc, timed, result>>

\* wait() with a notification pending: ++waiting_ and --waiting_ cancel out.
WaitTake(t) ==
    /\ pc[t] = "idle"
    /\ ~invalid
    /\ available > 0
    /\ available' = available - 1
    /\ result' = [result EXCEPT ![t] = TRUE]
    /\ UNCHANGED <<waiting, invalid, pc, timed>>

\* wait() with none pending blocks, with or without a deadline.
WaitBlock(t, deadline) ==
    /\ pc[t] = "idle"
    /\ ~invalid
    /\ available = 0
    /\ waiting' = waiting + 1
    /\ pc' = [pc EXCEPT ![t] = "blocked"]
    /\ timed' = [timed EXCEPT ![t] = deadline]
    /\ UNCHANGED <<available, invalid, result>>

\* wait_nb() takes a pending notification or fails at once.
WaitNb(t) ==
    /\ pc[t] = "idle"
    /\ ~invalid
    /\ available' = IF available > 0 THEN available - 1 ELSE available
    /\ result' = [result EXCEPT ![t] = available > 0]
    /\ UNCHANGED <<waiting, invalid, pc, timed>>

\* A condition variable may wake a queued thread for no reason.
Spurious(t) ==
    /\ pc[t] = "blocked"
    /\ pc' = [pc EXCEPT ![t] = "woken"]
    /\ UNCHANGED <<available, waiting, invalid, timed, result>>

\* pthread_cond_timedwait: the deadline passes while the thread is queued.
Expire(t) ==
    /\ pc[t] = "blocked"
    /\ timed[t]
    /\ pc' = [pc EXCEPT ![t] = "expired"]
    /\ UNCHANGED <<available, waiting, invalid, timed, result>>

\* --waiting_ and the end of wait() with result ret, which takes a notification
\* only if it is true
Leave(t, ret) ==
    /\ available' = IF ret /\ available > 0 THEN available - 1 ELSE available
    /\ waiting' = waiting - 1
    /\ pc' = [pc EXCEPT ![t] = "idle"]
    /\ result' = [result EXCEPT ![t] = ret]
    /\ timed' = [timed EXCEPT ![t] = FALSE]

\* Mutant: the wait loop is an if, a woken thread leaves with true at once.
ResumeIf(t) ==
    /\ ~invalid
    /\ \/ pc[t] = "woken" /\ Leave(t, TRUE)
       \/ pc[t] = "expired" /\ Leave(t, FALSE)
    /\ UNCHANGED invalid

\* Mutant: the timed loop does not break on ETIMEDOUT.
ResumeNoBreak(t) ==
    /\ ~invalid
    /\ pc[t] \in {"woken", "expired"}
    /\ \/ available > 0 /\ Leave(t, TRUE)
       \/ /\ available = 0
          /\ pc' = [pc EXCEPT ![t] = "blocked"]
          /\ UNCHANGED <<available, waiting, timed, result>>
    /\ UNCHANGED invalid

\* Mutant: ++waiting_ is inside the loop.
ResumeRecount(t) ==
    /\ ~invalid
    /\ \/ pc[t] = "woken" /\ available > 0 /\ Leave(t, TRUE)
       \/ /\ pc[t] = "woken"
          /\ available = 0
          /\ waiting' = waiting + 1
          /\ pc' = [pc EXCEPT ![t] = "blocked"]
          /\ UNCHANGED <<available, timed, result>>
       \/ pc[t] = "expired" /\ Leave(t, FALSE)
    /\ UNCHANGED invalid

\* The wait loop has the mutex again.  A woken thread re-tests available_; an
\* expired one leaves with false even if a notification has arrived.
Resume(t) ==
    /\ ~invalid
    /\ \/ /\ pc[t] = "woken"
          /\ available > 0
          /\ Leave(t, TRUE)
       \/ /\ pc[t] = "woken"
          /\ available = 0
          /\ pc' = [pc EXCEPT ![t] = "blocked"]
          /\ UNCHANGED <<available, waiting, timed, result>>
       \/ /\ pc[t] = "expired"
          /\ Leave(t, FALSE)
    /\ UNCHANGED invalid

\* Mutant: a cleanup handler gives the count back, also at the sleep(0) where
\* it has been given back already.
CancelUncounts(t) ==
    /\ t \in Cancellable
    /\ pc[t] \in {"idle", "blocked"}
    /\ pc' = [pc EXCEPT ![t] = "cancelled"]
    /\ timed' = [timed EXCEPT ![t] = FALSE]
    /\ waiting' = waiting - 1
    /\ UNCHANGED <<available, invalid, result>>

\* thread::stop(): pthread_cancel takes effect at the cancellation points of
\* wait(), the condition wait and the sleep(0) before it returns.  The forced
\* unwinding unlocks mtx_ and nothing else: waiting_ keeps its count.
Cancel(t) ==
    /\ t \in Cancellable
    /\ pc[t] \in {"idle", "blocked"}
    /\ pc' = [pc EXCEPT ![t] = "cancelled"]
    /\ timed' = [timed EXCEPT ![t] = FALSE]
    /\ UNCHANGED <<available, waiting, invalid, result>>

\* ~impl(): available_ covers the waiters, all are woken.
Destroy ==
    /\ ~invalid
    /\ invalid' = TRUE
    /\ available' = waiting
    /\ Broadcast
    /\ UNCHANGED <<waiting, timed, result>>

\* A waiter that outlives the event comes back to a destroyed mutex: its wait
\* ends with true (available_ was set for it) or, if the dead mutex reports an
\* error, with false.  (mtx_ is null by then, so that such a waiter does not unlock
\* what it locked; that others could block behind it for ever is left out.)
ResumeDestroyed(t) ==
    /\ invalid
    /\ pc[t] \in {"woken", "expired"}
    /\ \/ available > 0 /\ Leave(t, TRUE)
       \/ Leave(t, FALSE)
    /\ UNCHANGED invalid

-----------------------------------------------------------------------------
Next ==
    \/ \E n \in 1..MaxAvailable : Notify(n)
    \/ NotifyAll
    \/ ClearAvailable
    \/ Destroy
    \/ \E t \in Thread :
          \/ WaitTake(t)
          \/ WaitNb(t)
          \/ \E deadline \in BOOLEAN : WaitBlock(t, deadline)
          \/ Spurious(t)
          \/ Expire(t)
          \/ Resume(t)
          \/ ResumeDestroyed(t)
          \/ Cancel(t)

\* A thread off the queue gets the mutex eventually.  A deadline is absolute
\* (at), so a thread that keeps coming back to the queue meets it.
Fairness ==
    \A t \in Thread :
        /\ WF_vars(Resume(t))
        /\ WF_vars(ResumeDestroyed(t))
        /\ SF_vars(Expire(t))

Spec == Init /\ [][Next]_vars /\ Fairness

-----------------------------------------------------------------------------
(* Properties.                                                             *)

\* Every variable of the event and of its threads has its type.
TypeOK ==
    /\ available \in Nat
    /\ waiting \in Nat
    /\ invalid \in BOOLEAN
    /\ pc \in [Thread -> Positions]
    /\ timed \in [Thread -> BOOLEAN]
    /\ result \in [Thread -> BOOLEAN]

\* No lost wake-up: notify() signals only available_ threads, others may take
\* notifications before the woken ones run, and waiters may time out or be
\* cancelled; still, whenever somebody is left queued on the condition
\* variable, at least as many threads are on their way to the mutex as there
\* are notifications for them to take.
NoLostWakeup ==
    At("blocked") # {} => Cardinality(At("woken")) >= available

\* waiting_ counts every thread inside wait(); what it has beyond that is
\* threads that were cancelled in there.  notify() relies on it to choose
\* between no signal, some and a broadcast.
WaitingBounds ==
    /\ Cardinality(InWait) <= waiting
    /\ waiting <= Cardinality(InWait) + Cardinality(At("cancelled"))

\* A wait() with a timeout ends, whatever the other threads do.
TimedWaitEnds == \A t \in Thread : timed[t] ~> ~timed[t]

\* The event implements the counting semaphore of event.hh, including its
\* promise that pending notifications are taken while somebody waits.
Abstract == INSTANCE Semaphore WITH
                parked <- InWait,
                surplus <- waiting - Cardinality(InWait),
                closed <- invalid

ImplementsSemaphore == Abstract!SSpec
=============================================================================
