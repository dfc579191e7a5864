-------------------------------- MODULE PEvent -------------------------------
(***************************************************************************)
(* nthread::pevent (nthread/pevent_impl_pthread.cc): the code of event with *)
(* a permanent_ flag, which threads use for "started" and "exited".  What   *)
(* the two classes share is taken from Event; this module adds what differs.*)
(***************************************************************************)
EXTENDS Event

VARIABLES permanent,  \* impl::permanent_
          robbed      \* notifications that set_permanent() or notify_all() left
                      \* for the waiters of a permanent event and that somebody
                      \* else took (not in the code)

pvars == <<vars, permanent, robbed>>

PInit == Init /\ permanent = FALSE /\ robbed = 0

\* notify(n) is ignored while the event is permanent.
PNotify(n) ==
    /\ ~permanent
    /\ Notify(n)
    /\ UNCHANGED <<permanent, robbed>>

\* notify_all() does not look at permanent_; every waiter has a notification.
PNotifyAll ==
    /\ NotifyAll
    /\ robbed' = 0
    /\ UNCHANGED permanent

PClearAvailable ==
    /\ ClearAvailable
    /\ permanent' = FALSE
    /\ robbed' = 0

\* wait() on a permanent event returns at once; it still takes a pending
\* notification, which set_permanent() meant for a thread that is waiting.
WaitPermanent(t) ==
    /\ pc[t] = "idle"
    /\ ~invalid
    /\ permanent
    /\ available' = IF available > 0 THEN available - 1 ELSE available
    /\ result' = [result EXCEPT ![t] = TRUE]
    /\ robbed' = IF available > 0 THEN robbed + 1 ELSE robbed
    /\ UNCHANGED <<waiting, invalid, pc, timed, permanent>>

PWaitTake(t) == ~permanent /\ WaitTake(t) /\ UNCHANGED <<permanent, robbed>>

PWaitBlock(t, deadline) ==
    ~permanent /\ WaitBlock(t, deadline) /\ UNCHANGED <<permanent, robbed>>

\* wait_nb() takes a pending notification first, permanent or not.
PWaitNb(t) ==
    /\ pc[t] = "idle"
    /\ ~invalid
    /\ available' = IF available > 0 THEN available - 1 ELSE available
    /\ result' = [result EXCEPT ![t] = available > 0 \/ permanent]
    /\ robbed' = IF permanent /\ available > 0 THEN robbed + 1 ELSE robbed
    /\ UNCHANGED <<waiting, invalid, pc, timed, permanent>>

\* Mutant: the waiters are woken without a notification to take.
SetPermanentZero ==
    /\ ~invalid
    /\ ~permanent
    /\ permanent' = TRUE
    /\ available' = 0
    /\ Broadcast
    /\ robbed' = 0
    /\ UNCHANGED <<waiting, invalid, timed, result>>

\* Mutant: the waiters get their notifications but are not woken.
SetPermanentSilent ==
    /\ ~invalid
    /\ ~permanent
    /\ permanent' = TRUE
    /\ available' = waiting
    /\ robbed' = 0
    /\ UNCHANGED <<waiting, invalid, pc, timed, result>>

\* set_permanent(): one notification for every waiter, all are woken.
SetPermanent ==
    /\ ~invalid
    /\ ~permanent
    /\ permanent' = TRUE
    /\ available' = waiting
    /\ Broadcast
    /\ robbed' = 0
    /\ UNCHANGED <<waiting, invalid, timed, result>>

\* clear_permanent() leaves available_ as it is.
ClearPermanent ==
    /\ ~invalid
    /\ permanent' = FALSE
    /\ robbed' = 0
    /\ UNCHANGED vars

\* The wait loops test available_ only: permanent_ does not end them.
PResume(t) == Resume(t) /\ UNCHANGED <<permanent, robbed>>
PSpurious(t) == Spurious(t) /\ UNCHANGED <<permanent, robbed>>
PExpire(t) == Expire(t) /\ UNCHANGED <<permanent, robbed>>
PCancel(t) == Cancel(t) /\ UNCHANGED <<permanent, robbed>>
PDestroy == Destroy /\ UNCHANGED <<permanent, robbed>>
PResumeDestroyed(t) == ResumeDestroyed(t) /\ UNCHANGED <<permanent, robbed>>

PNext ==
    \/ \E n \in 1..MaxAvailable : PNotify(n)
    \/ PNotifyAll
    \/ PClearAvailable
    \/ SetPermanent
    \/ ClearPermanent
    \/ PDestroy
    \/ \E t \in Thread :
          \/ WaitPermanent(t)
          \/ PWaitTake(t)
          \/ \E deadline \in BOOLEAN : PWaitBlock(t, deadline)
          \/ PWaitNb(t)
          \/ PSpurious(t)
          \/ PExpire(t)
          \/ PResume(t)
          \/ PResumeDestroyed(t)
          \/ PCancel(t)

\* As in Event: the mutex is granted and absolute deadlines pass.
PFairness ==
    \A t \in Thread :
        /\ WF_pvars(PResume(t))
        /\ WF_pvars(PResumeDestroyed(t))
        /\ SF_pvars(PExpire(t))

PSpec == PInit /\ [][PNext]_pvars /\ PFairness

-----------------------------------------------------------------------------
(* Properties; NoLostWakeup and WaitingBounds are those of Event.          *)

\* Every variable has its type.
PTypeOK ==
    /\ TypeOK
    /\ permanent \in BOOLEAN
    /\ robbed \in Nat

\* While the event is permanent, a thread still inside wait() either has a
\* notification to take or lost it to a wait()/wait_nb() that came later.
OnlyRobbedStay ==
    (permanent /\ ~invalid) =>
        Cardinality(At("blocked") \cup At("woken")) <= available + robbed
=============================================================================
