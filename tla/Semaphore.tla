------------------------------ MODULE Semaphore ------------------------------
(***************************************************************************)
(* What nthread::event promises its users (nthread/event.hh): a counter of *)
(* pending notifications that waiters take one by one.  There is no mutex, *)
(* no condition variable and no wake-up here: a waiter that finds a        *)
(* notification takes it, and as long as one is pending somebody does.     *)
(***************************************************************************)
EXTENDS Naturals, FiniteSets

CONSTANTS Thread,        \* the threads that use the event
          MaxAvailable   \* bound on the pending notifications

VARIABLES available,     \* pending notifications
          parked,        \* threads waiting for one
          surplus,       \* notify_all also counts this many threads that are gone
          result,        \* what the last wait of each thread returned
          closed         \* the event is destroyed

svars == <<available, parked, surplus, result, closed>>

SInit ==
    /\ available = 0
    /\ parked = {}
    /\ surplus = 0
    /\ result = [t \in Thread |-> FALSE]
    /\ closed = FALSE

\* notify(n): n more notifications are pending.
Release(n) ==
    /\ ~closed
    /\ available + n <= MaxAvailable
    /\ available' = available + n
    /\ UNCHANGED <<parked, surplus, result, closed>>

\* notify_all(): at least one notification for everybody who waits.
ReleaseAll ==
    /\ ~closed
    /\ LET wanted == Cardinality(parked) + surplus
       IN  available' = IF available <= wanted THEN wanted ELSE available
    /\ UNCHANGED <<parked, surplus, result, closed>>

\* clear_available(): the pending notifications are forgotten.
Drain ==
    /\ ~closed
    /\ available' = 0
    /\ UNCHANGED <<parked, surplus, result, closed>>

\* wait() or wait_nb() finds a notification pending and takes it.
TakeNow(t) ==
    /\ ~closed
    /\ available > 0
    /\ available' = available - 1
    /\ result' = [result EXCEPT ![t] = TRUE]
    /\ UNCHANGED <<parked, surplus, closed>>

\* wait_nb() finds none.
TakeFails(t) ==
    /\ ~closed
    /\ available = 0
    /\ result' = [result EXCEPT ![t] = FALSE]
    /\ UNCHANGED <<available, parked, surplus, closed>>

\* wait() finds none and starts to wait: only possible when none is pending.
Park(t) ==
    /\ ~closed
    /\ available = 0
    /\ t \notin parked
    /\ parked' = parked \cup {t}
    /\ UNCHANGED <<available, surplus, result, closed>>

\* A waiter takes a notification.
Take(t) ==
    /\ ~closed
    /\ available > 0
    /\ t \in parked
    /\ available' = available - 1
    /\ parked' = parked \ {t}
    /\ result' = [result EXCEPT ![t] = TRUE]
    /\ UNCHANGED <<surplus, closed>>

\* A waiter's time is up and it leaves without one.
GiveUp(t) ==
    /\ ~closed
    /\ t \in parked
    /\ parked' = parked \ {t}
    /\ result' = [result EXCEPT ![t] = FALSE]
    /\ UNCHANGED <<available, surplus, closed>>

\* A waiter is cancelled: it never returns, and stays in notify_all's count.
Vanish(t) ==
    /\ t \in parked
    /\ parked' = parked \ {t}
    /\ surplus' = surplus + 1
    /\ UNCHANGED <<available, result, closed>>

\* The event is destroyed; those who wait are let go.
Close ==
    /\ ~closed
    /\ closed' = TRUE
    /\ available' = Cardinality(parked) + surplus
    /\ UNCHANGED <<parked, surplus, result>>

\* A waiter of a destroyed event is let go, with either result.
LetGo(t) ==
    /\ closed
    /\ t \in parked
    /\ parked' = parked \ {t}
    /\ \/ /\ available > 0
          /\ available' = available - 1
          /\ result' = [result EXCEPT ![t] = TRUE]
       \/ /\ result' = [result EXCEPT ![t] = FALSE]
          /\ UNCHANGED available
    /\ UNCHANGED <<surplus, closed>>

SNext ==
    \/ \E n \in 1..MaxAvailable : Release(n)
    \/ ReleaseAll
    \/ Drain
    \/ Close
    \/ \E t \in Thread :
          \/ TakeNow(t)
          \/ TakeFails(t)
          \/ Park(t)
          \/ Take(t)
          \/ GiveUp(t)
          \/ Vanish(t)
          \/ LetGo(t)

\* The promise: while notifications are pending, waiters take them.
SFairness == WF_svars(\E t \in Thread : Take(t))

SSpec == SInit /\ [][SNext]_svars /\ SFairness
=============================================================================
