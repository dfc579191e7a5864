------------------------------- MODULE ThrPool -------------------------------
(***************************************************************************)
(* nthread::thrpool (nthread/thrpool.cc): a pool of between min_ and max_  *)
(* workers that wait for an event and call a handler for every             *)
(* notification of it.  A worker is a thread and its entry object; workers *)
(* grow the pool (start_one), leave it when they have been idle for long   *)
(* enough, and clear away the ones that have left (cleanup).  The owner    *)
(* init()s the pool and stops it, first politely (graceful_stop) and, if   *)
(* that fails, by cancellation (unpolite_stop), as ~thrpool() and          *)
(* udp::recvr do.                                                          *)
(*                                                                         *)
(* The pool's mutex mtx_ is not held from one step to the next: each action *)
(* is one critical section.  Events are the counters that Event is proved  *)
(* to implement.  A worker goes through the positions                      *)
(*                                                                         *)
(*   "created"  pthread_create has been called, the thread has not run yet *)
(*   "loop"     at the test of the while loop                              *)
(*   "wait"     in ev_->wait(timeout_)                                     *)
(*   "got"      it took a notification and looks for the stop flag         *)
(*   "help"     it found more than two notifications and count() < max_    *)
(*   "spawn"    cleanup() < max_ as well: about to call start_one()        *)
(*   "handle"   about to call the handler                                  *)
(*   "tidy"     at the cleanup() that ends the loop's body                 *)
(*   "leave"    out of the loop, before on_exit()                          *)
(*   "left"     --count_ is done, exit_event() not yet notified            *)
(*   "ending"   operator() has returned                                    *)
(*   "exited"   its exit_event() is permanent                              *)
(*   "orphan"   its thread object was deleted before it had run            *)
(*                                                                         *)
(* and "none" is a name that no thread has (any more).                     *)
(***************************************************************************)
EXTENDS Integers, FiniteSets

CONSTANTS Worker,       \* names for threads
          Attempts,     \* attempts_
          MaxExits,     \* where the count of exit_event_ saturates
          Plans         \* what the owner may be up to

\* A plan has the min_ and max_ that the owner gives to init() and whether it
\* stops the pool, and two bounds: on its init() calls and on the notifications
\* that are pending in ev_ when more work is posted.
Plan == [min : Nat \ {0}, max : Nat, stops : BOOLEAN, inits : Nat, pending : Nat]

\* What init() checks of its parameters.
ASSUME ParamAssumption ==
    /\ Plans \subseteq Plan
    /\ \A p \in Plans : p.min <= p.max
    /\ Attempts \in Nat \ {0}

\* "owner" stands for the owner where a worker does something for itself.
ASSUME BoundAssumption ==
    IsFiniteSet(Worker) /\ "owner" \notin Worker /\ MaxExits \in Nat

VARIABLES pc,        \* where each worker is
          idle,      \* its n_attempts
          flagged,   \* workers whose entry has stop_me_ set
          threads,   \* threads_: the workers that are registered
          count,     \* count_
          pending,   \* notifications available in ev_
          exits,     \* notifications available in exit_event_
          owner,     \* what the owner does
          todo,      \* start_one()s or exit_event_.wait()s it has still to do
          failed,    \* graceful_stop()'s failed_count
          reinit,    \* the pool is being stopped by init()
          inits,     \* init() calls so far
          plan,      \* what the owner is up to
          lost       \* workers that were cancelled between on_entry() and
                     \* on_exit() (not in the code)

vars == <<pc, idle, flagged, threads, count, pending, exits, owner, todo, failed,
          reinit, inits, plan, lost>>

ownerVars == <<owner, todo, failed, reinit, inits, plan, lost>>

Min == plan.min
Max == plan.max

\* Workers between on_entry() and on_exit(), the ones that count_ counts.
Inside == {"loop", "wait", "got", "help", "spawn", "handle", "tidy", "leave"}
Positions == Inside \cup {"none", "created", "left", "ending", "exited", "orphan"}
Owner == {"out", "init", "running", "refused", "sweep", "notify", "wait", "again",
          "wait2", "verdict", "unpolite"}

Counted == {w \in Worker : pc[w] \in Inside}

Init ==
    /\ pc = [w \in Worker |-> "none"]
    /\ idle = [w \in Worker |-> 0]
    /\ flagged = {}
    /\ threads = {}
    /\ count = 0 /\ pending = 0 /\ exits = 0 /\ lost = 0
    /\ owner = "out"
    /\ todo = 0 /\ failed = 0 /\ reinit = FALSE /\ inits = 0
    /\ plan \in Plans

-----------------------------------------------------------------------------
\* A new thread with its entry is launched and registered; the launching
\* worker, if any, is by, and it goes to next.
LaunchBy(by, next) ==
    \E t \in Worker :
        /\ pc[t] = "none"
        /\ pc' = [w \in Worker |-> IF w = t THEN "created"
                                   ELSE IF w = by THEN next ELSE pc[w]]
        /\ threads' = threads \cup {t}

\* cleanup(): the workers whose exit event is permanent are unregistered, their
\* threads and entries deleted.
Kept == {w \in threads : pc[w] # "exited"}

CleanupBy(by, next) ==
    /\ threads' = Kept
    /\ flagged' = flagged \ (threads \ Kept)
    /\ pc' = [w \in Worker |-> IF w = by THEN next
                               ELSE IF w \in threads \ Kept THEN "none"
                               ELSE pc[w]]

-----------------------------------------------------------------------------
\* A worker.

\* Mutant: stop_me_ is reset when the thread first runs.
EnterUnflagged(w) ==
    /\ pc[w] = "created"
    /\ count' = count + 1
    /\ flagged' = flagged \ {w}
    /\ pc' = [pc EXCEPT ![w] = "loop"]
    /\ UNCHANGED <<idle, threads, pending, exits, ownerVars>>

\* thread_entry_() and on_entry()
Enter(w) ==
    /\ pc[w] = "created"
    /\ count' = count + 1
    /\ pc' = [pc EXCEPT ![w] = "loop"]
    /\ UNCHANGED <<idle, flagged, threads, pending, exits, ownerVars>>

\* while( stop_me() == false )
Loop(w) ==
    /\ pc[w] = "loop"
    /\ pc' = [pc EXCEPT ![w] = IF w \in flagged THEN "leave" ELSE "wait"]
    /\ UNCHANGED <<idle, flagged, threads, count, pending, exits, ownerVars>>

\* ev_->wait(timeout_) returns true.
Take(w) ==
    /\ pc[w] = "wait"
    /\ pending > 0
    /\ pending' = pending - 1
    /\ pc' = [pc EXCEPT ![w] = "got"]
    /\ UNCHANGED <<idle, flagged, threads, count, exits, ownerVars>>

\* Mutant: an idle worker leaves when count() is the minimum.
TimeoutAtMin(w) ==
    /\ pc[w] = "wait"
    /\ idle' = [idle EXCEPT ![w] = IF @ > Attempts THEN @ ELSE @ + 1]
    /\ pc' = [pc EXCEPT ![w] = IF idle'[w] > Attempts /\ count >= Min
                               THEN "leave" ELSE "tidy"]
    /\ UNCHANGED <<flagged, threads, count, pending, exits, ownerVars>>

\* The wait times out, even if a notification has just arrived (see Event); a
\* worker that has been idle too often reads count() and leaves if there are
\* more than min_.  (n_attempts stops counting at Attempts + 1 here.)
Timeout(w) ==
    /\ pc[w] = "wait"
    /\ idle' = [idle EXCEPT ![w] = IF @ > Attempts THEN @ ELSE @ + 1]
    /\ pc' = [pc EXCEPT ![w] = IF idle'[w] > Attempts /\ count > Min
                               THEN "leave" ELSE "tidy"]
    /\ UNCHANGED <<flagged, threads, count, pending, exits, ownerVars>>

\* The notification may have been graceful_stop()'s; if not, is help needed?
Got(w) ==
    /\ pc[w] = "got"
    /\ idle' = IF w \in flagged THEN idle ELSE [idle EXCEPT ![w] = 0]
    /\ pc' = [pc EXCEPT ![w] = IF w \in flagged THEN "leave"
                               ELSE IF pending > 2 /\ count < Max THEN "help"
                               ELSE "handle"]
    /\ UNCHANGED <<flagged, threads, count, pending, exits, ownerVars>>

\* Mutant: the workers that have been launched are not considered.
HelpUnchecked(w) ==
    /\ pc[w] = "help"
    /\ CleanupBy(w, "spawn")
    /\ UNCHANGED <<idle, count, pending, exits, ownerVars>>

\* pool_->cleanup() < max_
Help(w) ==
    /\ pc[w] = "help"
    /\ CleanupBy(w, IF Cardinality(Kept) < Max THEN "spawn" ELSE "handle")
    /\ UNCHANGED <<idle, count, pending, exits, ownerVars>>

\* start_one() by a worker, which then waits for the new thread's start event
\* and goes on to its handler whatever comes of it.
StartOne(w) ==
    /\ pc[w] = "spawn"
    /\ \/ count <= Max /\ LaunchBy(w, "handle")
       \/ /\ count > Max
          /\ pc' = [pc EXCEPT ![w] = "handle"]
          /\ UNCHANGED threads
    /\ UNCHANGED <<idle, flagged, count, pending, exits, ownerVars>>

\* (*handler_)() is called and returns.
Handle(w) ==
    /\ pc[w] = "handle"
    /\ pc' = [pc EXCEPT ![w] = "tidy"]
    /\ UNCHANGED <<idle, flagged, threads, count, pending, exits, ownerVars>>

Tidy(w) ==
    /\ pc[w] = "tidy"
    /\ CleanupBy(w, "loop")
    /\ UNCHANGED <<idle, count, pending, exits, ownerVars>>

\* Mutant: on_exit() does not count the worker out.
LeaveCounted(w) ==
    /\ pc[w] = "leave"
    /\ idle' = [idle EXCEPT ![w] = 0]
    /\ pc' = [pc EXCEPT ![w] = "left"]
    /\ UNCHANGED <<flagged, threads, count, pending, exits, ownerVars>>

\* on_exit(): --count_ under the lock
Leave(w) ==
    /\ pc[w] = "leave"
    /\ count' = count - 1
    /\ idle' = [idle EXCEPT ![w] = 0]
    /\ pc' = [pc EXCEPT ![w] = "left"]
    /\ UNCHANGED <<flagged, threads, pending, exits, ownerVars>>

Saturated(n) == IF n > MaxExits THEN MaxExits ELSE n

\* on_exit(): exit_event().notify()
NotifyExit(w) ==
    /\ pc[w] = "left"
    /\ exits' = Saturated(exits + 1)
    /\ pc' = [pc EXCEPT ![w] = "ending"]
    /\ UNCHANGED <<idle, flagged, threads, count, pending, ownerVars>>

\* exit_evt_.set_permanent() in thread_entry_()
End(w) ==
    /\ pc[w] = "ending"
    /\ pc' = [pc EXCEPT ![w] = "exited"]
    /\ UNCHANGED <<idle, flagged, threads, count, pending, exits, ownerVars>>

WorkerStep(w) ==
    \/ Enter(w) \/ Loop(w) \/ Take(w) \/ Timeout(w) \/ Got(w) \/ Help(w)
    \/ StartOne(w) \/ Handle(w) \/ Tidy(w) \/ Leave(w) \/ NotifyExit(w) \/ End(w)

-----------------------------------------------------------------------------
\* The owner of the pool.

workerVars == <<pc, idle, flagged, threads, count>>

\* Somebody posts work.
Post ==
    /\ pending < plan.pending
    /\ pending' = pending + 1
    /\ UNCHANGED <<workerVars, exits, ownerVars>>

\* init(): a pool with a count() is stopped first.
InitPool ==
    /\ owner \in {"out", "running", "refused"}
    /\ inits < plan.inits
    /\ inits' = inits + 1
    /\ \/ count > 0 /\ owner' = "sweep" /\ reinit' = TRUE /\ UNCHANGED todo
       \/ count = 0 /\ owner' = "init" /\ todo' = Min /\ UNCHANGED reinit
    /\ UNCHANGED <<workerVars, pending, exits, failed, plan, lost>>

\* init() calls start_one() min_ times; it waits for the start event, which the
\* new thread sets before it enters the pool.
InitOne ==
    /\ owner = "init"
    /\ \/ /\ todo > 0 /\ count <= Max
          /\ LaunchBy("owner", "init")
          /\ todo' = todo - 1
          /\ UNCHANGED owner
       \/ /\ todo > 0 /\ count > Max       \* rs_start_error
          /\ owner' = "refused" /\ todo' = 0
          /\ UNCHANGED <<pc, threads>>
       \/ /\ \E w \in Worker : pc[w] = "created"   \* no start event in 10 s
          /\ owner' = "refused" /\ todo' = 0
          /\ UNCHANGED <<pc, threads>>
       \/ /\ todo = 0
          /\ owner' = "running"
          /\ UNCHANGED <<pc, threads, todo>>
    /\ UNCHANGED <<idle, flagged, count, pending, exits, failed, reinit, inits, plan, lost>>

\* graceful_stop() is called, by ~thrpool() or by udp::recvr.
Stop ==
    /\ plan.stops
    /\ owner \in {"running", "refused"}
    /\ owner' = "sweep"
    /\ reinit' = FALSE
    /\ UNCHANGED <<workerVars, pending, exits, todo, failed, inits, plan, lost>>

\* graceful_stop() under the lock: every registered worker is flagged.
Sweep ==
    /\ owner = "sweep"
    /\ flagged' = threads
    /\ todo' = Cardinality(threads)
    /\ failed' = 0
    /\ owner' = "notify"
    /\ UNCHANGED <<pc, idle, threads, count, pending, exits, reinit, inits, plan, lost>>

\* ev_->notify( i )
NotifyWorkers ==
    /\ owner = "notify"
    /\ pending' = pending + todo
    /\ owner' = "wait"
    /\ UNCHANGED <<workerVars, exits, todo, failed, reinit, inits, plan, lost>>

\* Mutant: exit_event_.wait() has no time-out.
WaitExitForever ==
    /\ owner = "wait"
    /\ todo > 0
    /\ todo' = todo - 1
    /\ exits > 0 /\ exits' = exits - 1 /\ UNCHANGED failed
    /\ UNCHANGED <<workerVars, pending, owner, reinit, inits, plan, lost>>

\* exit_event_.wait(timeout_*3), which may take the notification of a worker
\* that left long ago
WaitExit ==
    /\ owner = "wait"
    /\ todo > 0
    /\ todo' = todo - 1
    /\ \/ exits > 0 /\ exits' = exits - 1 /\ UNCHANGED failed
       \/ failed' = failed + 1 /\ UNCHANGED exits
    /\ UNCHANGED <<workerVars, pending, owner, reinit, inits, plan, lost>>

\* cleanup() between the two passes
CleanupExited ==
    /\ owner = "wait"
    /\ todo = 0
    /\ CleanupBy("owner", "init")
    /\ owner' = "again"
    /\ UNCHANGED <<idle, count, pending, exits, todo, failed, reinit, inits, plan, lost>>

\* The second pass, if workers are left and waits have failed.
Again ==
    /\ owner = "again"
    /\ \/ /\ count > 0 /\ failed > 0
          /\ pending' = pending + failed
          /\ todo' = failed
          /\ owner' = "wait2"
       \/ /\ ~(count > 0 /\ failed > 0)
          /\ owner' = "verdict"
          /\ UNCHANGED <<pending, todo>>
    /\ UNCHANGED <<workerVars, exits, failed, reinit, inits, plan, lost>>

\* exit_event_.wait(timeout_*5)
WaitExitAgain ==
    /\ owner = "wait2"
    /\ \/ /\ todo > 0
          /\ todo' = todo - 1
          /\ \/ exits > 0 /\ exits' = exits - 1
             \/ UNCHANGED exits
          /\ UNCHANGED owner
       \/ /\ todo = 0
          /\ owner' = "verdict"
          /\ UNCHANGED <<todo, exits>>
    /\ UNCHANGED <<workerVars, pending, failed, reinit, inits, plan, lost>>

\* What follows a stop: init() goes on with its start_one()s.
Stopped ==
    /\ owner' = IF reinit THEN "init" ELSE "out"
    /\ todo' = IF reinit THEN Min ELSE 0

\* Mutant: graceful_stop() is content when no wait has failed.
VerdictByWaits ==
    /\ owner = "verdict"
    /\ exits' = 0
    /\ \/ failed = 0 /\ Stopped
       \/ failed > 0 /\ owner' = "unpolite" /\ UNCHANGED todo
    /\ UNCHANGED <<workerVars, pending, failed, reinit, inits, plan, lost>>

\* graceful_stop() returns count() == 0.
Verdict ==
    /\ owner = "verdict"
    /\ exits' = 0
    /\ \/ count = 0 /\ Stopped
       \/ count > 0 /\ owner' = "unpolite" /\ UNCHANGED todo
    /\ UNCHANGED <<workerVars, pending, failed, reinit, inits, plan, lost>>

\* unpolite_stop(), with mtx_ held throughout: workers inside are cancelled at
\* the next lock or wait and stay counted.  A thread that has not run yet is
\* neither cancelled nor joined when its object is deleted.  A wait for an exit
\* event may time out, and then init() fails.
UnpoliteStop ==
    /\ owner = "unpolite"
    /\ \E unborn \in SUBSET {w \in threads : pc[w] = "created"} :
          pc' = [w \in Worker |-> IF w \in unborn THEN "orphan"
                                  ELSE IF w \in threads THEN "none" ELSE pc[w]]
    /\ threads' = {} /\ flagged' = {}
    /\ idle' = [w \in Worker |-> 0]
    /\ lost' = lost + Cardinality(Counted)
    /\ exits' = Saturated(exits + Cardinality({w \in threads : pc[w] = "left"}))
    /\ \/ Stopped
       \/ reinit /\ owner' = "refused" /\ todo' = 0      \* rs_stop_error
    /\ UNCHANGED <<count, pending, failed, reinit, inits, plan>>

OwnerStep ==
    \/ InitOne \/ Sweep \/ NotifyWorkers \/ WaitExit \/ CleanupExited \/ Again
    \/ WaitExitAgain \/ Verdict \/ UnpoliteStop

-----------------------------------------------------------------------------
Next == InitPool \/ Stop \/ OwnerStep \/ Post \/ \E w \in Worker : WorkerStep(w)

\* Handlers return, locks are granted, waits end: a worker never stops inside
\* the loop, and neither does the owner inside a call.  ev_->wait() takes a
\* notification that is there when it is called, so a worker that comes back
\* again and again while there are some does not time out every time.
Fairness ==
    /\ WF_vars(OwnerStep)
    /\ \A w \in Worker : WF_vars(WorkerStep(w)) /\ SF_vars(Take(w))

Spec == Init /\ [][Next]_vars /\ Fairness

-----------------------------------------------------------------------------
(* Properties.                                                             *)

\* Every variable has its type.
TypeOK ==
    /\ pc \in [Worker -> Positions]
    /\ idle \in [Worker -> 0..(Attempts + 1)]
    /\ flagged \subseteq Worker
    /\ threads \subseteq Worker
    /\ count \in Nat /\ pending \in Nat /\ exits \in 0..MaxExits
    /\ owner \in Owner
    /\ todo \in Nat /\ failed \in Nat
    /\ reinit \in BOOLEAN
    /\ plan \in Plans
    /\ inits \in 0..plan.inits
    /\ lost \in Nat

\* count() is the number of workers inside the pool, and of those that were
\* cancelled in there: start_one(), the idle check and graceful_stop() rely on
\* it while workers come and go.
CountTracksWorkers == count = Cardinality(Counted) + lost

\* Growth is checked without a lock: every worker that finds fewer than max_
\* registered starts one more.  Even so a pool that is initialised once never
\* has more than 2*max_ + min_ - 3 workers that have not exited.
OvershootBounded ==
    plan.inits = 1 =>
    Cardinality(Kept) + Cardinality({w \in Worker : pc[w] = "spawn"})
        <= IF Max = 1 THEN 1 ELSE 2 * Max + Min - 3

\* Once graceful_stop() or unpolite_stop() is over, no worker that it found
\* waits for work or does any: one that has yet to run its on_entry() sees the
\* flag first.  Notifications of workers that left earlier do not fool it.
StoppedIsQuiet ==
    owner = "out" => \A w \in flagged : pc[w] \notin Inside \ {"loop", "leave"}

\* graceful_stop() ends, whatever the workers do.
StopEnds == (owner = "sweep") ~> (owner \in {"out", "init", "refused"})

\* Every worker that graceful_stop() flags leaves the pool, even if it has not
\* run yet and if others take the notification that was meant for it.
FlaggedLeave ==
    LET In == Inside \cup {"created"}
    IN  \A w \in Worker : (w \in flagged /\ pc[w] \in In) ~> (pc[w] \notin In)

\* A pool with min_ = max_, which idle workers cannot shrink, works off its
\* backlog as long as it is not stopped.
BacklogShrinks ==
    (owner = "running" /\ ~plan.stops /\ Min = Max /\ pending = plan.pending)
        ~> (pending < plan.pending)

\* thrpool.cc: "ensure that the minimum amount of threads will run".  This does
\* not hold for a pool that may shrink.
KeepsMinimum ==
    owner = "running" =>
        Cardinality({w \in threads : pc[w] \in Inside \cup {"created"}}) >= Min
=============================================================================
