-------------------------------- MODULE Thread -------------------------------
(***************************************************************************)
(* nthread::thread (nthread/thread_impl_pthread.cc): an object that runs a *)
(* callback in a pthread, tells through two permanent events that it has   *)
(* started and exited, and stops it by cancellation.  The events are the   *)
(* flags that PEvent models in full.  A run is one pthread_create of the   *)
(* object; clients are the threads that call stop() or the destructor.     *)
(***************************************************************************)
EXTENDS Naturals, FiniteSets

CONSTANTS Run,      \* pthreads that start() may create
          Client,   \* callers of stop()
          NoRun     \* tid_ == 0

ASSUME RunAssumption == IsFiniteSet(Run) /\ NoRun \notin Run

VARIABLES entry,      \* set_entry() has been called
          started,    \* start_evt_ is permanent
          exited,     \* exit_evt_ is permanent
          tid,        \* tid_, the run that was created last
          run,        \* where each run is
          cancel,     \* runs with a cancellation request pending
          client,     \* where each client is in stop()
          object,     \* the life of the object: "alive", "closing", "joining", "gone"
          patient     \* the owner starts the thread once and waits for its start
                      \* event before it destroys the object, as the tests do

tvars == <<entry, started, exited, tid, run, cancel, client, object, patient>>

TInit ==
    /\ entry = FALSE /\ started = FALSE /\ exited = FALSE
    /\ tid = NoRun
    /\ run = [r \in Run |-> "none"]
    /\ cancel = {}
    /\ client = [c \in Client |-> "idle"]
    /\ object = "alive"
    /\ patient \in BOOLEAN

-----------------------------------------------------------------------------
SetEntry ==
    /\ object = "alive"
    /\ entry' = TRUE
    /\ UNCHANGED <<started, exited, tid, run, cancel, client, object, patient>>

\* start(): false without an entry and once the thread has started or exited
Start ==
    /\ object = "alive"
    /\ entry /\ ~started /\ ~exited
    /\ patient => tid = NoRun
    /\ \E r \in Run :
          /\ run[r] = "none"
          /\ tid' = r
          /\ run' = [run EXCEPT ![r] = "launched"]
    /\ UNCHANGED <<entry, started, exited, cancel, client, object, patient>>

\* thread_entry_(): the start event is flagged and the callback called.
Begin(r) ==
    /\ run[r] = "launched"
    /\ run' = [run EXCEPT ![r] = "running"]
    /\ started' = TRUE
    /\ UNCHANGED <<entry, exited, tid, cancel, client, object, patient>>

\* The callback returns, or ends at a cancellation point; what is left to do
\* is to flag the exit (thread_entry_ or thread_cleanup_).
Return(r) ==
    /\ run[r] = "running"
    /\ run' = [run EXCEPT ![r] = "returned"]
    /\ UNCHANGED <<entry, started, exited, tid, cancel, client, object, patient>>

\* Mutant: a cancelled run is not unwound through thread_cleanup_.
CancelledSilently(r) ==
    /\ run[r] = "running"
    /\ r \in cancel
    /\ run' = [run EXCEPT ![r] = "done"]
    /\ UNCHANGED <<entry, started, exited, tid, cancel, client, object, patient>>

Cancelled(r) ==
    /\ run[r] = "running"
    /\ r \in cancel
    /\ run' = [run EXCEPT ![r] = "returned"]
    /\ UNCHANGED <<entry, started, exited, tid, cancel, client, object, patient>>

\* Mutant: the exit is flagged before the callback returns.
FlagExitEarly(r) ==
    /\ run[r] \in {"running", "returned"}
    /\ run' = [run EXCEPT ![r] = IF @ = "running" THEN @ ELSE "done"]
    /\ exited' = TRUE
    /\ UNCHANGED <<entry, started, tid, cancel, client, object, patient>>

\* exit_evt_.set_permanent()
FlagExit(r) ==
    /\ run[r] = "returned"
    /\ run' = [run EXCEPT ![r] = "done"]
    /\ exited' = TRUE
    /\ UNCHANGED <<entry, started, tid, cancel, client, object, patient>>

-----------------------------------------------------------------------------
\* stop() by client c: false unless started and not exited.  The run may end
\* between this test and the cancellation.
StopTest(c) ==
    /\ object = "alive"
    /\ client[c] = "idle"
    /\ started /\ ~exited
    /\ client' = [client EXCEPT ![c] = "cancel"]
    /\ UNCHANGED <<entry, started, exited, tid, run, cancel, object, patient>>

StopCancel(c) ==
    /\ client[c] = "cancel"
    /\ cancel' = cancel \cup {tid}
    /\ client' = [client EXCEPT ![c] = "wait"]
    /\ UNCHANGED <<entry, started, exited, tid, run, object, patient>>

\* exit_evt_.wait(50) has an answer; a time-out looks the same to the object.
StopDone(c) ==
    /\ client[c] = "wait"
    /\ client' = [client EXCEPT ![c] = "idle"]
    /\ UNCHANGED <<entry, started, exited, tid, run, cancel, object, patient>>

\* Mutant: the destructor joins without cancelling.
DeletePatiently ==
    /\ object = "alive"
    /\ \A c \in Client : client[c] = "idle"
    /\ patient => started
    /\ object' = "closing"
    /\ UNCHANGED <<entry, started, exited, tid, run, cancel, client, patient>>

\* ~impl() begins: nobody else uses the object.  Its stop() cancels a thread
\* that runs.
Delete ==
    /\ object = "alive"
    /\ \A c \in Client : client[c] = "idle"
    /\ patient => started
    /\ object' = "closing"
    /\ cancel' = IF started /\ ~exited THEN cancel \cup {tid} ELSE cancel
    /\ UNCHANGED <<entry, started, exited, tid, run, client, patient>>

\* Mutant: the destructor does not join.
JoinNot ==
    /\ object = "closing"
    /\ object' = "gone"
    /\ UNCHANGED <<entry, started, exited, tid, run, cancel, client, patient>>

\* is_started() is asked again: a thread that started is joined, one that has
\* not is left alone.
Join ==
    /\ \/ object = "closing" /\ started /\ tid # NoRun /\ object' = "joining"
       \/ object = "closing" /\ (~started \/ tid = NoRun) /\ object' = "gone"
       \/ object = "joining" /\ run[tid] = "done" /\ object' = "gone"
    /\ UNCHANGED <<entry, started, exited, tid, run, cancel, client, patient>>

-----------------------------------------------------------------------------
RunStep(r) == Begin(r) \/ Return(r) \/ Cancelled(r) \/ FlagExit(r)

TNext ==
    \/ SetEntry
    \/ Start
    \/ Delete
    \/ Join
    \/ \E r \in Run : RunStep(r)
    \/ \E c \in Client : StopTest(c) \/ StopCancel(c) \/ StopDone(c)

\* Threads are scheduled, and a cancelled callback reaches a cancellation point;
\* a callback need not return by itself.
TFairness ==
    /\ WF_tvars(Join)
    /\ \A r \in Run : /\ WF_tvars(Begin(r)) /\ WF_tvars(Cancelled(r))
                      /\ WF_tvars(FlagExit(r))

TSpec == TInit /\ [][TNext]_tvars /\ TFairness

-----------------------------------------------------------------------------
(* Properties.                                                             *)

\* Every variable has its type.
TTypeOK ==
    /\ entry \in BOOLEAN /\ started \in BOOLEAN /\ exited \in BOOLEAN
    /\ tid \in Run \cup {NoRun}
    /\ run \in [Run -> {"none", "launched", "running", "returned", "done"}]
    /\ cancel \subseteq Run
    /\ client \in [Client -> {"idle", "cancel", "wait"}]
    /\ object \in {"alive", "closing", "joining", "gone"}
    /\ patient \in BOOLEAN

\* The exit event is permanent only when no run of the object is in the callback
\* any more (is_exited(): "return true if the thread has exited").
ExitMeansDone ==
    (patient /\ exited) => \A r \in Run : run[r] \notin {"launched", "running"}

\* The object outlives its thread, however it ends: nothing touches the object
\* after the destructor.
NoRunAfterDelete ==
    (patient /\ object = "gone") => \A r \in Run : run[r] \in {"none", "done"}

\* A stop() that finds the thread running ends it, and the exit event tells.
StopWorks ==
    (patient /\ \E c \in Client : client[c] = "wait") ~> exited

\* The destructor returns.
DestructorEnds == (patient /\ object = "closing") ~> (object = "gone")
=============================================================================
