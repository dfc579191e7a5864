------------------------------- MODULE TcpLstnr ------------------------------
(***************************************************************************)
(* The TCP server (comm/tcp_lstnr.cc).  A listener thread runs a libev     *)
(* loop; a connection lives in a slot of ev_pool_ and goes round: watched  *)
(* by the loop, pushed to new_data_queue_ when bytes arrive, handled by a  *)
(* worker of the thread pool, pushed to idle_data_queue_ and, after an     *)
(* asynchronous wake-up, watched again.  stop() is called by another       *)
(* thread.  The network and the application's handler are external; the    *)
(* queues are those of Queue, their events the semaphores that Event is    *)
(* proved to be.  The workers are those of ThrPool, with the positions     *)
(* that matter to a connection: the pool grows, and idle workers leave it. *)
(***************************************************************************)
EXTENDS Naturals, Sequences, FiniteSets

CONSTANTS Worker,      \* names for threads of the pool
          First,       \* the min_threads workers that tpool.init() starts
          MaxThreads,  \* max_threads
          Crowd,       \* notifications above which a worker starts another
          Loop,        \* the listener thread
          Stopper,     \* the thread that calls lstnr::stop()
          None,        \* no thread, no connection
          MaxConns,    \* bound on the slots of ev_pool_
          Plans        \* what the world does: see plan

ASSUME ThreadAssumption ==
    /\ IsFiniteSet(Worker) /\ First \subseteq Worker /\ First # {}
    /\ Loop \notin Worker /\ Stopper \notin Worker \cup {Loop}
    /\ None \notin Worker \cup {Loop, Stopper} \cup (0 .. MaxConns - 1)

ASSUME BoundAssumption ==
    /\ MaxConns \in Nat \ {0} /\ MaxThreads \in Nat /\ Crowd \in Nat
    /\ Plans \subseteq [clients : Nat, sends : Nat, stops : BOOLEAN]

Conn == 0 .. MaxConns - 1
Thread == Worker \cup {Loop, Stopper}

VARIABLES
    used,       \* the slots of ev_pool_ in use
    admitted,   \* connections on_connected() accepted and that are not freed
    conn,       \* each slot's socket and bfd: see Fresh
    watched,    \* connections whose watcher is started
    newQ,       \* new_data_queue_
    newReady,   \* notifications available in its event
    idleQ,      \* idle_data_queue_
    idleReady,  \* notifications available in its event
    async,      \* ev_async_send() was called since the last wake-up
    batch,      \* events of this iteration of the loop still to be served
    unloop,     \* ev_unloop() was called
    stopMe,     \* stop_me_
    mtx,        \* who holds mtx_
    cmtx,       \* who holds the mtx_ of each connection
    pc, arg,    \* where each thread is and the connection in its hands
    back,       \* where remove_connection() returns to
    clients,    \* clients that have connected so far
    backlog,    \* of those, the ones not yet accepted
    sends,      \* messages sent so far
    plan        \* bounds of this behaviour: clients that connect, messages they
                \* send, and whether stop() is called; never changes

lvars == <<used, admitted, conn, watched, newQ, newReady, idleQ, idleReady,
           async, batch, unloop, stopMe, mtx, cmtx, pc, arg, back,
           clients, backlog, sends, plan>>

Pool == <<used, admitted, conn>>
Queues == <<newQ, newReady, idleQ, idleReady>>
Events == <<watched, async, batch, unloop>>
Locks == <<mtx, cmtx>>
Env == <<clients, backlog, sends, plan>>

\* A connection's socket (bytes not yet read, the peer has closed or reset it)
\* and its bfd (state() = ok_).
Fresh == [unread |-> 0, eof |-> FALSE, ok |-> TRUE]

\* ~bfd() closes the socket.  A freed slot is still read when a thread has kept
\* the connection beyond a remove_all_connections().
Closed == [Fresh EXCEPT !.ok = FALSE]

LInit ==
    /\ used = {} /\ admitted = {}
    /\ conn = [c \in Conn |-> Closed]
    /\ watched = {}
    /\ newQ = <<>> /\ newReady = 0
    /\ idleQ = <<>> /\ idleReady = 0
    /\ async = FALSE /\ batch = {} /\ unloop = FALSE
    /\ stopMe = FALSE
    /\ mtx = None
    /\ cmtx = [c \in Conn |-> None]
    /\ pc = [t \in Thread |-> CASE t = Loop -> "poll" [] t = Stopper -> "idle"
                                [] t \in First -> "enter" [] OTHER -> "gone"]
    /\ arg = [t \in Thread |-> None]
    /\ back = [t \in Thread |-> "none"]
    /\ clients = 0 /\ backlog = 0 /\ sends = 0
    /\ plan \in Plans

\* Thread t goes on to p, with the same connection or with c in its hands.
Goto(t, p) == pc' = [pc EXCEPT ![t] = p] /\ UNCHANGED arg
GotoWith(t, p, c) ==
    pc' = [pc EXCEPT ![t] = p] /\ arg' = [arg EXCEPT ![t] = c]

-----------------------------------------------------------------------------
\* The network (external).

ClientConnects ==
    /\ clients < plan.clients
    /\ clients' = clients + 1 /\ backlog' = backlog + 1
    /\ UNCHANGED <<Pool, Queues, Events, Locks, stopMe, pc, arg, back, sends,
                   plan>>

ClientSends(c) ==
    /\ sends < plan.sends
    /\ c \in used /\ ~conn[c].eof /\ conn[c].ok
    /\ sends' = sends + 1
    /\ conn' = [conn EXCEPT ![c].unread = @ + 1]
    /\ UNCHANGED <<used, admitted, Queues, Events, Locks, stopMe, pc, arg, back,
                   clients, backlog, plan>>

ClientCloses(c) ==
    /\ c \in used /\ ~conn[c].eof
    /\ conn' = [conn EXCEPT ![c].eof = TRUE]
    /\ UNCHANGED <<used, admitted, Queues, Events, Locks, stopMe, pc, arg, back,
                   Env>>

-----------------------------------------------------------------------------
\* ev_loop(): an iteration collects what is ready and serves it, in any order;
\* an ev_unloop() of one of its callbacks ends the loop after the iteration.

Readable(c) == conn[c].unread > 0 \/ conn[c].eof

Ready == {<<"io", c>> : c \in {d \in watched \cap used : Readable(d)}}
            \cup (IF backlog > 0 /\ Cardinality(used) < MaxConns
                  THEN {<<"accept", None>>} ELSE {})
            \cup (IF async THEN {<<"pipe", None>>} ELSE {})

\* loop_done is reset around the blocking call, by the side effect of an assert
\* that NDEBUG leaves out: an ev_unloop() of another thread is lost there.
Poll ==
    /\ pc[Loop] = "poll"
    /\ Ready # {}
    /\ batch' = Ready
    /\ unloop' \in {unloop, FALSE}
    /\ Goto(Loop, "dispatch")
    /\ UNCHANGED <<Pool, Queues, watched, async, Locks, stopMe, back, Env>>

\* ... unless it comes before the test of loop_done that precedes that call.
LoopBreaks ==
    /\ pc[Loop] = "poll" /\ unloop
    /\ Goto(Loop, "unlooped")
    /\ UNCHANGED <<Pool, Queues, Events, Locks, stopMe, back, Env>>

EndIteration ==
    /\ pc[Loop] = "dispatch" /\ batch = {}
    /\ Goto(Loop, IF unloop THEN "unlooped" ELSE "poll")
    /\ UNCHANGED <<Pool, Queues, Events, Locks, stopMe, back, Env>>

Dispatch(kind, c) ==
    /\ pc[Loop] = "dispatch"
    /\ <<kind, c>> \in batch
    /\ batch' = batch \ {<<kind, c>>}

\* pipecb(): the wake-up becomes an event of the same iteration; one that is sent
\* from now on is for the next.
PipeCb ==
    /\ pc[Loop] = "dispatch"
    /\ <<"pipe", None>> \in batch
    /\ batch' = (batch \ {<<"pipe", None>>}) \cup {<<"async", None>>}
    /\ async' = FALSE
    /\ UNCHANGED <<Pool, Queues, watched, unloop, Locks, stopMe, pc, arg, back, Env>>

-----------------------------------------------------------------------------
\* accept_cb: a free slot is set, on_connected() is asked under the lock of the
\* connection, and the watcher is started.

\* accept() itself may fail, which leaves everything as it was.
AcceptCb ==
    /\ Dispatch("accept", None)
    /\ \/ /\ mtx = None
          /\ LET c == CHOOSE d \in Conn \ used : \A e \in Conn \ used : d <= e
             IN  /\ used' = used \cup {c}
                 /\ conn' = [conn EXCEPT ![c] = Fresh]
                 /\ cmtx' = [cmtx EXCEPT ![c] = None]
                 /\ GotoWith(Loop, "accepted", c)
          /\ backlog' = backlog - 1
       \/ UNCHANGED <<used, conn, cmtx, pc, arg, backlog>>
    /\ UNCHANGED <<admitted, Queues, watched, async, unloop, mtx, stopMe, back,
                   clients, sends, plan>>

OnConnected ==
    /\ pc[Loop] = "accepted"
    /\ cmtx[arg[Loop]] = None
    /\ cmtx' = [cmtx EXCEPT ![arg[Loop]] = Loop]
    /\ Goto(Loop, "connecting")
    /\ UNCHANGED <<Pool, Queues, Events, mtx, stopMe, back, Env>>

\* What the application may have done to a connection whose bfd it was given: it
\* has read what the socket has or left it, and met an end of the stream or not
\* when it read on or answered.
AppReads(r) ==
    {[r EXCEPT !.unread = n, !.ok = @ /\ good] :
        n \in {0, r.unread}, good \in {TRUE, ~r.eof}}

OnConnectedReturns ==
    /\ pc[Loop] = "connecting"
    /\ \E r \in AppReads(conn[arg[Loop]]) : conn' = [conn EXCEPT ![arg[Loop]] = r]
    /\ cmtx' = [cmtx EXCEPT ![arg[Loop]] = None]
    /\ \E p \in {"admit", "refuse"} : Goto(Loop, p)
    /\ UNCHANGED <<used, admitted, Queues, Events, mtx, stopMe, back, Env>>

Admit ==
    /\ pc[Loop] = "admit"
    /\ mtx = None
    /\ watched' = watched \cup {arg[Loop]}
    /\ admitted' = admitted \cup {arg[Loop]}
    /\ GotoWith(Loop, "dispatch", None)
    /\ UNCHANGED <<used, conn, Queues, async, batch, unloop, Locks, stopMe, back,
                   Env>>

\* evit_ptr->free(): the iterator has gone out of scope by then, so that the slot
\* is freed if its memory is untouched, and may as well stay in use.
Refuse ==
    /\ pc[Loop] = "refuse"
    /\ mtx = None
    /\ \/ /\ used' = used \ {arg[Loop]}
          /\ conn' = [conn EXCEPT ![arg[Loop]] = Closed]
       \/ UNCHANGED <<used, conn>>
    /\ GotoWith(Loop, "dispatch", None)
    /\ UNCHANGED <<admitted, Queues, Events, Locks, stopMe, back, Env>>

-----------------------------------------------------------------------------
\* new_data_cb: stop the watcher, read without waiting, and hand the connection
\* to the workers; a bfd that is not ok any more is reported and removed.

\* recv_some(0) (Bfd): all the socket has.  When the bytes fill the reservation
\* exactly it reads once more, and an end of stream met then closes the bfd with
\* the bytes still in its buffer.
Received(r) ==
    LET all == [r EXCEPT !.unread = 0]
    IN  (IF r.unread > 0 THEN {all} ELSE {})
            \cup (IF ~r.ok THEN {r} ELSE {})
            \cup (IF r.eof THEN {[all EXCEPT !.ok = FALSE]} ELSE {})

\* Mutant: the watcher stays started.
NewDataCbWatched(c) ==
    /\ Dispatch("io", c)
    /\ \E r \in Received(conn[c]) :
          /\ conn' = [conn EXCEPT ![c] = r]
          /\ IF r.ok THEN /\ newQ' = Append(newQ, c)
                          /\ GotoWith(Loop, "notifyNew", None)
                          /\ UNCHANGED back
                     ELSE /\ GotoWith(Loop, "remove", c)
                          /\ back' = [back EXCEPT ![Loop] = "dispatch"]
                          /\ UNCHANGED newQ
    /\ UNCHANGED <<used, admitted, newReady, idleQ, idleReady, watched, async,
                   unloop, Locks, stopMe, Env>>

NewDataCb(c) ==
    /\ Dispatch("io", c)
    /\ watched' = watched \ {c}
    /\ \E r \in Received(conn[c]) :
          /\ conn' = [conn EXCEPT ![c] = r]
          /\ IF r.ok THEN /\ newQ' = Append(newQ, c)
                          /\ GotoWith(Loop, "notifyNew", None)
                          /\ UNCHANGED back
                     ELSE /\ GotoWith(Loop, "remove", c)
                          /\ back' = [back EXCEPT ![Loop] = "dispatch"]
                          /\ UNCHANGED newQ
    /\ UNCHANGED <<used, admitted, newReady, idleQ, idleReady, async, unloop,
                   Locks, stopMe, Env>>

\* queue::push() calls on_new_item() after it has unlocked the queue.
NotifyNew ==
    /\ pc[Loop] = "notifyNew"
    /\ newReady' = newReady + 1
    /\ Goto(Loop, "dispatch")
    /\ UNCHANGED <<Pool, newQ, idleQ, idleReady, Events, Locks, stopMe, back, Env>>

-----------------------------------------------------------------------------
\* wakeup_cb

WakeupCb ==
    /\ Dispatch("async", None)
    /\ mtx = None
    /\ Goto(Loop, IF stopMe THEN "drain" ELSE "requeue")
    /\ UNCHANGED <<Pool, Queues, watched, async, unloop, Locks, stopMe, back, Env>>

Requeue ==
    /\ pc[Loop] = "requeue" /\ idleQ # <<>>
    /\ idleQ' = Tail(idleQ)
    /\ watched' = watched \cup {Head(idleQ)}
    /\ Goto(Loop, "waitNb")
    /\ UNCHANGED <<Pool, newQ, newReady, idleReady, async, batch, unloop, Locks,
                   stopMe, back, Env>>

\* wait_nb() takes the notification of the popped connection; when it is not
\* there yet the code reports rs_internal_state and goes on.
WaitNb ==
    /\ pc[Loop] = "waitNb"
    /\ idleReady' = IF idleReady = 0 THEN 0 ELSE idleReady - 1
    /\ Goto(Loop, "requeue")
    /\ UNCHANGED <<Pool, newQ, newReady, idleQ, Events, Locks, stopMe, back, Env>>

RequeueDone ==
    /\ pc[Loop] = "requeue" /\ idleQ = <<>>
    /\ Goto(Loop, "dispatch")
    /\ UNCHANGED <<Pool, Queues, Events, Locks, stopMe, back, Env>>

-----------------------------------------------------------------------------
\* remove_connection() and remove_all_connections(), by thread t.  mtx_ is
\* recursive.  The watcher of a removed connection is not stopped.

RemoveLock(t) ==
    /\ pc[t] = "remove"
    /\ mtx = None
    /\ mtx' = t
    /\ Goto(t, "free")
    /\ UNCHANGED <<Pool, Queues, Events, cmtx, stopMe, back, Env>>

FreeAt(t) ==
    /\ pc[t] = "free"
    /\ cmtx[arg[t]] \in {None, t}
    /\ used' = used \ {arg[t]}
    /\ admitted' = admitted \ {arg[t]}
    /\ conn' = [conn EXCEPT ![arg[t]] = Closed]
    /\ cmtx' = [cmtx EXCEPT ![arg[t]] = None]
    /\ mtx' = IF back[t] = "sweep" THEN t ELSE None
    /\ GotoWith(t, back[t], None)
    /\ back' = [back EXCEPT ![t] = "none"]
    /\ UNCHANGED <<Queues, Events, stopMe, Env>>

\* The idle connections first ...
Drain(t) ==
    /\ pc[t] = "drain" /\ idleQ # <<>>
    /\ idleQ' = Tail(idleQ)
    /\ GotoWith(t, "remove", Head(idleQ))
    /\ back' = [back EXCEPT ![t] = "drain"]
    /\ UNCHANGED <<Pool, newQ, newReady, idleReady, Events, Locks, stopMe, Env>>

DrainDone(t) ==
    /\ pc[t] = "drain" /\ idleQ = <<>>
    /\ mtx = None
    /\ mtx' = t
    /\ Goto(t, "sweep")
    /\ UNCHANGED <<Pool, Queues, Events, cmtx, stopMe, back, Env>>

\* ... then those in use.  next_used() starts after begin(): slot 0 is passed over.
Swept == used \ {0}

Sweep(t) ==
    /\ pc[t] = "sweep" /\ Swept # {}
    /\ GotoWith(t, "free", CHOOSE c \in Swept : \A d \in Swept : c <= d)
    /\ back' = [back EXCEPT ![t] = "sweep"]
    /\ UNCHANGED <<Pool, Queues, Events, Locks, stopMe, Env>>

\* In wakeup_cb ev_unloop() follows; in stop() the third wait.
SweepDone(t) ==
    /\ pc[t] = "sweep" /\ Swept = {}
    /\ mtx' = None
    /\ IF t = Loop THEN unloop' = TRUE /\ Goto(t, "dispatch")
                   ELSE Goto(t, "wait3") /\ UNCHANGED unloop
    /\ UNCHANGED <<Pool, Queues, watched, async, batch, cmtx, stopMe, back, Env>>

RemoveStep(t) ==
    \/ RemoveLock(t) \/ FreeAt(t) \/ Drain(t) \/ DrainDone(t)
    \/ Sweep(t) \/ SweepDone(t)

-----------------------------------------------------------------------------
\* The workers: entry::operator() of the pool, data_handler::operator() and
\* process_data_cb.  A worker is "gone" when its thread does not exist, and at
\* "enter" and "leave" before on_entry() and before on_exit().

Present == {w \in Worker : pc[w] # "gone"}          \* threads_
Counted == {w \in Present : pc[w] # "enter"}        \* count_

Enter(w) ==
    /\ pc[w] = "enter"
    /\ Goto(w, "wait")
    /\ UNCHANGED <<Pool, Queues, Events, Locks, stopMe, back, Env>>

Wake(w) ==
    /\ pc[w] = "wait" /\ newReady > 0
    /\ newReady' = newReady - 1
    /\ Goto(w, "help")
    /\ UNCHANGED <<Pool, newQ, idleQ, idleReady, Events, Locks, stopMe, back, Env>>

Help(w) ==
    /\ pc[w] = "help"
    /\ Goto(w, IF /\ newReady > Crowd
                  /\ Cardinality(Counted) < MaxThreads
                  /\ Cardinality(Present) < MaxThreads
               THEN "spawn" ELSE "pop")
    /\ UNCHANGED <<Pool, Queues, Events, Locks, stopMe, back, Env>>

\* start_one() launches a thread, or fails; the worker goes on all the same.
StartOne(w) ==
    /\ pc[w] = "spawn"
    /\ \/ pc' = [pc EXCEPT ![w] = "pop"]
       \/ /\ Cardinality(Counted) <= MaxThreads
          /\ \E v \in Worker \ Present :
                pc' = [pc EXCEPT ![w] = "pop", ![v] = "enter"]
    /\ UNCHANGED <<Pool, Queues, Events, Locks, stopMe, arg, back, Env>>

\* The last of attempts time-outs in a row, even if a notification has just
\* arrived (see Event): the worker reads count() and leaves if there are more
\* than min_threads.  One that stays waits again.
Idle(w) ==
    /\ pc[w] = "wait"
    /\ Cardinality(Counted) > Cardinality(First)
    /\ Goto(w, "leave")
    /\ UNCHANGED <<Pool, Queues, Events, Locks, stopMe, back, Env>>

PopNew(w) ==
    /\ pc[w] = "pop"
    /\ IF newQ = <<>> THEN Goto(w, "wait") /\ UNCHANGED newQ
                      ELSE /\ newQ' = Tail(newQ)
                           /\ GotoWith(w, "lock", Head(newQ))
    /\ UNCHANGED <<Pool, newReady, idleQ, idleReady, Events, Locks, stopMe, back,
                   Env>>

LockConn(w) ==
    /\ pc[w] = "lock"
    /\ cmtx[arg[w]] = None
    /\ cmtx' = [cmtx EXCEPT ![arg[w]] = w]
    /\ Goto(w, "callback")
    /\ UNCHANGED <<Pool, Queues, Events, mtx, stopMe, back, Env>>

\* Mutant: dta->mtx_ is held until process_data_cb returns.
OnDataArrivalLocked(w) ==
    /\ pc[w] = "callback"
    /\ \E r \in AppReads(conn[arg[w]]) : conn' = [conn EXCEPT ![arg[w]] = r]
    /\ \E p \in {"keep", "drop"} : Goto(w, p)
    /\ UNCHANGED <<used, admitted, Queues, Events, Locks, stopMe, back, Env>>

\* on_data_arrival(), the application, which returns what to do next.
OnDataArrival(w) ==
    /\ pc[w] = "callback"
    /\ \E r \in AppReads(conn[arg[w]]) : conn' = [conn EXCEPT ![arg[w]] = r]
    /\ \E p \in {"keep", "drop"} : Goto(w, p)
    /\ cmtx' = [cmtx EXCEPT ![arg[w]] = None]
    /\ UNCHANGED <<used, admitted, Queues, Events, mtx, stopMe, back, Env>>

GiveUp(w) ==
    /\ \/ pc[w] = "drop"
       \/ pc[w] = "keep" /\ ~conn[arg[w]].ok
    /\ Goto(w, "remove")
    /\ back' = [back EXCEPT ![w] = "wait"]
    /\ UNCHANGED <<Pool, Queues, Events, Locks, stopMe, Env>>

PushIdle(w) ==
    /\ pc[w] = "keep" /\ conn[arg[w]].ok
    /\ idleQ' = Append(idleQ, arg[w])
    /\ GotoWith(w, "notifyIdle", None)
    /\ UNCHANGED <<Pool, newQ, newReady, idleReady, Events, Locks, stopMe, back, Env>>

NotifyIdle(w) ==
    /\ pc[w] = "notifyIdle"
    /\ idleReady' = idleReady + 1
    /\ Goto(w, "send")
    /\ UNCHANGED <<Pool, newQ, newReady, idleQ, Events, Locks, stopMe, back, Env>>

\* Mutant: the wake-up is left out when the loop is not waiting.
AsyncSendIfBlocked(w) ==
    /\ pc[w] = "send"
    /\ async' = (async \/ pc[Loop] = "poll")
    /\ Goto(w, "wait")
    /\ UNCHANGED <<Pool, Queues, watched, batch, unloop, Locks, stopMe, back, Env>>

\* ev_async_send().  Once the listener thread is past ev_loop() nobody is woken,
\* and loop_ may be destroyed already.
AsyncSend(w) ==
    /\ pc[w] = "send"
    /\ async' = TRUE
    /\ Goto(w, "wait")
    /\ UNCHANGED <<Pool, Queues, watched, batch, unloop, Locks, stopMe, back, Env>>

\* The destructor of the pool ends the workers between two calls of the handler.
Leave(w) ==
    /\ pc[w] = "wait" /\ pc[Loop] = "join"
    /\ Goto(w, "leave")
    /\ UNCHANGED <<Pool, Queues, Events, Locks, stopMe, back, Env>>

\* on_exit() and the end of the thread
WorkerExits(w) ==
    /\ pc[w] = "leave"
    /\ Goto(w, "gone")
    /\ UNCHANGED <<Pool, Queues, Events, Locks, stopMe, back, Env>>

-----------------------------------------------------------------------------
\* The end of listener_entry_cb: ev_loop_destroy(), loop_ = 0, then the pool's
\* destructor, which waits for the workers; and stop() with its three waits.

DestroyLoop ==
    /\ pc[Loop] = "unlooped"
    /\ watched' = {}
    /\ Goto(Loop, "join")
    /\ UNCHANGED <<Pool, Queues, async, batch, unloop, Locks, stopMe, back, Env>>

ListenerExits ==
    /\ pc[Loop] = "join" /\ Present = {}
    /\ Goto(Loop, "exited")
    /\ UNCHANGED <<Pool, Queues, Events, Locks, stopMe, back, Env>>

Stop ==
    /\ pc[Stopper] = "idle" /\ plan.stops
    /\ mtx = None
    /\ stopMe' = TRUE
    /\ async' = TRUE
    /\ Goto(Stopper, "wait1")
    /\ UNCHANGED <<Pool, Queues, watched, batch, unloop, Locks, back, Env>>

\* exit_event().wait() returned true
StopSeesExit ==
    /\ pc[Stopper] \in {"wait1", "wait2", "wait3"}
    /\ pc[Loop] = "exited"
    /\ Goto(Stopper, "done")
    /\ UNCHANGED <<Pool, Queues, Events, Locks, stopMe, back, Env>>

StopUnloops ==
    /\ pc[Stopper] = "wait1" /\ pc[Loop] # "exited"
    /\ unloop' = TRUE
    /\ Goto(Stopper, "wait2")
    /\ UNCHANGED <<Pool, Queues, watched, async, batch, Locks, stopMe, back, Env>>

StopRemovesAll ==
    /\ pc[Stopper] = "wait2" /\ pc[Loop] # "exited"
    /\ Goto(Stopper, "drain")
    /\ UNCHANGED <<Pool, Queues, Events, Locks, stopMe, back, Env>>

\* listener_thread_.stop() (Thread)
StopKills ==
    /\ pc[Stopper] = "wait3" /\ pc[Loop] # "exited"
    /\ pc' = [pc EXCEPT ![Stopper] = "done", ![Loop] = "killed"]
    /\ UNCHANGED <<Pool, Queues, Events, Locks, stopMe, arg, back, Env>>

-----------------------------------------------------------------------------
Network == ClientConnects \/ \E c \in Conn : ClientSends(c) \/ ClientCloses(c)

LoopStep ==
    \/ Poll \/ PipeCb \/ EndIteration
    \/ AcceptCb \/ OnConnected \/ OnConnectedReturns \/ Admit \/ Refuse
    \/ \E c \in Conn : NewDataCb(c)
    \/ NotifyNew
    \/ WakeupCb \/ Requeue \/ WaitNb \/ RequeueDone
    \/ RemoveStep(Loop)
    \/ DestroyLoop \/ ListenerExits

WorkerStep(w) ==
    \/ Enter(w) \/ Wake(w) \/ Help(w) \/ StartOne(w)
    \/ PopNew(w) \/ LockConn(w) \/ OnDataArrival(w)
    \/ GiveUp(w) \/ PushIdle(w) \/ NotifyIdle(w) \/ AsyncSend(w)
    \/ RemoveStep(w) \/ Leave(w) \/ WorkerExits(w)

\* A wait of stop() that expires
StopTimesOut == StopUnloops \/ StopRemovesAll \/ StopKills

StopStep == StopSeesExit \/ RemoveStep(Stopper)

LNext ==
    \/ Network
    \/ LoopStep \/ LoopBreaks
    \/ \E w \in Worker : WorkerStep(w) \/ Idle(w)
    \/ Stop \/ StopStep \/ StopTimesOut

LSpec ==
    /\ LInit /\ [][LNext]_lvars
    /\ WF_lvars(LoopStep)
    /\ \A w \in Worker : WF_lvars(WorkerStep(w))
    /\ WF_lvars(StopStep)

-----------------------------------------------------------------------------
\* Properties.

\* Everything that will do something with connection c.
HeldBy(c) ==
    (IF c \in watched THEN {<<"watched", 0>>} ELSE {})
        \cup {<<"new", i>> : i \in {j \in DOMAIN newQ : newQ[j] = c}}
        \cup {<<"idle", i>> : i \in {j \in DOMAIN idleQ : idleQ[j] = c}}
        \cup {<<"thread", t>> : t \in {u \in Thread : arg[u] = c}}

\* Until stop() is called a connection that on_connected() accepted is in exactly
\* one pair of hands: watched by the loop, in new_data_queue_, with a worker, in
\* idle_data_queue_ or in a callback of the loop; and no hand holds a slot that
\* is free.  This is what lets new_data_cb use the bfd without a lock and
\* remove_connection free it, and what makes the calls of the handler for one
\* connection follow each other.
OneOwner ==
    stopMe \/ \A c \in Conn :
                 /\ c \in admitted => Cardinality(HeldBy(c)) = 1
                 /\ HeldBy(c) # {} => c \in used

\* For bytes that arrive on an accepted connection on_data_arrival() is called,
\* unless the connection is removed, the listener stopped, or the pool has lost
\* its last worker: neither the two queues nor the wake-up of the loop nor
\* workers that come and go lose a connection.  (Workers that read the same
\* count() may all leave, and only workers start workers.)
DataHandled ==
    \A c \in Conn :
        (c \in admitted /\ conn[c].unread > 0)
            ~> \/ stopMe \/ c \notin admitted \/ Present = {}
               \/ \E w \in Worker : pc[w] = "callback" /\ arg[w] = c

\* stop() gets the listener thread to end and returns, whatever the workers are
\* doing: the removal of all connections under mtx_ waits for no thread that
\* waits for mtx_.
StopEnds == stopMe ~> (pc[Stopper] = "done" /\ pc[Loop] \in {"exited", "killed"})

\* "this should not happen": the event of idle_data_queue_ has a notification
\* for every connection that wakeup_cb pops.  This does not hold.
IdleEventInStep == pc[Loop] = "waitNb" => idleReady > 0
=============================================================================
