------------------------------- MODULE UdpRecvr ------------------------------
(***************************************************************************)
(* The message path of a UDP server (comm/udp_recvr.cc): the receiver      *)
(* thread, recvr::operator(), fills the circular buffer msgs_; the workers *)
(* of the thread pool run a msg_handler (hello, auth or data handler) for  *)
(* every notification of msgs_.ev_.  CircBuf is the buffer; msgs_.mtx_     *)
(* guards it, except while the receiver writes the slot it has prepared.   *)
(* The pool is a fixed set of workers here, and ev_ the counting semaphore *)
(* that Event is proved to be; ThrPool has the life of the workers.        *)
(***************************************************************************)
EXTENDS CircBuf, FiniteSets

CONSTANTS Worker,      \* threads of the pool
          Nobody,      \* msgs_.mtx_ is free
          MaxInbox     \* bound on the datagrams queued in the socket

ASSUME WorkerAssumption == IsFiniteSet(Worker) /\ Nobody \notin Worker

VARIABLES inbox,     \* datagrams in the socket: "data" or "empty"
          recv,      \* where the receiver thread is
          work,      \* where each worker is
          reading,   \* the slot a worker is copying from (0: none)
          mtx,       \* who holds msgs_.mtx_
          pending,   \* notifications available in msgs_.ev_
          stopMe     \* recvr::stop_me_

rvars == <<vars, inbox, recv, work, reading, mtx, pending, stopMe>>

Buffer == vars
Threads == <<recv, work, reading, mtx>>

RInit ==
    /\ Init
    /\ inbox = <<>>
    /\ recv = "loop"
    /\ work = [w \in Worker |-> "wait"]
    /\ reading = [w \in Worker |-> NoSlot]
    /\ mtx = Nobody
    /\ pending = 0
    /\ stopMe = FALSE

\* The network (external): a datagram arrives, possibly an empty one.
Arrive(kind) ==
    /\ Len(inbox) < MaxInbox
    /\ inbox' = Append(inbox, kind)
    /\ UNCHANGED <<Buffer, Threads, pending, stopMe>>

-----------------------------------------------------------------------------
\* The receiver thread.

\* The loop: stop_me() ends it, and so does a select() error.  A time-out goes
\* round again.
Select ==
    /\ recv = "loop"
    /\ \/ stopMe /\ recv' = "done"
       \/ ~stopMe /\ inbox # <<>> /\ recv' = "prepare"
       \/ ~stopMe /\ recv' = "done"
    /\ UNCHANGED <<Buffer, inbox, work, reading, mtx, pending, stopMe>>

\* msgs_.prepare() under the lock
RecvPrepare ==
    /\ recv = "prepare"
    /\ mtx = Nobody
    /\ Prepare
    /\ recv' = "receive"
    /\ UNCHANGED <<inbox, work, reading, mtx, pending, stopMe>>

\* recvfrom() into the prepared slot, without the lock.  An error leaves the
\* loop and the slot on preplist_.
Receive ==
    /\ recv = "receive"
    /\ \/ /\ inbox # <<>>
          /\ inbox' = Tail(inbox)
          /\ recv' = IF Head(inbox) = "empty" THEN "rollback" ELSE "commit"
       \/ recv' = "done" /\ UNCHANGED inbox
    /\ UNCHANGED <<Buffer, work, reading, mtx, pending, stopMe>>

\* Mutant: on_new_item() is called only for the first item.
RecvCommitFirst ==
    /\ recv = "commit"
    /\ mtx = Nobody
    /\ Commit(Head(prepared))
    /\ pending' = IF nItems = 0 THEN pending + 1 ELSE pending
    /\ recv' = "loop"
    /\ UNCHANGED <<inbox, work, reading, mtx, stopMe>>

\* msgs_.commit(m) under the lock; on_new_item() notifies ev_.
RecvCommit ==
    /\ recv = "commit"
    /\ mtx = Nobody
    /\ Commit(Head(prepared))
    /\ pending' = pending + 1
    /\ recv' = "loop"
    /\ UNCHANGED <<inbox, work, reading, mtx, stopMe>>

RecvRollback ==
    /\ recv = "rollback"
    /\ mtx = Nobody
    /\ Rollback(Head(prepared))
    /\ recv' = "loop"
    /\ UNCHANGED <<inbox, work, reading, mtx, pending, stopMe>>

\* recvr::stop() sets stop_me_; what graceful_stop() does next to the workers is
\* WorkerLeaves here and in full in ThrPool.
Stop ==
    /\ ~stopMe
    /\ stopMe' = TRUE
    /\ UNCHANGED <<Buffer, inbox, Threads, pending>>

-----------------------------------------------------------------------------
\* The workers.

\* ev_->wait() returns true, the handler is called.
Wake(w) ==
    /\ work[w] = "wait"
    /\ pending > 0
    /\ pending' = pending - 1
    /\ work' = [work EXCEPT ![w] = "called"]
    /\ UNCHANGED <<Buffer, inbox, recv, reading, mtx, stopMe>>

\* Mutant: the handler unlocks before it copies the message.
HandlerPopUnlocked(w) ==
    /\ work[w] = "called"
    /\ mtx = Nobody
    /\ nItems > 0
    /\ Pop
    /\ work' = [work EXCEPT ![w] = "copy"]
    /\ reading' = [reading EXCEPT ![w] = EndOf(active)]
    /\ UNCHANGED <<inbox, recv, mtx, pending, stopMe>>

\* Mutant: the handler gives up when the buffer holds a single item.
HandlerPopLast(w) ==
    /\ work[w] = "called"
    /\ mtx = Nobody
    /\ \/ /\ nItems > 1
          /\ Pop
          /\ mtx' = w
          /\ work' = [work EXCEPT ![w] = "copy"]
          /\ reading' = [reading EXCEPT ![w] = EndOf(active)]
       \/ /\ nItems <= 1
          /\ work' = [work EXCEPT ![w] = "wait"]
          /\ UNCHANGED <<Buffer, reading, mtx>>
    /\ UNCHANGED <<inbox, recv, pending, stopMe>>

\* The handler locks the buffer and pops the oldest message, or returns if
\* n_items() says that there is none.
HandlerPop(w) ==
    /\ work[w] = "called"
    /\ mtx = Nobody
    /\ \/ /\ nItems > 0
          /\ Pop
          /\ mtx' = w
          /\ work' = [work EXCEPT ![w] = "copy"]
          /\ reading' = [reading EXCEPT ![w] = EndOf(active)]
       \/ /\ nItems = 0
          /\ work' = [work EXCEPT ![w] = "wait"]
          /\ UNCHANGED <<Buffer, reading, mtx>>
    /\ UNCHANGED <<inbox, recv, pending, stopMe>>

\* m.copy_to(ms), still under the lock, which is released then.
HandlerCopied(w) ==
    /\ work[w] = "copy"
    /\ work' = [work EXCEPT ![w] = "handle"]
    /\ reading' = [reading EXCEPT ![w] = NoSlot]
    /\ mtx' = IF mtx = w THEN Nobody ELSE mtx
    /\ UNCHANGED <<Buffer, inbox, recv, pending, stopMe>>

\* The rest of the handler works on its own copy.
HandlerDone(w) ==
    /\ work[w] = "handle"
    /\ work' = [work EXCEPT ![w] = "wait"]
    /\ UNCHANGED <<Buffer, inbox, recv, reading, mtx, pending, stopMe>>

\* graceful_stop(), called by recvr::stop() and at the end of the receiver
\* thread, flags the workers and sends each a notification of its own.
WorkerLeaves(w) ==
    /\ work[w] = "wait"
    /\ stopMe \/ recv = "done"
    /\ work' = [work EXCEPT ![w] = "gone"]
    /\ UNCHANGED <<Buffer, inbox, recv, reading, mtx, pending, stopMe>>

-----------------------------------------------------------------------------
\* pop() is outside the handlers' try blocks: rs_empty, or the reference to
\* NULL, ends the process, as a hanging commit() ends the receiver.
RNext ==
    /\ Usable
    /\ \/ \E kind \in {"data", "empty"} : Arrive(kind)
       \/ Select
       \/ RecvPrepare
       \/ Receive
       \/ RecvCommit
       \/ RecvRollback
       \/ Stop
       \/ \E w \in Worker :
             \/ Wake(w) \/ HandlerPop(w) \/ HandlerCopied(w) \/ HandlerDone(w)
             \/ WorkerLeaves(w)

\* The workers run; nothing is assumed of the receiver and the network.  The
\* lock is held for a copy only and is granted in some order.
RFairness ==
    \A w \in Worker :
        /\ WF_rvars(Usable /\ Wake(w))
        /\ SF_rvars(Usable /\ HandlerPop(w))
        /\ WF_rvars(Usable /\ HandlerCopied(w))
        /\ WF_rvars(Usable /\ HandlerDone(w))

RSpec == RInit /\ [][RNext]_rvars /\ RFairness

-----------------------------------------------------------------------------
(* Properties.                                                             *)

\* The receiver never writes into the slot that a handler is copying from,
\* although the slot is back on the free list before it is copied and the
\* receiver writes without the lock.
NoTornMessage ==
    recv = "receive" =>
        \A w \in Worker : reading[w] # Head(prepared)

\* Every stored message has a notification pending, or a worker that has
\* taken one and not yet popped: no message waits for the next one to arrive.
NothingStranded ==
    Usable => Len(active) <= pending
                             + Cardinality({w \in Worker : work[w] = "called"})

\* Every stored message is eventually handed to a handler, or overwritten when
\* the buffer is full; unless a handler has failed or the pool is stopped.
StoredIsConsumed ==
    \A m \in 1..MaxMessages :
        (m \in ToSet(Stored))
            ~> (m \notin ToSet(Stored) \/ ~Usable \/ stopMe \/ recv = "done")
=============================================================================
