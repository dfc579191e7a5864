# codesloop: verification project

codesloop is a C++ library for network servers: threads and notification
objects (`nthread/`), containers and value types (`common/`), UDP and TCP servers
(`comm/`), a SQLite layer (`db/`), remote procedure calls (`rpc/`), tables of a
job scheduler (`sched/`) and wrappers of cryptographic primitives (`sec/`).
This directory holds TLA+ modules that model its concurrent core, the containers
it is built on and the database transactions, the TLC configurations that check them on small instances, and proofs that TLAPS checks.

Paths below are relative to the repository. `PROJECT.json` maps every definition
to the source lines it stands for and lists hazards, findings and theorems.

## 1. Inventory

### 1.1 Components, their state and operations

| component | state | operations | interacts with |
|---|---|---|---|
| `nthread::event` (`event_impl_pthread.cc`) | `available_`, `waiting_`, `invalid_`, a pthread mutex and condition variable | `notify(n)`, `notify_all`, `wait(timeout)`, `wait_nb`, `clear_available`, the destructor | everything threaded waits on one |
| `nthread::pevent` | the same and `permanent_` | also `set_permanent`, `clear_permanent`, `is_permanent` | the start and exit events of `thread` |
| `nthread::mutex` | `locked_`, `locked_by_`, `waiting_`, `invalid_`, a pthread key for the emergency unlock | `lock(timeout)`, `try_lock`, `unlock`, `recursive_unlock`, the destructor | guards `thrpool` and the UDP buffer through `scoped_mutex` |
| `nthread::thread` | `tid_`, entry, start and exit `pevent` | `set_entry`, `start`, `stop`, the destructor, `thread_entry_` | `thrpool`, `udp::recvr`, `tcp::lstnr` |
| `nthread::thrpool` | `min_`, `max_`, `count_`, list of threads and entries, `exit_event_`, the caller's `ev_` | `init`, `start_one`, `cleanup`, `graceful_stop`, `unpolite_stop`; in a worker `on_entry`, the loop, `on_exit` | `event`, `mutex`, `thread`, and the handler it calls |
| `common::circbuf` | three lists of slots, `n_items_`, `size_` | `push`, `pop`, `prepare`, `commit`, `rollback`, `newest`, `oldest` | the buffer of `udp::recvr` |
| `udp::recvr` | socket, `msgs_` (circbuf, mutex, event), pool, `stop_me_` | `start`, `stop`, the receiver loop | handlers of the hello, auth and data services |
| UDP hello, auth, data | client: salt, session key, server key; server: a store from salts to session keys, behind callbacks | `hello`, `auth`, `send`, `recv`; `hello_handler`, `auth_handler`, `data_handler` | `recvr`, `sec` |
| `tcp::lstnr` | a libev loop, `ev_pool_` (the connections), `new_data_queue_`, `idle_data_queue_`, `mtx_`, `stop_me_`, a lock per connection | `accept_cb`, `new_data_cb`, `wakeup_cb`, `process_data_cb`, `remove_connection`, `remove_all_connections`, `stop` | `thrpool`, `thread`, `queue`, `bfd`, libev, the application's handler |
| `comm::bfd`, `common::rdbuf`, `tbuf` | `fd_`, `start_`, `len_` and a block of memory that grows | `read`, `recv`, `read_some`, `recv_some`, `read_buf`, `init`, `close`; `get`, `reserve`, `adjust`; `allocate` | a connection of `tcp::lstnr`, sockets of the UDP services |
| `common::queue` | a list of items linked by position, in a vector; handlers that own popped items | `push`, `pop`, `handler::reset`, assignment | both queues of `tcp::lstnr` |
| `common::inpvec` | chunks with bitmaps, `n_items_`, iterators | `set`, `construct`, `push_back`, `first_free`, `free_at`, `reset`, `++`, `next_used` | `queue`, `ev_pool_`, the hash table, the database drivers |
| `db::slt3` | connection (`db_`, `tran_id_`), transactions (`tr_`, `started_`, `do_commit_`, `do_rollback_`), prepared statements | `open`, `close`, `start`, `commit`, `rollback`, destructors, `execute`, `prepare`, `next`, `reset` | SQLite |
| `common` value types, memory pools, `xdrbuf`, logging, hashing | sequential | conversions, allocation, encoding | everywhere |
| `tcp::client`, `preallocated_array` | a socket; an array | connect, pass-through calls; set, get | `bfd` |
| `rpc`, `sched` | under construction | stubs, tables | `tcp`, `db::slt3` |
| `sec` | keys, buffers | wrappers of primitives | UDP auth and data |
| SQLite, libev, AES, UMAC | third party | | |

### 1.2 How they interact

A server is a pipeline. The receiver thread (a `thread`) reserves a slot of the
`circbuf` under a `mutex`, receives into it without the lock, commits it under
the lock, and the commit `notify()`s the buffer's `event`. The workers of a
`thrpool` block in `wait()` of this event and call a handler for each
notification; the handler pops and copies a message under the lock and then
works on its copy. The pool starts further workers when notifications pile up,
lets idle ones go, and is stopped by flags, notifications and, failing that,
cancellation. `thread` tells of its start and its end through `pevent`s.

The TCP server is a ring. The listener thread watches a connection, reads what
has arrived into its `bfd`, stops watching and pushes it to `new_data_queue_`; a
worker of the pool pops it, calls the application under the connection's lock,
and either removes it or pushes it to `idle_data_queue_` and wakes the loop,
which watches it again. The connections are slots of an `inpvec`, the queues
lists in another; `stop()` comes from a third thread.

In the database layer a `tran` sends nothing before its first query: then a main
transaction is a `BEGIN`, a nested one a savepoint, and destructors commit or
roll back what is still started.

### 1.3 What is hard about it

* Everything blocking is built from two counters and a condition variable, with
  spurious wake-ups, time-outs that race notifications, and `pthread_cancel`.
* `thrpool` reads its counters without keeping its lock until it acts on them;
  growth, shrinking, `cleanup` and a stop run at the same time.
* The receiver writes into a slot that is on no list a reader uses, but which
  came from a list where readers leave slots they have not copied yet.
* Error paths: an empty datagram is rolled back, a receive error leaves the
  loop, an empty buffer makes `pop()` fail, `init()` of a running pool stops it.
* Every data packet is looked up under a salt that the one before it announced,
  over a network that loses, repeats and reorders, by several workers at once.
* A TCP connection has no reference count: that nobody else has it is all that
  allows the loop to read it without a lock and anybody to free it.
* A wake-up of the loop may arrive while it serves an earlier one, in the middle of
  draining the very queue the wake-up is about.
* A read buffer that grows by reservations, given back in part, on a block that
  moves; iterators over chunks whose items are freed on the way.
* Transactions whose objects, statements and savepoints in SQLite end in different
  orders, with errors that are thrown, returned or swallowed by a destructor.

`PROJECT.json` lists these, one by one at their lines, under `hazards`.

### 1.4 What makes each component correct

| component | properties |
|---|---|
| `event` | no lost wake-up; `waiting_` bounds the threads inside; timed waits end; it is a counting semaphore |
| `pevent` | the same; a thread stays inside a permanent event only if its notification was taken by another |
| `mutex` | mutual exclusion at the exact recursion depth; no lost wake-up; timed locks end; a free mutex is handed over |
| `thread` | the exit event is not early; the object outlives its thread; `stop()` and the destructor end |
| `thrpool` | `count()` is the workers inside; growth is bounded; a stop ends, reaches every worker it found and leaves none of them serving; backlog is worked off |
| `circbuf` | no slot on two lists, none lost; it is a bounded queue that drops its oldest item only when full |
| `udp::recvr` | no message is torn or stranded; every stored one is consumed |
| UDP protocol | packets of a session are handled in order; both ends agree on the next salt unless a packet was lost; every call is answered when nothing goes wrong |
| `tcp::lstnr` | a connection has one owner at a time; data that arrived is handled; `stop()` ends |
| `inpvec` | a loop visits every item |
| `queue` | first in, first out; a popped item stays what it was while a handler has it; no slot leaks |
| `bfd`, `rdbuf` | the bytes of a stream come out in order, each once |
| `slt3` | nested scopes are nested transactions; none is left open; a started main transaction is the one SQLite is in |

## 2. Modules

| module | models | note |
|---|---|---|
| `Semaphore` | what `event.hh` promises | abstract; implemented by `Event` |
| `Event` | `event::impl` | one action per critical section; positions of a thread inside `wait()` |
| `PEvent` | `pevent::impl` | extends `Event`; the actions that look at `permanent_` are its own |
| `Mutex` | `mutex::impl`, `mutex_unlock_function_` | `scoped` in the initial state tells clients of `scoped_mutex` from clients of the whole interface |
| `MutexProofs` | | proofs about `Mutex` |
| `Thread` | `thread::impl`, `thread_entry_` | `patient` in the initial state: the owner waits for the start event, as the tests do |
| `MCThread` | | `class` in the initial state: `pevent` or `thread` |
| `NThreadProofs` | | proofs about `Event`, `PEvent` and `Thread` |
| `ThrPool`, `MCThrPool` | `thrpool`, `entry::operator()` | `plan` in the initial state: the parameters of `init()` and what the owner does |
| `ThrPoolProofs` | | proofs about `ThrPool` |
| `LossyQueue` | a bounded queue that drops its oldest item | abstract; implemented by `CircBuf` |
| `CircBuf` | `circbuf<T,N>` | |
| `UdpRecvr`, `MCUdpRecvr` | the receiver thread, `msgs_`, the way handlers take messages | extends `CircBuf`; `client` in the initial state: the server, or clients of the bare buffer |
| `UdpRecvrProofs` | | proofs about `CircBuf` and `UdpRecvr`, under the specification of `MCUdpRecvr` |
| `UdpSession`, `MCUdpSession` | `hello_cli`, `auth_cli`, `data_cli`, the three handlers, the session store of `t__udp_data_server.cc` | `plan` in the initial state: what the network, the callbacks and the clients do |
| `UdpSessionProofs` | | proofs about `UdpSession` |
| `TcpLstnr`, `MCTcpLstnr` | `lstnr::impl`, `data_handler`, `conn_queue` | `plan` in the initial state: how many clients and messages, and whether `stop()` is called |
| `TcpLstnrProofs` | | proofs about `TcpLstnr` |
| `InpVec` | `inpvec<T>` with its iterators | |
| `HandedQueue` | a queue whose popped values stay with their handlers | abstract; implemented by `Queue` |
| `Queue` | `queue<T>` and `queue<T>::handler` | extends `InpVec`, where it keeps its items |
| `RdBuf` | `rdbuf` on `tbuf` | operators on a record |
| `Bfd` | `bfd` on a stream | extends `RdBuf` |
| `MCContainers` | | `object` in the initial state: the vector, the queue or the descriptor |
| `ContainersProofs` | | proofs about `InpVec`, `Queue` and `Bfd`, under the specification of `MCContainers` |
| `NestedStore` | nested transactions on a store | abstract; implemented by `Slt3Tran` |
| `Slt3Tran`, `MCSlt3Tran` | `conn::impl`, `tran::impl`, the part of `query::impl` that starts transactions, SQLite's savepoints | `plan` in the initial state: the kind of client, `use_exc_`, bounds |
| `Slt3TranProofs` | | proofs about `Slt3Tran` |

`UdpRecvr` composes the buffer with threads, a lock and an event; there and in
`ThrPool` and `TcpLstnr` an event is a counter, justified by `Event`'s refinement
of `Semaphore`; the queues of `TcpLstnr` are sequences, justified by `Queue`'s of
`HandedQueue`, its connections read what `Bfd` may return, and its slots are those
`InpVec` gives (the lowest free one; `next_used()` passes over the first). `Thread` uses `pevent`s as flags.

### Correspondence of state and actions

* **Event, PEvent.** `available`, `waiting`, `invalid`, `permanent` are the
  members of `impl`. A method is one critical section of `mtx_` and so one
  action; `wait()` is split where it releases the mutex: `WaitTake` (no need to
  block), `WaitBlock`, then `Spurious`, `Expire` or a signal take the thread off
  the queue, and `Resume` is the code after `pthread_cond_wait` has the mutex
  again. `pthread_cond_signal` and `broadcast` are external and choose any queued
  thread. `Cancel` is `pthread_cancel` reaching a thread inside `wait()`: C++
  unwinding unlocks the mutex and skips `--waiting_`. `robbed` counts
  notifications of a permanent event that later waits took; it is not in the code.
* **Mutex.** In the same way; `holds` records what each thread believes it
  holds, which `OwnerHolds` compares with `locked_` and `locked_by_`.
  `ExitHolding` is a thread that ends without unlocking: `mutex_unlock_function_`
  is given an `impl *` and uses it as a `mutex *`, and the model stops there.
* **Thread.** A run is one `pthread_create`; `started` and `exited` are the two
  permanent events. `StopTest` and `StopCancel` are separate because `stop()`
  reads the events before it cancels.
* **ThrPool.** One action per critical section of `mtx_`, and one per unlocked
  read that later decides something: the positions of a worker are listed at the
  head of the module. `lost`, which is not in the code, counts workers that were
  cancelled between `on_entry()` and `on_exit()`.
* **CircBuf.** Lists are sequences of slots. `fault` records how an operation
  failed: `rs_empty`, a reference to no object, or a loop that does not end.
* **UdpRecvr.** The receiver's loop is cut at every lock, unlock and system call.
* **UdpSession.** A client call is two actions, up to `select()` and from the
  packet (or the time-out) on. `auth_handler` is cut between `register_auth_cb_`
  and the answer, `data_handler` at each of its three callbacks, which lock the
  store one at a time. Salts and keys are fresh numbers, a packet opens under the
  key it was made with, and a datagram of a type in `plan.dup` stays in the
  network when it is received. `sent`, `handled`, `repeated` and `gone` are
  histories that the code does not keep. The handlers call back into the user's
  code; the store is the one of the repository's own test server.
* **TcpLstnr.** `pc` is where each thread (the loop, the workers, the caller of
  `stop()`) is between two locks, system calls or calls of the application; `arg`
  is the connection in its hands. `newQ` and `idleQ` are the queues, `newReady` and
  `idleReady` the notifications in their events, which `push()` sends after it has
  unlocked the queue. The loop is that of the vendored `ev.c`: `Poll` collects what
  is ready and `Dispatch` hands it to the callbacks, in any order; `PipeCb` turns a
  wake-up by `ev_async_send()` into an event of the same iteration; an `ev_unloop()`
  is seen after the iteration (`EndIteration`) or before the blocking call
  (`LoopBreaks`), and one that another thread sends during that call is lost.
  `mtx` and `cmtx` are `mtx_` and the locks of the connections; `mtx_` is recursive,
  so a removal inside the sweep keeps it. The workers are those of `ThrPool`: the
  pool begins with `First`, a worker that finds more than `Crowd` notifications starts
  another (`Help`, `StartOne`), and one whose waits have expired reads `count()` and
  leaves (`Idle`, `WorkerExits`), so that none may be left. The pool's destructor is
  `Leave` here and in full in `ThrPool`. What the application does with the `bfd` it
  is given is open (`AppReads`): it reads what is there or leaves it, and meets an
  error or not.
* **InpVec.** Chunks and the bitmaps of their positions are intervals of one range
  of positions and the set of the used ones; `walk`, `it` and `seen` are a loop of
  the user, with the positions it has been at.
* **Queue.** `next`, `head`, `tail` and `hand` are positions of the vector. `lost`,
  which is not in the code, are slots dropped by `handler::operator=`.
* **RdBuf, Bfd.** A buffer is the record of `start_`, `len_`, the block's `size_`,
  its real length and its contents. Memory has definite contents only where bytes
  were written; a byte written behind the end of the block may or may not be found
  again. `internal_read()` is cut at each system call: `Enter` is the code up to
  the first, `ReadFull` goes round, `ReadPart`, `ReadNothing` and `BufferFull`
  leave. Bytes are numbered as they are sent, so order and loss are visible.
* **Slt3Tran.** `sql` is the connection in SQLite 3.6.11: autocommit, whether the
  outermost savepoint is the transaction, the stack of savepoints with what each
  goes back to, and what the connection sees; `Accepts` and `After` are the two
  opcodes that the statements of `tran` compile to. `Start`, `Starts` and `Begun`
  are `start()`, which each query calls. A write may be refused (a constraint, a
  lock), or fail so that SQLite rolls everything back. `close()` and `open()` come at
  any time: whatever the handle was doing is lost with it (`HandleGone`), its
  statements are `"lost"`. `cut`, which is not in the code, is the set of objects that
  are started and whose transaction is gone: by a rollback of SQLite's own, with the
  handle, or by a `COMMIT` or `ROLLBACK` of another object in that set. The two kinds of clients are `NestedClient` (scopes, as
  in the tests) and `AnyClient`. `Scoped` is the first on a connection that throws
  its errors, the default of `use_exc()`: with errors off a refused `COMMIT` resets
  `started_` while SQLite stays in the transaction, and scopes give no nested
  transactions. `Running` lists the started objects, outermost first, and maps them
  to the frames of `NestedStore`.

## 3. Runs

| run | instance | checks | shows |
|---|---|---|---|
| `event` | 3 threads, one cancellable, `available_` up to 4 | `TypeOK`, `NoLostWakeup`, `WaitingBounds`, `ImplementsSemaphore`, `TimedWaitEnds` | holds |
| `mutex` | 3 threads, one cancellable, depth 2 | `OwnerHolds`, `NoLostWakeup`, `TimedLockEnds`, `Handover` | holds |
| `pevent_thread` | `pevent`: 3 threads, one cancellable; `thread`: 2 runs, 2 clients of `stop()` | `NoLostWakeup`, `OnlyRobbedStay`; `ExitMeansDone`, `NoRunAfterDelete`, `StopWorks`, `DestructorEnds` | holds |
| `thrpool` | 5 names; (min, max) = (1,3), (1,2) stopped, (1,1) initialised three times | `CountTracksWorkers`, `OvershootBounded`, `StoppedIsQuiet` | holds |
| `thrpool_liveness` | 2 names; (1,2) stopped, (2,2) | `StopEnds`, `FlaggedLeave`, `BacklogShrinks` | holds |
| `udp_recvr` | capacity 2, 4 messages, 4 slots; 2 workers, or a client of the bare buffer | `SlotsKept`, `NoTornMessage`, `NoneStranded`, `ImplementsLossyQueue`, `StoredIsConsumed` | holds |
| `udp_session` | 1 client, 2 workers, 4 fresh numbers; plans with duplication, failures, loss, one worker | `NoPacketOvertakes`, `SerialAtMostOnce`, `InStep`, `SerialServed` | holds |
| `udp_session_race` | 1 client, 2 workers, nothing goes wrong | `Served` | violated |
| `thrpool_minimum` | 2 names; (1,2), not stopped | `KeepsMinimum` | violated |
| `tcp_lstnr` | 2 slots, a pool of 1 to 2 workers; 2 clients and 2 messages, or a stop with 1 or 2 clients | `OneOwner`, `DataHandled`, `StopEnds` | holds |
| `containers` | vector: words of 1 position, positions 0 to 5; queue: 2 items, 2 handlers, 4 slots; descriptor: a block of 3 bytes that grows to 10, 12 bytes sent | `IncVisitsAll`, `QueueSlots`, `ImplementsHandedQueue`, `StreamIntact` | holds |
| `slt3_tran` | 3 nested scopes with 3 writes and a lock; 3 objects in any order; 2 used again and again, exceptions on or off, the connection closed and opened at any time | `NoTransactionLeftOpen`, `MainOwnsTransaction`, `ImplementsNestedStore` | holds |

`SlotsKept` is `NoDoubleLink`, `CountExact`, `SlotsPartitioned` and
`NothingForgotten` of `CircBuf`, each for the clients it is true of. `TypeOK` of
`CircBuf`, `ThrPool` and `UdpSession`, `PTypeOK` of `PEvent` and `TTypeOK` of
`Thread` are proved (section 4) and are not part of a run.

### Bounds

* Three threads are the least with which one thread can overtake a woken one
  while another is queued; a fourth adds nothing to the argument, which the
  proofs make for any number. `available_` up to 4 reaches all three branches of
  `notify()`: nobody waits, fewer than waiters, at least as many.
* Depth 2 tells the inner from the outer `unlock()`.
* A pool grows with more than two notifications pending, so four are needed to
  take one and see three. Five names cover the overshoot bound
  `2*max_ + min_ - 3 = 4` for max 3 and one name to spare, so that exceeding it
  is possible. `exit_event_` saturates at two, more than a stop of this size
  needs to be misled once. Three `init()`s are what it takes to cancel two
  workers and to have `start_one()` refuse.
* Capacity 2 and four messages let the buffer fill, overwrite and drain twice;
  four slots are the capacity, the prepared slot and one hollow slot.
* Four fresh numbers are a session and three packets, or two sessions (an `auth()`
  that timed out and its repetition) with packets of their own; three in the plan
  with duplication. Sessions do not share salts, so a second client adds nothing.
  Two workers are enough for one to overtake the other. The patient plans have
  neither loss nor time-outs, so that only the handlers' order decides.
* Two connections are the least with which one event of an iteration of the loop
  can concern another connection than the one a worker has; two messages let a
  connection go round twice, so that a second wake-up meets the first. A third
  worker would only repeat what the second one does: the queues keep order. In the
  code a worker starts another when more than two notifications are pending; `Crowd`
  is zero in the run, so that two connections already make the pool grow from one
  worker to two, shrink again, and lose both.
* A vector whose words have one position has chunks of 1, 3 and 5 of them, so
  positions 0 to 5 lie in three chunks and each boundary is crossed; with a wider
  word the chunks are longer and nothing else changes. Four slots let the queue
  use a position again while another handler still holds one.
* A block of 3 bytes that may grow to 10 is filled, doubled, given back in part
  and refused at the limit with 12 bytes sent; the sizes asked for (1, 4, 11) are
  less than a reservation, more than the block, and more than there can be.
* Three scopes are main, nested and doubly nested. The contents of the database are
  tracked for the nested client, with three writes; for objects used in any order
  one write tells committed from rolled back.
* Pools and buffers may come to rest (all workers leave, messages run out, the
  object is destroyed), so deadlock is not checked; liveness properties are.

### Fairness

* A thread that is off the condition variable's queue gets the mutex (weak
  fairness of `Resume`): pthread mutexes are held for a few instructions.
* A deadline is computed once, before the loop, so a thread that keeps returning
  to the queue meets it (strong fairness of `Expire`).
* A worker is scheduled and handlers return; `ev_->wait()` takes a notification
  that is there when it is called, so a worker that keeps coming back does not
  always time out (strong fairness of `Take`). The owner's `graceful_stop()` runs.
* A cancelled thread reaches a cancellation point. A callback need not return.
* `mutex` users unlock (weak fairness of `Unlock`) for `Handover` only.
* In `UdpSession` workers are scheduled and a client that waits reads what is in
  its socket. With a network that loses nothing (`plan.loss` is false) a packet
  in transit stays there until a worker takes it.
* In `TcpLstnr` the loop, each worker and the caller of `stop()` are scheduled, and
  the application's callbacks return. A worker that waits with a notification there
  takes it or leaves; that its time-out is the last one (`Idle`) is possible and not
  assumed. That a wait of `stop()` expires is possible
  and not assumed: `StopEnds` holds whether its later, harsher steps are taken or
  not.
* `InpVec`, `Queue`, `Bfd` and `Slt3Tran` have safety properties only.
* Nothing else is assumed of the network or of the receiver thread.

## 4. Proofs

TLAPS proves, for any finite set of threads and any bounds, what follows. Each
proof has the same shape: an inductive invariant, one lemma per action (or group
of actions) that keeps it, and theorems that read the property off it. All
invariants were checked by TLC on the runs' instances first.

* `NThreadProofs`, `event`: `TypeCorrect` (`available_` and `waiting_` never drop below
  zero), `WaitingWithinBounds`, `NoWakeupIsLost`. The inductive invariant is
  `TypeOK /\ WaitingBounds /\ NoLostWakeup /\ DestroyedEmpty`. `NoLostWakeup`
  needs `WaitingBounds`: `notify()` skips the signal when `waiting_` is zero and
  broadcasts when `available_` reaches it, so `waiting_` must not be less than
  the threads inside. The counting arguments (a set of woken threads grows by
  those that are signalled, shrinks by one that resumes and takes one
  notification with it) rest on lemmas about `Cardinality`, stated first.
  `DestroyedEmpty` says that nobody is queued once the event is destroyed.
  `EventRefinesSemaphore` shows that each step is one of `Semaphore` or leaves it
  alone; the mapping needs the invariant where a waiter resumes.
* `NThreadProofs`, `pevent`: `PTypeCorrect`, `PNoWakeupIsLost`, `POnlyRobbedStay`, from
  the lemmas about `event` and `PInv == PTypeOK /\ IInv /\ OnlyRobbedStay`.
  `WaitingBounds` is what makes `set_permanent()` leave enough notifications.
* `MutexProofs`: `TypeCorrect`, `MutualExclusion` (`OwnerHolds`) over the whole
  interface, with the invariant `TypeOK /\ OwnerHolds /\ WaitingBounds /\
  DestroyedIdle`; and `NoWakeupIsLost` for clients of `scoped_mutex`, whose
  invariant adds `NoLostWakeup` itself: the woken thread that `unlock()` leaves
  behind either takes the mutex or finds it taken.
* `NThreadProofs`, `thread`: `ThreadTypeCorrect`, `ThreadExitMeansDone`,
  `ThreadNoRunAfterDelete`. `Launched` relates the runs to `tid_` and the start event
  for any owner, `OneRun` says that a patient owner has one run and that only its
  end sets the exit event.
* `ThrPoolProofs`: `PoolTypeCorrect`, `PoolCountTracksWorkers`,
  `PoolOvershootBounded`, `PoolStoppedIsQuiet`. `Base` (types, which workers are
  registered, what `count_` counts) keeps `count_` from dropping below zero. The
  bound on growth needs `Growth`: workers that have decided to start another one
  and the `start_one()`s `init()` has left are added to the workers there are; a
  worker that decides found fewer than `max_`.
* `UdpRecvrProofs`: `CircBufTypeCorrect`, `CircBufSlotsKept`, `RecvrNoTornMessage`,
  `RecvrNoneStranded`, `CircBufImplementsLossyQueue`. The invariant has one part for
  the lists whatever is called (`Values`, `Lists`: no slot twice, on one list or on
  two), one for the positions of the threads and who holds the lock (`ThreadsOK`),
  one for the server (`ServerOK`: all slots are linked, at most one is prepared,
  and no handler copies from that one) and one for clients of `push()` (`PushOK`). `NoneStranded` counts handlers on
  their way against messages, as in `event`. The refinement is complete: the
  abstract specification has no fairness.
* `UdpSessionProofs`: `SessionTypeCorrect`, `SessionNoPacketOvertakes`,
  `SessionInStep`, `SessionSerialAtMostOnce`. `Base` describes the chain of salts of a
  session: the packets a client sent, each under the salt that the one before
  announced, and what packets in transit, the client, the store and the workers
  know of it. From the chain follows that a salt is in the store only when every
  earlier packet has been handled. `Registered` says that an answer to the
  last `auth()` is on its way only after its session is in the store, where it stays
  until the client uses it; `InStep` needs it. `SerialOK`, for one
  worker, adds that an `auth` packet comes before everything else of its session
  and that the packet under the salt in the store has not been handled.
* `TcpLstnrProofs`: `ListenerOneOwner`. `Inv` says that `stop()` was called or `Good`
  holds: where the loop and the workers may be with a connection in their hands
  (`Positions`), that the watched connections, the two queues and these hands are
  disjoint and cover the accepted ones (`Places`), and that what `Poll` collected is
  still true when it is served (`BatchOK`): a worker cannot touch a watched
  connection, and only the loop fills a slot. Workers may come and go in any number:
  one that starts or leaves has no connection in its hands. After `stop()` the code frees
  connections that others have (section 5).
* `ContainersProofs`: `VectorIncVisitsAll`, `QueueSlotsAccounted`, `BfdStreamIntact`,
  `QueueImplementsHandedQueue`. `VectorInv` says that chunks are not empty and
  `n_items_` counts the bits, which `begin()` relies on, and that the loop has been at
  every item up to its position. `QueueInv` says that `Linked` is a path along the
  links from `head_` to `tail_`, that the positions in use are shared out among the
  list, the handlers and the lost ones, and how many they are. `Linked` is a recursive
  function and no proof inducts over it: there is one path of a given length along
  given links (`OnePath`, by a least counterexample), so the path a step leads to is
  named, and is `Linked` of the new state. `BfdInv` says that the data lies inside
  the block and is what the stream has next, or that the caller has read behind data
  he took only part of (section 5). The refinement is complete: `HandedQueue` has no
  fairness.
* `Slt3TranProofs`: `Slt3MainOwns`, `Slt3NoneLeftOpen`, `Slt3ImplementsNestedStore`,
  for any number of objects, writes, refusals and savepoints. `Base` holds however
  objects and the connection are used: the types, what objects that are gone leave
  behind (`Dead`), and `OneMain`, that with exceptions on one main transaction at most
  is started and not in `cut`, and its `BEGIN` is what SQLite is in: an object outside
  `cut` that is started keeps SQLite out of autocommit, so no other `BEGIN` succeeds.
  `ScopesOK` is for nested scopes: all but the innermost are started, the outermost
  is the main one, each nested one has its latest savepoint on the stack above those
  of the scopes around it, and only the innermost is between two rows, so that what
  its destructor sends is accepted. Savepoints that `ROLLBACK TO` left may lie
  anywhere on the stack: the argument (`PushScope`, `CutScope`) is about the latest
  savepoint of each object only. Writes are numbered (`Numbered`), so that a write
  changes what the connection sees. The frames of `NestedStore` are those of the
  started objects in ascending order; that every set of them has one such list, which
  a greater element makes one longer, is proved by a least counterexample (`OneList`,
  `HasList`). Each step is then one of `StoreStep`. The refinement is complete:
  `NestedStore` has no fairness.

Assumptions: threads, workers and runs are finite sets; `Cancellable` is part of the
threads; the value for "nobody" is not a thread, the name "owner" not a worker of a
pool, and the loop, the caller of `stop()` and the workers are different threads;
plans have the fields and ranges that the modules give; a pool has
`min_ <= max_`, the workers a TCP pool begins with are among its workers and not none, and a buffer at least one slot; a word of the bitmap has at least one
bit, the handlers of a queue are a finite set and null is not a position, and the
preallocated block of a buffer is neither empty nor larger than the limit; the bounds
of a plan of transactions are natural numbers. Fairness is not used by any proof.

Only model-checked: liveness (`TimedWaitEnds`, `TimedLockEnds`, `Handover`,
`StopWorks`, `DestructorEnds`, `StopEnds`, `FlaggedLeave`, `BacklogShrinks`,
`StoredIsConsumed`, `SerialServed`, `DataHandled`) and the fairness part of
`ImplementsSemaphore`, which are outside what the prover can do. Every safety property
that a passing run checks is also proved.

## 5. Where the code and its comments disagree

With a run (details and quotations in `PROJECT.json`, `findings`):

* `udp_session_race`: `data_handler` answers before it registers the new salt. A
  client that sends its next packet at once can have it looked up by a second
  worker in between; the packet is dropped, and since the client's salt has moved
  on the session is of no use any more. `SerialServed` shows that one worker is
  safe, since it registers before it looks at the next packet.
* `thrpool_minimum`: `thrpool.cc:86` says "ensure that the minimum amount of threads
  will run"; idle workers read `count()` before the others have left it, all leave, and
  a pool with `min_` = 1 has no worker. Only workers start workers. The pool of
  `tcp::lstnr` is of this kind (1 to 4 workers): from then on connections pile up in
  `new_data_queue_` and nobody handles them, which is why `DataHandled` ends when the
  pool has lost its last worker. Without this exception TLC finds the trace.

Stated in a module and false there: adding the named definition to the run's
configuration as an invariant gives the trace.

* `MCUdpRecvr.CheckedPopSucceeds` (run `udp_recvr`): `circbuf.hh:263` says "use
  n_items() to check if there is any item available in the active list";
  `prepare()` of a full buffer takes a stored item and does not subtract it from
  `n_items_`, so a handler that checked under the lock pops from an empty buffer,
  outside its `try` block.
* `TcpLstnr.IdleEventInStep` (run `tcp_lstnr`): `tcp_lstnr.cc:298` says "this
  should not happen" of a connection popped before its notification; `push()`
  notifies after it has unlocked the queue, so it does happen. Nothing but the
  error report follows.
* `InpVec.NextUsedVisitsAll` (run `containers`): `hash_helpers.hh:475` says "check
  others"; `next_used()` starts in the following chunk behind the position it had
  in the current one and misses the items before it.
* `Bfd.RefillIntact` (run `containers`): `rdbuf.hh:119` says that data goes behind
  what is there; `reserve()` leaves `start_` out of the size it asks for
  (`rdbuf.hh:163`), so `recv_some()` behind a partly consumed buffer loses bytes.
  `read()` and `recv()` only read into an empty one.

Seen while modelling, in the models as the code has it:

* `tcp_lstnr.cc:372`: a refused connection is freed through the address of an
  iterator that has gone out of scope (`Refuse` has both outcomes).
* `tcp_lstnr.cc:519`: `remove_all_connections()` begins with `next_used()`, so the
  connection in slot 0 is not removed (`Swept`). Removal does not stop the watcher,
  and does not look for the connection in `new_data_queue_` or with a worker; this
  is why `OneOwner` ends at `stop()`.
* `tcp_lstnr.cc:553`: the loop is destroyed, and `loop_` is zero, before the pool's
  destructor has waited for the workers, who still call `ev_async_send()`.
* `tcp_lstnr.cc:599`: `stop()` calls `ev_unloop()` from its own thread. The loop sets
  `loop_done` again after its blocking call, in an `assert` (`ev.c:2312`), and the
  request is lost; the loop ends by the call of `wakeup_cb` (`:279`), which `stop()` has
  woken before, or `stop()` cancels the thread.
  `stop()` returns false in all cases (`:582`).
* `tcp_lstnr.cc:466`: when the bytes fill the reservation exactly and the peer has
  closed, `recv_some()` meets the end of the stream and the connection is removed
  with the bytes in its buffer; the handler does not see them.
* `bfd.cc:410` and `:419`: `close()` and `init()` keep the buffer, so bytes of an
  old connection are read from a new one. `bfd.hh:65` says that the buffer is
  "initially 1k"; it has 512 bytes.
* `queue_impl.hh:88`: assigning to a handler that has an item, or to itself, loses
  the slot (`lost`).
* `tran.hh` says that the constructor starts a transaction; the first query does.
  A nested transaction used before its parent ran a query therefore makes its
  savepoint the outermost one: its commit is stored at once, its rollback leaves
  the connection in a transaction, and the parent's `BEGIN` fails.
* `_shared_impl.cc:366`: SQLite 3.6.11 refuses a rollback while any query is between
  two rows; the destructor swallows the error and the writes stay, to be committed
  with the parent. A `COMMIT` that finds a lock in the destructor leaves the
  transaction open. A parent that ends before its child leaves the child's
  `started_` set, and its further writes go to disk one by one.
* With `use_exc(false)` `started_` is set and reset although the statement failed;
  when SQLite rolls back by itself (disk full, I/O error) it stays set.
  `MainOwnsTransaction` excludes the first and excepts the objects of the second (`cut`).
* `_shared_impl.cc:134`: `open()` does not ask whether a database is open, and
  overwrites `db_`. The old handle is lost with its locks; an object that was started
  on it stays started, writes outside any transaction on the new one, and when another
  object has begun one, its `COMMIT` or `ROLLBACK` ends that one. `close()` with
  statements left (`:159`) fails in SQLite and zeroes `db_` all the same, so that an
  `open()` after it leads to the same. `MainOwnsTransaction` says that objects which
  did not lose their transaction in one of these ways are not affected.
* `pevent.hh:57` and `:127`: a permanent event returns all waits at once; a thread
  can stay blocked in it. The wait loop tests `available_` only, and a later
  `wait()` can take the notification `set_permanent()` left for it.
  `OnlyRobbedStay` says that this is the only way.
* `mutex.hh:111`: `recursive_unlock()` "works like unlock()", but it does not
  signal; waiters sleep on a free mutex. `NoLostWakeup` is therefore about users
  of `scoped_mutex`, who never call it.
* `udp_data.cc:338`: with two workers a duplicated data packet can be handled
  twice, and a duplicated auth packet lets it be handled again by any number of
  workers; `SerialAtMostOnce` says when it is not.
* `udp_auth.cc:720`: the answer to an `auth()` that timed out is read by the next
  `auth()`, which fails although the server has registered its session.

* `event.hh:104` says that `notify_all()` with nobody waiting "zeroes the
  available count"; the code, and the test, keep it.
* `event.hh:143`: `waiting_count()` is "the number of currently blocked threads";
  a cancelled thread stays counted.
* `pevent.hh:98`: `wait()` of a permanent event leaves the number of available
  notifications alone; the code takes one. `pevent.hh:89`: `notify_all()` is
  ignored by a permanent event; the code does not look at the flag.
* `mutex.hh:53`: the mutex is unlocked when its thread exits; the key's destructor
  casts an `impl *` to `mutex *`.
* `thread_impl_pthread.cc:128`: two `start()`s before the thread has run create
  two threads of one object; a thread that has not run is not joined by the
  destructor. Both need an owner who does not wait for the start event; the run
  `pevent_thread` shows that one who does is safe.
* `thrpool.cc:196`: "are there too many ?" compares `count() > max()` and does not
  see threads that were launched and have not run; `OvershootBounded` is what
  the pool keeps instead.
* `circbuf.hh:179`: the loops of `commit()` and `rollback()` do not advance, so
  with two prepared items a commit of the older one does not end.
* `circbuf.hh:280`: the error paths put slots without an object on the free list,
  which `push()` and `prepare()` hand out later.

## 6. Plan

Done: the inventory; `Event`, `PEvent`, `Mutex`, `Thread`, `ThrPool`, `CircBuf`,
`UdpRecvr`, `UdpSession`, `TcpLstnr`, `InpVec`, `Queue`, `RdBuf`, `Bfd`, `Slt3Tran`,
the abstract specifications `Semaphore`, `LossyQueue`, `HandedQueue` and
`NestedStore`, their runs, and the safety proofs of all of them.

Next: `xdrbuf` over `pbuf` as a round trip.

## 7. Not modelled

* The Windows implementations of `nthread`: the same classes on other
  primitives.
* `ondemand_mutex`: it only creates a mutex on first use.
* Socket set-up in `udp::recvr::start()`, `start()` and `stop()` of the three UDP
  servers, the server's own salt (no code reads it), stack sizes, and limits of the C
  library such as the number of pthread keys.
* `tcp::client`: a `connect()` and calls of `bfd`. `preallocated_array`: no user.
* Datagrams in `bfd` (`recvfrom()`) and what `write()`, `send()` and `sendto()` put on
  the wire; `tcp::lstnr`'s unused timer and the case that its pool does not start.
* Columns, parameters and results of `slt3` queries, the object mapper and the other
  database drivers: conversions and pass-through calls.
* What threads meet in an object that is destroyed under them: `~event` also gives up
  the pointer to its mutex, so a waiter that goes on may leave the mutex locked, and
  `~mutex` broadcasts to threads inside `lock()`; `Event.ResumeDestroyed` lets each
  waiter return by itself, `Mutex.Destroy` waits until nobody is inside.
* Memory that runs out: `malloc()` does not fail.
* Wrap-around of `available_` at 2^32 notifications.
* String, number and hash types, logging, files, exceptions: sequential code with
  little control; `rpc` generators: text output; `sched`: table definitions.
* SQLite, libev, AES and UMAC: third-party code, and three quarters of the
  repository's lines. Of SQLite the two opcodes that the statements of `tran` compile
  to, and of libev the iteration of its loop and its wake-ups, are in `Slt3Tran` and
  `TcpLstnr`, which are mapped to their lines.
