--------------------------- MODULE TcpLstnrProofs ----------------------------
(***************************************************************************)
(* Proofs about TcpLstnr: until stop() is called every connection that was *)
(* accepted is in exactly one pair of hands, for any number of workers,    *)
(* connections and clients.                                                *)
(***************************************************************************)
EXTENDS TcpLstnr, FiniteSetTheorems, SequenceTheorems,
        WellFoundedInduction, TLAPS

\* The connections in a queue, and that none is in it twice.
Items(q) == {q[i] : i \in 1..Len(q)}
Distinct(q) == \A i, j \in 1..Len(q) : q[i] = q[j] => i = j

\* Where threads are, and where remove_connection() goes on ("none": not called).
Spot == {"poll", "dispatch", "notifyNew", "requeue", "waitNb", "accepted", "connecting",
         "admit", "refuse", "remove", "free", "wait", "pop", "notifyIdle", "send", "lock",
         "callback", "keep", "drop", "idle", "none", "gone", "enter", "help", "spawn",
         "leave"}

\* Where a worker has no connection.
Free == {"gone", "enter", "wait", "help", "spawn", "pop", "notifyIdle", "send", "leave"}

Types ==
    /\ used \subseteq Conn /\ watched \subseteq Conn /\ admitted \subseteq Conn
    /\ newQ \in Seq(Conn) /\ idleQ \in Seq(Conn)
    /\ arg \in [Thread -> Conn \cup {None}]
    /\ pc \in [Thread -> Spot] /\ back \in [Thread -> Spot]

\* Where the loop may be, without a connection, with one that is not accepted yet
\* or with one to remove; and where a worker may be.
Removing == {"remove", "free"}

LoopAt(p, a, b, A) ==
    \/ p \in {"poll", "dispatch", "notifyNew", "requeue", "waitNb"} /\ a = None
    \/ p \in {"accepted", "connecting", "admit", "refuse"} /\ a \in Conn \ A
    \/ p \in Removing /\ a \in Conn /\ b = "dispatch"

WorkerAt(p, a, b) ==
    \/ p \in Free /\ a = None
    \/ p \in {"lock", "callback", "keep", "drop"} /\ a \in Conn
    \/ p \in Removing /\ a \in Conn /\ b = "wait"

Positions ==
    /\ ~unloop
    /\ pc[Stopper] = "idle" /\ arg[Stopper] = None
    /\ LoopAt(pc[Loop], arg[Loop], back[Loop], admitted)
    /\ \A w \in Worker : WorkerAt(pc[w], arg[w], back[w])

\* No connection is in two places.
Apart(W, N, I, a) ==
    /\ W \cap N = {} /\ W \cap I = {} /\ N \cap I = {}
    /\ \A t \in Thread : a[t] \notin W \cup N \cup I
    /\ \A t, u \in Thread : a[t] = a[u] /\ a[t] # None => t = u

\* The connections that are in some place.
Held(W, N, I, a) == W \cup N \cup I \cup {c \in Conn : \E t \in Thread : a[t] = c}

Places ==
    /\ Distinct(newQ) /\ Distinct(idleQ)
    /\ Apart(watched, Items(newQ), Items(idleQ), arg)
    /\ admitted \subseteq Held(watched, Items(newQ), Items(idleQ), arg)
    /\ Held(watched, Items(newQ), Items(idleQ), arg) \subseteq used

\* What Poll collected is still so when it is served.
BatchOK ==
    /\ \A c \in Conn : <<"io", c>> \in batch => c \in watched
    /\ <<"accept", None>> \in batch => Conn \ used # {}

Good == Types /\ Positions /\ Places /\ BatchOK

\* After stop() connections can be freed while others have them.
Inv == stopMe \/ Good

-----------------------------------------------------------------------------
(* Threads and queues.                                                     *)

LEMMA ThreadFacts ==
    /\ Loop \in Thread /\ Stopper \in Thread /\ Worker \subseteq Thread
    /\ Loop # Stopper /\ Loop \notin Worker /\ Stopper \notin Worker
    /\ None \notin Conn
    /\ \A t \in Thread : t = Loop \/ t = Stopper \/ t \in Worker
BY ThreadAssumption DEF Thread, Conn

\* A set of slots has a lowest one.
LEMMA LeastNat ==
    ASSUME NEW S, S # {}, S \subseteq Nat
    PROVE  \E d \in S : \A e \in S : d <= e
<1> DEFINE R == {ss \in Nat \X Nat : ss[1] < ss[2]}
<1>1. IsWellFoundedOn(R, Nat)
    BY NatLessThanWellFounded DEF OpToRel
<1> HIDE DEF R
<1>2. PICK d \in S : \A e \in S : ~(<<e, d>> \in R)
    BY <1>1, WFMin
<1>3. \A e \in S : ~(e < d)
    BY <1>2 DEF R
<1>4. \A e \in S : d <= e
    BY <1>3
<1> QED  BY <1>4

LEMMA AppendItems ==
    ASSUME NEW q \in Seq(Conn), NEW c \in Conn
    PROVE  /\ Append(q, c) \in Seq(Conn)
           /\ Items(Append(q, c)) = Items(q) \cup {c}
           /\ Distinct(q) /\ c \notin Items(q) => Distinct(Append(q, c))
<1>1. /\ Len(q) \in Nat /\ Append(q, c) \in Seq(Conn) /\ Len(Append(q, c)) = Len(q) + 1
      /\ \A i \in 1..Len(q) : Append(q, c)[i] = q[i]
      /\ Append(q, c)[Len(q) + 1] = c
    BY AppendProperties
<1>2. Items(Append(q, c)) = Items(q) \cup {c}
    <2>1. 1..(Len(q) + 1) = 1..Len(q) \cup {Len(q) + 1}
        BY <1>1
    <2> QED  BY <1>1, <2>1 DEF Items
<1>3. ASSUME Distinct(q), c \notin Items(q) PROVE Distinct(Append(q, c))
    <2>1. \A i \in 1..Len(q) : q[i] # c
        BY <1>3 DEF Items
    <2> QED  BY <1>1, <1>3, <2>1 DEF Distinct
<1> QED  BY <1>1, <1>2, <1>3

LEMMA TailItems ==
    ASSUME NEW q \in Seq(Conn), q # <<>>
    PROVE  /\ Tail(q) \in Seq(Conn) /\ Head(q) \in Conn
           /\ Items(q) = Items(Tail(q)) \cup {Head(q)}
           /\ Distinct(q) => Distinct(Tail(q)) /\ Head(q) \notin Items(Tail(q))
<1>1. /\ Len(q) \in Nat /\ Len(q) >= 1
      /\ Head(q) \in Conn /\ Head(q) = q[1]
      /\ Tail(q) \in Seq(Conn) /\ Len(Tail(q)) = Len(q) - 1
      /\ \A i \in 1..Len(Tail(q)) : Tail(q)[i] = q[i + 1]
    BY HeadTailProperties, EmptySeq
<1>2. Items(q) = Items(Tail(q)) \cup {Head(q)}
    <2>1. ASSUME NEW i \in 1..Len(q) PROVE q[i] \in Items(Tail(q)) \cup {Head(q)}
        <3>1. CASE i = 1
            BY <1>1, <3>1
        <3>2. CASE i # 1
            <4>1. i - 1 \in 1..Len(Tail(q)) /\ (i - 1) + 1 = i
                BY <1>1, <3>2
            <4>2. q[i] = Tail(q)[i - 1]
                BY <1>1, <4>1
            <4> QED  BY <4>1, <4>2 DEF Items
        <3> QED  BY <3>1, <3>2
    <2>2. ASSUME NEW i \in 1..Len(Tail(q)) PROVE Tail(q)[i] \in Items(q)
        <3>1. i + 1 \in 1..Len(q) /\ Tail(q)[i] = q[i + 1]
            BY <1>1
        <3> QED  BY <3>1 DEF Items
    <2>3. Head(q) \in Items(q)
        <3>1. 1 \in 1..Len(q)
            BY <1>1
        <3> QED  BY <1>1, <3>1 DEF Items
    <2> QED  BY <2>1, <2>2, <2>3 DEF Items
<1>3. ASSUME Distinct(q) PROVE Distinct(Tail(q)) /\ Head(q) \notin Items(Tail(q))
    <2>1. \A i \in 1..Len(Tail(q)) : i + 1 \in 1..Len(q) /\ i + 1 # 1
        BY <1>1
    <2>2. 1 \in 1..Len(q)
        BY <1>1
    <2>3. \A i \in 1..Len(Tail(q)) : Tail(q)[i] # q[1]
        BY <1>1, <1>3, <2>1, <2>2 DEF Distinct
    <2>4. ASSUME NEW i \in 1..Len(Tail(q)), NEW j \in 1..Len(Tail(q)),
                 Tail(q)[i] = Tail(q)[j]
          PROVE  i = j
        <3>1. q[i + 1] = q[j + 1]
            BY <1>1, <2>4
        <3>2. i + 1 = j + 1
            BY <1>3, <2>1, <3>1 DEF Distinct
        <3> QED  BY <3>2
    <2> QED  BY <1>1, <2>3, <2>4 DEF Distinct, Items
<1> QED  BY <1>1, <1>2, <1>3

\* What a thread takes into its hands.
LEMMA Hands ==
    ASSUME Types, NEW t \in Thread, NEW a \in Conn \cup {None},
           arg' = [arg EXCEPT ![t] = a]
    PROVE  /\ arg' \in [Thread -> Conn \cup {None}]
           /\ arg'[t] = a
           /\ \A u \in Thread : u # t => arg'[u] = arg[u]
BY DEF Types

\* The loop moves.
LEMMA LoopMoves ==
    ASSUME Good, ~unloop', NEW p \in Spot, pc' = [pc EXCEPT ![Loop] = p],
           arg' \in [Thread -> Conn \cup {None}],
           \A t \in Thread : t # Loop => arg'[t] = arg[t] /\ back'[t] = back[t],
           LoopAt(p, arg'[Loop], back'[Loop], admitted')
    PROVE  Positions' /\ pc' \in [Thread -> Spot]
<1>1. /\ pc' \in [Thread -> Spot] /\ pc'[Loop] = p
      /\ \A t \in Thread : t # Loop => pc'[t] = pc[t]
    BY ThreadFacts DEF Good, Types
<1>2. \A w \in Worker : WorkerAt(pc'[w], arg'[w], back'[w])
    <2>1. \A w \in Worker : pc'[w] = pc[w] /\ arg'[w] = arg[w] /\ back'[w] = back[w]
        BY <1>1, ThreadFacts
    <2> QED  BY <2>1 DEF Good, Positions
<1>3. pc'[Stopper] = "idle" /\ arg'[Stopper] = None
    BY <1>1, ThreadFacts DEF Good, Positions
<1> QED  BY <1>1, <1>2, <1>3 DEF Positions

\* A worker moves.
LEMMA WorkerMoves ==
    ASSUME Good, ~unloop', NEW w \in Worker, NEW p \in Spot, pc' = [pc EXCEPT ![w] = p],
           arg' \in [Thread -> Conn \cup {None}],
           \A t \in Thread : t # w => arg'[t] = arg[t] /\ back'[t] = back[t],
           admitted' \subseteq admitted,
           WorkerAt(p, arg'[w], back'[w])
    PROVE  Positions' /\ pc' \in [Thread -> Spot]
<1>1. /\ pc' \in [Thread -> Spot] /\ pc'[w] = p
      /\ \A t \in Thread : t # w => pc'[t] = pc[t]
    BY ThreadFacts DEF Good, Types
<1>2. \A v \in Worker : WorkerAt(pc'[v], arg'[v], back'[v])
    <2>1. \A v \in Worker : v # w => pc'[v] = pc[v] /\ arg'[v] = arg[v] /\ back'[v] = back[v]
        BY <1>1, ThreadFacts
    <2> QED  BY <1>1, <2>1 DEF Good, Positions
<1>3. /\ pc'[Stopper] = "idle" /\ arg'[Stopper] = None
      /\ pc'[Loop] = pc[Loop] /\ arg'[Loop] = arg[Loop] /\ back'[Loop] = back[Loop]
    BY <1>1, ThreadFacts DEF Good, Positions
<1>4. LoopAt(pc'[Loop], arg'[Loop], back'[Loop], admitted')
    BY <1>3 DEF Good, Positions, LoopAt
<1> QED  BY <1>1, <1>2, <1>3, <1>4 DEF Positions

\* Nothing changes hands.
Still == UNCHANGED <<used, admitted, watched, newQ, idleQ, arg>> /\ batch' \subseteq batch

LEMMA StillGood ==
    ASSUME Good, Still, Positions', pc' \in [Thread -> Spot], back' \in [Thread -> Spot]
    PROVE  Good'
<1>1. Types'
    BY DEF Good, Types, Still
<1>2. Places'
    BY DEF Good, Places, Still
<1>3. BatchOK'
    BY DEF Good, BatchOK, Still
<1> QED  BY <1>1, <1>2, <1>3 DEF Good

-----------------------------------------------------------------------------
(* The steps before stop().                                                *)

LEMMA LoopPlaces ==
    ASSUME Good
    PROVE  /\ pc[Loop] \in {"poll", "dispatch", "notifyNew", "requeue", "waitNb"} =>
                 arg[Loop] = None
           /\ pc[Loop] \in {"accepted", "connecting", "admit", "refuse"} =>
                 arg[Loop] \in Conn \ admitted
           /\ pc[Loop] \in Removing => arg[Loop] \in Conn /\ back[Loop] = "dispatch"
           /\ pc[Loop] \notin {"drain", "sweep", "unlooped", "join", "exited", "killed"}
BY DEF Good, Positions, LoopAt, Removing

LEMMA WorkerPlaces ==
    ASSUME Good, NEW w \in Worker
    PROVE  /\ pc[w] \in Free => arg[w] = None
           /\ pc[w] \in {"lock", "callback", "keep", "drop"} => arg[w] \in Conn
           /\ pc[w] \in Removing => arg[w] \in Conn /\ back[w] = "wait"
           /\ pc[w] \notin {"drain", "sweep"}
BY DEF Good, Positions, WorkerAt, Removing, Free

\* The network, and a loop that only goes on.
LEMMA QuietSteps ==
    ASSUME Good, UNCHANGED <<used, admitted, watched, newQ, idleQ, arg, pc, back, unloop>>,
           batch' \subseteq batch
    PROVE  Good'
<1>1. Positions'
    BY DEF Good, Positions
<1> QED  BY <1>1, StillGood DEF Still, Good, Types

LEMMA LoopStays ==
    ASSUME Good, Still, ~unloop', back' = back, NEW p \in Spot,
           pc' = [pc EXCEPT ![Loop] = p], LoopAt(p, arg[Loop], back[Loop], admitted)
    PROVE  Good'
<1>1. arg' = arg /\ admitted' = admitted /\ arg \in [Thread -> Conn \cup {None}]
      /\ back \in [Thread -> Spot]
    BY DEF Still, Good, Types
<1>2. Positions' /\ pc' \in [Thread -> Spot]
    BY <1>1, LoopMoves
<1> QED  BY <1>1, <1>2, StillGood

LEMMA WorkerStays ==
    ASSUME Good, Still, UNCHANGED unloop, NEW w \in Worker, NEW p \in Spot,
           back' \in [Thread -> Spot],
           \A t \in Thread : t # w => back'[t] = back[t],
           pc' = [pc EXCEPT ![w] = p], WorkerAt(p, arg[w], back'[w])
    PROVE  Good'
<1>1. arg' = arg /\ admitted' = admitted /\ arg \in [Thread -> Conn \cup {None}]
      /\ ~unloop'
    BY DEF Still, Good, Types, Positions
<1>2. Positions' /\ pc' \in [Thread -> Spot]
    BY <1>1, WorkerMoves
<1> QED  BY <1>1, <1>2, StillGood

LEMMA NetworkGood ==
    ASSUME Good, Network
    PROVE  Good'
<1>1. UNCHANGED <<used, admitted, watched, newQ, idleQ, arg, pc, back, unloop, batch>>
    BY DEF Network, ClientConnects, ClientSends, ClientCloses, Pool, Queues, Events
<1> QED  BY <1>1, QuietSteps

\* Only watched connections and a listener with a free slot are collected.
LEMMA PollGood ==
    ASSUME Good, Poll
    PROVE  Good'
<1> ~unloop'
    <2>1. unloop' = unloop \/ unloop' = FALSE
        BY DEF Poll
    <2> QED  BY <2>1 DEF Good, Positions
<1>1. /\ UNCHANGED <<used, admitted, watched, newQ, idleQ, arg, back>>
      /\ pc[Loop] = "poll" /\ pc' = [pc EXCEPT ![Loop] = "dispatch"]
      /\ batch' = Ready
    BY DEF Poll, Goto, Pool, Queues
<1>2. LoopAt("dispatch", arg[Loop], back[Loop], admitted)
    BY <1>1, LoopPlaces DEF LoopAt
<1>3. Positions' /\ pc' \in [Thread -> Spot]
    <2>1. /\ ~unloop' /\ arg' \in [Thread -> Conn \cup {None}]
          /\ \A t \in Thread : t # Loop => arg'[t] = arg[t] /\ back'[t] = back[t]
          /\ LoopAt("dispatch", arg'[Loop], back'[Loop], admitted')
        BY <1>1, <1>2 DEF Good, Types, Positions
    <2> QED  BY <1>1, <2>1, LoopMoves DEF Spot
<1>4. Types' /\ Places'
    BY <1>1, <1>3 DEF Good, Types, Places
<1>5. ASSUME NEW c \in Conn, <<"io", c>> \in Ready PROVE c \in watched
    BY <1>5 DEF Ready
<1>6. ASSUME <<"accept", None>> \in Ready PROVE Conn \ used # {}
    <2>1. Cardinality(used) < MaxConns
        BY <1>6 DEF Ready
    <2>2. Cardinality(Conn) = MaxConns /\ MaxConns \in Nat
        <3>1. MaxConns \in Nat \ {0} /\ 0 <= MaxConns - 1
            BY BoundAssumption
        <3>2. Cardinality(0..(MaxConns - 1)) = MaxConns
            BY <3>1, FS_Interval
        <3> QED  BY <3>1, <3>2 DEF Conn
    <2>3. used \subseteq Conn
        BY DEF Good, Types
    <2>4. used # Conn
        BY <2>1, <2>2
    <2> QED  BY <2>3, <2>4
<1>7. BatchOK'
    BY <1>1, <1>5, <1>6 DEF BatchOK
<1> QED  BY <1>3, <1>4, <1>7 DEF Good

\* The wake-up of the loop concerns no connection.
LEMMA PipeGood ==
    ASSUME Good, PipeCb
    PROVE  Good'
<1>1. /\ UNCHANGED <<used, admitted, watched, newQ, idleQ, arg, pc, back, unloop>>
      /\ batch' = (batch \ {<<"pipe", None>>}) \cup {<<"async", None>>}
    BY DEF PipeCb, Pool, Queues
<1>2. Types' /\ Positions' /\ Places'
    BY <1>1 DEF Good, Types, Positions, Places
<1>3. BatchOK'
    BY <1>1 DEF Good, BatchOK
<1> QED  BY <1>2, <1>3 DEF Good

\* The loop between two steps of a callback.
LEMMA LoopOnlyGood ==
    ASSUME Good, ~stopMe,
           \/ EndIteration \/ OnConnected \/ OnConnectedReturns \/ NotifyNew
           \/ WakeupCb \/ WaitNb \/ RequeueDone \/ RemoveLock(Loop)
    PROVE  Good'
<1>1. Still /\ back' = back /\ ~unloop' /\ ~unloop
    BY DEF EndIteration, OnConnected, OnConnectedReturns, NotifyNew, WakeupCb, WaitNb,
           RequeueDone, RemoveLock, Goto, Dispatch, Pool, Queues, Events, Still,
           Good, Positions
<1>2. ASSUME EndIteration PROVE Good'
    <2>1. pc' = [pc EXCEPT ![Loop] = "poll"] /\ LoopAt("poll", arg[Loop], back[Loop], admitted)
        BY <1>1, <1>2, LoopPlaces DEF EndIteration, Goto, LoopAt
    <2> QED  BY <1>1, <2>1, LoopStays DEF Spot
<1>3. ASSUME OnConnected PROVE Good'
    <2>1. /\ pc' = [pc EXCEPT ![Loop] = "connecting"]
          /\ LoopAt("connecting", arg[Loop], back[Loop], admitted)
        BY <1>3, LoopPlaces DEF OnConnected, Goto, LoopAt
    <2> QED  BY <1>1, <2>1, LoopStays DEF Spot
<1>4. ASSUME OnConnectedReturns PROVE Good'
    <2>1. PICK p \in {"admit", "refuse"} : pc' = [pc EXCEPT ![Loop] = p]
        BY <1>4 DEF OnConnectedReturns, Goto
    <2>2. LoopAt(p, arg[Loop], back[Loop], admitted)
        BY <1>4, LoopPlaces DEF OnConnectedReturns, LoopAt
    <2>3. p \in Spot
        BY DEF Spot
    <2> QED  BY <1>1, <2>1, <2>2, <2>3, LoopStays DEF Spot
<1>5. ASSUME NotifyNew PROVE Good'
    <2>1. /\ pc' = [pc EXCEPT ![Loop] = "dispatch"]
          /\ LoopAt("dispatch", arg[Loop], back[Loop], admitted)
        BY <1>5, LoopPlaces DEF NotifyNew, Goto, LoopAt
    <2> QED  BY <1>1, <2>1, LoopStays DEF Spot
<1>6. ASSUME WakeupCb PROVE Good'
    <2>1. /\ pc' = [pc EXCEPT ![Loop] = "requeue"]
          /\ LoopAt("requeue", arg[Loop], back[Loop], admitted)
        BY <1>6, LoopPlaces DEF WakeupCb, Dispatch, Goto, LoopAt
    <2> QED  BY <1>1, <2>1, LoopStays DEF Spot
<1>7. ASSUME WaitNb PROVE Good'
    <2>1. /\ pc' = [pc EXCEPT ![Loop] = "requeue"]
          /\ LoopAt("requeue", arg[Loop], back[Loop], admitted)
        BY <1>7, LoopPlaces DEF WaitNb, Goto, LoopAt
    <2> QED  BY <1>1, <2>1, LoopStays DEF Spot
<1>8. ASSUME RequeueDone PROVE Good'
    <2>1. /\ pc' = [pc EXCEPT ![Loop] = "dispatch"]
          /\ LoopAt("dispatch", arg[Loop], back[Loop], admitted)
        BY <1>8, LoopPlaces DEF RequeueDone, Goto, LoopAt
    <2> QED  BY <1>1, <2>1, LoopStays DEF Spot
<1>9. ASSUME RemoveLock(Loop) PROVE Good'
    <2>1. /\ pc' = [pc EXCEPT ![Loop] = "free"]
          /\ LoopAt("free", arg[Loop], back[Loop], admitted)
        BY <1>9, LoopPlaces DEF RemoveLock, Goto, LoopAt, Removing
    <2> QED  BY <1>1, <2>1, LoopStays DEF Spot
<1> QED  BY <1>2, <1>3, <1>4, <1>5, <1>6, <1>7, <1>8, <1>9

\* A worker between taking and giving away a connection.
LEMMA WorkerOnlyGood ==
    ASSUME Good, NEW w \in Worker,
           \/ Enter(w) \/ Wake(w) \/ Help(w) \/ (PopNew(w) /\ newQ = <<>>) \/ LockConn(w)
           \/ OnDataArrival(w) \/ GiveUp(w) \/ NotifyIdle(w) \/ AsyncSend(w) \/ RemoveLock(w)
           \/ Idle(w) \/ WorkerExits(w)
    PROVE  Good'
<1>1. Still /\ unloop' = unloop
    BY DEF Enter, Wake, Help, PopNew, LockConn, OnDataArrival, GiveUp, NotifyIdle,
           AsyncSend, RemoveLock, Idle, WorkerExits, Goto, Pool, Queues, Events, Still
<1>2. back \in [Thread -> Spot]
    BY DEF Good, Types
<1>3. ASSUME NEW p \in Spot, pc' = [pc EXCEPT ![w] = p], back' = back,
             WorkerAt(p, arg[w], back[w])
      PROVE  Good'
    BY <1>1, <1>2, <1>3, WorkerStays
<1>4. ASSUME Enter(w) \/ Wake(w) \/ Help(w) \/ Idle(w) \/ WorkerExits(w) PROVE Good'
    <2>1. pc[w] \in Free /\ back' = back
        BY <1>4 DEF Enter, Wake, Help, Idle, WorkerExits, Free
    <2>2. PICK p \in Free : pc' = [pc EXCEPT ![w] = p]
        BY <1>4 DEF Enter, Wake, Help, Idle, WorkerExits, Goto, Free
    <2>3. p \in Spot
        BY DEF Free, Spot
    <2>4. WorkerAt(p, arg[w], back[w])
        BY <2>1, WorkerPlaces DEF WorkerAt
    <2> QED  BY <1>3, <2>1, <2>2, <2>3, <2>4
<1>5. ASSUME PopNew(w), newQ = <<>> PROVE Good'
    <2>1. pc' = [pc EXCEPT ![w] = "wait"] /\ back' = back /\ WorkerAt("wait", arg[w], back[w])
        BY <1>5, WorkerPlaces DEF PopNew, Goto, WorkerAt, Free
    <2> QED  BY <1>3, <2>1 DEF Spot
<1>6. ASSUME LockConn(w) PROVE Good'
    <2>1. /\ pc' = [pc EXCEPT ![w] = "callback"] /\ back' = back
          /\ WorkerAt("callback", arg[w], back[w])
        BY <1>6, WorkerPlaces DEF LockConn, Goto, WorkerAt
    <2> QED  BY <1>3, <2>1 DEF Spot
<1>7. ASSUME OnDataArrival(w) PROVE Good'
    <2>1. back' = back /\ \E p \in {"keep", "drop"} : pc' = [pc EXCEPT ![w] = p]
        BY <1>7 DEF OnDataArrival, Goto
    <2>2. PICK p \in {"keep", "drop"} : pc' = [pc EXCEPT ![w] = p]
        BY <2>1
    <2>3. p \in Spot /\ WorkerAt(p, arg[w], back[w])
        BY <1>7, WorkerPlaces DEF OnDataArrival, WorkerAt, Spot
    <2> QED  BY <1>3, <2>1, <2>2, <2>3
<1>8. ASSUME GiveUp(w) PROVE Good'
    <2>1. /\ pc' = [pc EXCEPT ![w] = "remove"] /\ back' = [back EXCEPT ![w] = "wait"]
          /\ arg[w] \in Conn
        BY <1>8, WorkerPlaces DEF GiveUp, Goto
    <2>2. /\ back' \in [Thread -> Spot] /\ back'[w] = "wait"
          /\ \A t \in Thread : t # w => back'[t] = back[t]
        BY <1>2, <2>1, ThreadFacts DEF Spot
    <2>3. "remove" \in Spot /\ WorkerAt("remove", arg[w], back'[w])
        BY <2>1, <2>2 DEF WorkerAt, Removing, Spot
    <2> QED  BY <1>1, <2>1, <2>2, <2>3, WorkerStays
<1>9. ASSUME NotifyIdle(w) PROVE Good'
    <2>1. pc' = [pc EXCEPT ![w] = "send"] /\ back' = back /\ WorkerAt("send", arg[w], back[w])
        BY <1>9, WorkerPlaces DEF NotifyIdle, Goto, WorkerAt, Free
    <2> QED  BY <1>3, <2>1 DEF Spot
<1>10. ASSUME AsyncSend(w) PROVE Good'
    <2>1. pc' = [pc EXCEPT ![w] = "wait"] /\ back' = back /\ WorkerAt("wait", arg[w], back[w])
        BY <1>10, WorkerPlaces DEF AsyncSend, Goto, WorkerAt, Free
    <2> QED  BY <1>3, <2>1 DEF Spot
<1>11. ASSUME RemoveLock(w) PROVE Good'
    <2>1. pc' = [pc EXCEPT ![w] = "free"] /\ back' = back /\ WorkerAt("free", arg[w], back[w])
        BY <1>11, WorkerPlaces DEF RemoveLock, Goto, WorkerAt, Removing
    <2> QED  BY <1>3, <2>1 DEF Spot
<1> QED  BY <1>4, <1>5, <1>6, <1>7, <1>8, <1>9, <1>10, <1>11

\* start_one(): another worker may come to be, with nothing in its hands.
LEMMA StartGood ==
    ASSUME Good, NEW w \in Worker, StartOne(w)
    PROVE  Good'
<1>1. /\ Still /\ unloop' = unloop /\ back' = back /\ arg' = arg
      /\ admitted' = admitted /\ pc[w] = "spawn"
    BY DEF StartOne, Pool, Queues, Events, Still
<1>2. PICK v \in Worker : /\ v = w \/ pc[v] = "gone"
                          /\ \/ pc' = [pc EXCEPT ![w] = "pop"]
                             \/ pc' = [pc EXCEPT ![w] = "pop", ![v] = "enter"]
    BY DEF StartOne, Present
<1>3. /\ pc \in [Thread -> Spot] /\ back \in [Thread -> Spot]
      /\ "pop" \in Spot /\ "enter" \in Spot
    BY DEF Good, Types, Spot
<1>4. /\ pc' \in [Thread -> Spot]
      /\ \A t \in Thread : t \notin {v, w} => pc'[t] = pc[t]
      /\ \A u \in {v, w} : pc'[u] \in {"pop", "enter", "gone"}
    BY <1>2, <1>3, ThreadFacts
<1>5. arg[v] = None /\ arg[w] = None
    BY <1>1, <1>2, WorkerPlaces DEF Free
<1>6. ASSUME NEW u \in Worker PROVE WorkerAt(pc'[u], arg'[u], back'[u])
    <2>1. CASE u \in {v, w}
        BY <1>1, <1>4, <1>5, <2>1 DEF WorkerAt, Free
    <2>2. CASE u \notin {v, w}
        BY <1>1, <1>4, <2>2, ThreadFacts DEF Good, Positions
    <2> QED  BY <2>1, <2>2
<1>7. pc'[Loop] = pc[Loop] /\ pc'[Stopper] = pc[Stopper]
    BY <1>4, ThreadFacts
<1>8. Positions'
    BY <1>1, <1>6, <1>7 DEF Good, Positions
<1> QED  BY <1>1, <1>3, <1>4, <1>8, StillGood

-----------------------------------------------------------------------------
(* The steps at which a connection changes hands.                          *)

\* accept_cb takes a slot that is not used, hence in nobody's hands.
LEMMA AcceptGood ==
    ASSUME Good, AcceptCb
    PROVE  Good'
<1> DEFINE c == CHOOSE d \in Conn \ used : \A e \in Conn \ used : d <= e
<1>1. /\ UNCHANGED <<admitted, watched, newQ, idleQ, back, unloop>>
      /\ pc[Loop] = "dispatch" /\ <<"accept", None>> \in batch
      /\ batch' = batch \ {<<"accept", None>>}
    BY DEF AcceptCb, Dispatch, Queues
<1>2. CASE UNCHANGED <<used, pc, arg>>
    BY <1>1, <1>2, QuietSteps
<1>3. CASE /\ used' = used \cup {c}
           /\ pc' = [pc EXCEPT ![Loop] = "accepted"] /\ arg' = [arg EXCEPT ![Loop] = c]
    <2>1. c \in Conn \ used
        <3>1. \E d \in Conn \ used : \A e \in Conn \ used : d <= e
            <4> DEFINE S == Conn \ used
            <4>1. S # {} /\ S \subseteq Nat
                BY <1>1, BoundAssumption DEF Good, BatchOK, Conn
            <4> HIDE DEF S
            <4>2. \E d \in S : \A e \in S : d <= e
                BY <4>1, LeastNat
            <4> QED  BY <4>2 DEF S
        <3> QED  BY <3>1
    <2> HIDE DEF c
    <2>2. /\ arg' \in [Thread -> Conn \cup {None}] /\ arg'[Loop] = c
          /\ \A t \in Thread : t # Loop => arg'[t] = arg[t]
        BY <1>3, <2>1, Hands, ThreadFacts DEF Good
    <2>3. /\ c \notin watched /\ c \notin Items(newQ) /\ c \notin Items(idleQ)
          /\ c \notin admitted /\ \A t \in Thread : arg[t] # c
          /\ arg[Loop] = None
        BY <1>1, <2>1, LoopPlaces DEF Good, Places, Held
    <2>4. Positions' /\ pc' \in [Thread -> Spot]
        <3>1. /\ "accepted" \in Spot /\ ~unloop'
              /\ LoopAt("accepted", arg'[Loop], back'[Loop], admitted')
            BY <1>1, <2>1, <2>2, <2>3 DEF LoopAt, Spot, Good, Positions
        <3> QED  BY <1>1, <1>3, <2>2, <3>1, LoopMoves
    <2>5. Types'
        BY <1>1, <1>3, <2>1, <2>2, <2>4 DEF Good, Types
    <2>6. Apart(watched, Items(newQ), Items(idleQ), arg')
        BY <2>2, <2>3, ThreadFacts DEF Good, Places, Apart
    <2>7. Held(watched, Items(newQ), Items(idleQ), arg')
            = Held(watched, Items(newQ), Items(idleQ), arg) \cup {c}
        BY <2>1, <2>2, <2>3, ThreadFacts DEF Held
    <2>8. Places'
        BY <1>1, <1>3, <2>6, <2>7 DEF Good, Places
    <2>9. BatchOK'
        BY <1>1 DEF Good, BatchOK
    <2> QED  BY <2>4, <2>5, <2>8, <2>9 DEF Good
<1> QED  BY <1>2, <1>3 DEF AcceptCb, GotoWith

\* on_connected() said yes: the loop watches the connection.
LEMMA AdmitGood ==
    ASSUME Good, Admit
    PROVE  Good'
<1> DEFINE c == arg[Loop]
<1>1. /\ UNCHANGED <<used, newQ, idleQ, back, unloop, batch>>
      /\ pc[Loop] = "admit"
      /\ watched' = watched \cup {c} /\ admitted' = admitted \cup {c}
      /\ pc' = [pc EXCEPT ![Loop] = "dispatch"] /\ arg' = [arg EXCEPT ![Loop] = None]
    BY DEF Admit, GotoWith, Queues
<1>2. c \in Conn /\ c \in Held(watched, Items(newQ), Items(idleQ), arg)
    BY <1>1, LoopPlaces, ThreadFacts DEF Held
<1>3. /\ arg' \in [Thread -> Conn \cup {None}] /\ arg'[Loop] = None
      /\ \A t \in Thread : t # Loop => arg'[t] = arg[t]
    BY <1>1, Hands, ThreadFacts DEF Good
<1>4. /\ c \notin watched /\ c \notin Items(newQ) /\ c \notin Items(idleQ)
      /\ \A t \in Thread : t # Loop => arg[t] # c
    <2>1. c # None /\ Loop \in Thread
        BY <1>2, ThreadFacts
    <2> QED  BY <2>1 DEF Good, Places, Apart
<1> HIDE DEF c
<1>5. Positions' /\ pc' \in [Thread -> Spot]
    <2>1. /\ "dispatch" \in Spot /\ ~unloop'
          /\ LoopAt("dispatch", arg'[Loop], back'[Loop], admitted')
        BY <1>1, <1>3 DEF LoopAt, Spot, Good, Positions
    <2> QED  BY <1>1, <1>3, <2>1, LoopMoves
<1>6. Types'
    BY <1>1, <1>2, <1>3, <1>5 DEF Good, Types
<1>7. Apart(watched', Items(newQ), Items(idleQ), arg')
    <2>1. \A t \in Thread : arg'[t] # c
        BY <1>2, <1>3, <1>4, ThreadFacts
    <2>2. \A t \in Thread : arg'[t] = arg[t] \/ arg'[t] = None
        BY <1>3
    <2>3. None \notin watched /\ None \notin Items(newQ) /\ None \notin Items(idleQ)
        BY ThreadFacts DEF Good, Types, Places, Held
    <2> QED  BY <1>1, <1>3, <1>4, <2>1, <2>2, <2>3 DEF Good, Places, Apart
<1>8. Held(watched', Items(newQ), Items(idleQ), arg')
        = Held(watched, Items(newQ), Items(idleQ), arg)
    <2>1. arg[Loop] = c /\ Loop \in Thread /\ None \notin Conn
        BY ThreadFacts DEF c
    <2> QED  BY <1>1, <1>2, <1>3, <2>1 DEF Held
<1>9. Places'
    BY <1>1, <1>2, <1>7, <1>8 DEF Good, Places
<1>10. BatchOK'
    BY <1>1 DEF Good, BatchOK
<1> QED  BY <1>5, <1>6, <1>9, <1>10 DEF Good

\* What a thread has in its hands is nowhere else.
LEMMA Alone ==
    ASSUME Good, NEW t \in Thread
    PROVE  /\ None \notin watched /\ None \notin Items(newQ) /\ None \notin Items(idleQ)
           /\ arg[t] \in Conn =>
                 /\ arg[t] \notin watched /\ arg[t] \notin Items(newQ)
                 /\ arg[t] \notin Items(idleQ)
                 /\ arg[t] \in used
                 /\ \A u \in Thread : u # t => arg[u] # arg[t]
<1>1. None \notin watched /\ None \notin Items(newQ) /\ None \notin Items(idleQ)
    BY ThreadFacts DEF Good, Types, Places, Held
<1>2. ASSUME arg[t] \in Conn
      PROVE  /\ arg[t] \notin watched /\ arg[t] \notin Items(newQ)
             /\ arg[t] \notin Items(idleQ)
             /\ \A u \in Thread : u # t => arg[u] # arg[t]
    <2>1. arg[t] # None
        BY <1>2, ThreadFacts
    <2> QED  BY <2>1 DEF Good, Places, Apart
<1>3. arg[t] \in Conn => arg[t] \in used
    BY DEF Good, Places, Held
<1> QED  BY <1>1, <1>2, <1>3

\* A thread has nothing in its hands any more.
LEMMA LetGo ==
    ASSUME Good, NEW t \in Thread, arg[t] \in Conn, arg' = [arg EXCEPT ![t] = None]
    PROVE  /\ arg' \in [Thread -> Conn \cup {None}] /\ arg'[t] = None
           /\ \A u \in Thread : u # t => arg'[u] = arg[u]
           /\ \A u \in Thread : arg'[u] # arg[t]
           /\ Apart(watched, Items(newQ), Items(idleQ), arg')
           /\ Held(watched, Items(newQ), Items(idleQ), arg')
                = Held(watched, Items(newQ), Items(idleQ), arg) \ {arg[t]}
<1>1. /\ arg' \in [Thread -> Conn \cup {None}] /\ arg'[t] = None
      /\ \A u \in Thread : u # t => arg'[u] = arg[u]
    BY Hands DEF Good
<1> DEFINE c == arg[t]
<1>2. /\ c \notin watched /\ c \notin Items(newQ) /\ c \notin Items(idleQ)
      /\ \A u \in Thread : u # t => arg[u] # c
      /\ None \notin watched /\ None \notin Items(newQ) /\ None \notin Items(idleQ)
      /\ c \in Conn /\ None \notin Conn
    BY Alone, ThreadFacts
<1>3. Apart(watched, Items(newQ), Items(idleQ), arg')
    BY <1>1, <1>2 DEF Good, Places, Apart
<1>4. ASSUME NEW d PROVE d \in Held(watched, Items(newQ), Items(idleQ), arg')
                          <=> d \in Held(watched, Items(newQ), Items(idleQ), arg) \ {c}
    <2>1. (d \in Conn /\ \E u \in Thread : arg'[u] = d)
            <=> (d \in Conn /\ d # c /\ \E u \in Thread : arg[u] = d)
        BY <1>1, <1>2
    <2> QED  BY <1>2, <2>1 DEF Held
<1>5. Held(watched, Items(newQ), Items(idleQ), arg')
                = Held(watched, Items(newQ), Items(idleQ), arg) \ {c}
    BY <1>4
<1>6. \A u \in Thread : arg'[u] # c
    BY <1>1, <1>2
<1> QED  BY <1>1, <1>3, <1>5, <1>6

\* on_connected() said no: the slot is free, or used and in nobody's hands.
LEMMA RefuseGood ==
    ASSUME Good, Refuse
    PROVE  Good'
<1> DEFINE c == arg[Loop]
<1>1. /\ UNCHANGED <<admitted, watched, newQ, idleQ, back, unloop, batch>>
      /\ pc[Loop] = "refuse"
      /\ used' = used \/ used' = used \ {c}
      /\ pc' = [pc EXCEPT ![Loop] = "dispatch"] /\ arg' = [arg EXCEPT ![Loop] = None]
    BY DEF Refuse, GotoWith, Queues, Events
<1>2. c \in Conn \ admitted /\ Loop \in Thread
    BY <1>1, LoopPlaces, ThreadFacts
<1>3. /\ arg' \in [Thread -> Conn \cup {None}] /\ arg'[Loop] = None
      /\ \A u \in Thread : u # Loop => arg'[u] = arg[u]
      /\ Apart(watched, Items(newQ), Items(idleQ), arg')
      /\ Held(watched, Items(newQ), Items(idleQ), arg')
            = Held(watched, Items(newQ), Items(idleQ), arg) \ {c}
    BY <1>1, <1>2, LetGo
<1> HIDE DEF c
<1>4. Positions' /\ pc' \in [Thread -> Spot]
    <2>1. /\ "dispatch" \in Spot /\ ~unloop'
          /\ LoopAt("dispatch", arg'[Loop], back'[Loop], admitted')
        BY <1>1, <1>3 DEF LoopAt, Spot, Good, Positions
    <2> QED  BY <1>1, <1>3, <2>1, LoopMoves
<1>5. Types'
    BY <1>1, <1>3, <1>4 DEF Good, Types
<1>6. Places'
    BY <1>1, <1>2, <1>3 DEF Good, Places
<1>7. BatchOK'
    BY <1>1 DEF Good, BatchOK
<1> QED  BY <1>4, <1>5, <1>6, <1>7 DEF Good

\* remove_connection() frees what only its caller has.
LEMMA FreeGood ==
    ASSUME Good, NEW t \in Worker \cup {Loop}, FreeAt(t)
    PROVE  Good'
<1> DEFINE c == arg[t]
<1>1. /\ UNCHANGED <<watched, newQ, idleQ, unloop, batch>>
      /\ pc[t] = "free" /\ t \in Thread
      /\ used' = used \ {c} /\ admitted' = admitted \ {c}
      /\ pc' = [pc EXCEPT ![t] = back[t]] /\ arg' = [arg EXCEPT ![t] = None]
      /\ back' = [back EXCEPT ![t] = "none"]
    BY ThreadFacts DEF FreeAt, GotoWith, Queues, Events
<1>2. /\ c \in Conn
      /\ t = Loop => back[t] = "dispatch"
      /\ t # Loop => t \in Worker /\ back[t] = "wait"
    BY <1>1, LoopPlaces, WorkerPlaces DEF Removing
<1>3. /\ arg' \in [Thread -> Conn \cup {None}] /\ arg'[t] = None
      /\ \A u \in Thread : u # t => arg'[u] = arg[u]
      /\ Apart(watched, Items(newQ), Items(idleQ), arg')
      /\ Held(watched, Items(newQ), Items(idleQ), arg')
            = Held(watched, Items(newQ), Items(idleQ), arg) \ {c}
    BY <1>1, <1>2, LetGo
<1> HIDE DEF c
<1>4. /\ back' \in [Thread -> Spot] /\ back'[t] = "none"
      /\ \A u \in Thread : u # t => back'[u] = back[u]
    BY <1>1 DEF Good, Types, Spot
<1>5. ~unloop' /\ admitted' \subseteq admitted
    BY <1>1 DEF Good, Positions
<1>6. Positions' /\ pc' \in [Thread -> Spot]
    <2>1. CASE t = Loop
        <3>1. /\ "dispatch" \in Spot /\ pc' = [pc EXCEPT ![Loop] = "dispatch"]
              /\ LoopAt("dispatch", arg'[Loop], back'[Loop], admitted')
            BY <1>1, <1>2, <1>3, <2>1 DEF LoopAt, Spot
        <3> QED  BY <1>3, <1>4, <1>5, <2>1, <3>1, LoopMoves
    <2>2. CASE t # Loop
        <3>1. /\ "wait" \in Spot /\ pc' = [pc EXCEPT ![t] = "wait"] /\ t \in Worker
              /\ WorkerAt("wait", arg'[t], back'[t])
            BY <1>1, <1>2, <1>3, <2>2 DEF WorkerAt, Free, Spot
        <3> QED  BY <1>3, <1>4, <1>5, <3>1, WorkerMoves
    <2> QED  BY <2>1, <2>2
<1>7. Types'
    BY <1>1, <1>3, <1>4, <1>6 DEF Good, Types
<1>8. Places'
    BY <1>1, <1>3 DEF Good, Places
<1>9. BatchOK'
    BY <1>1 DEF Good, BatchOK
<1> QED  BY <1>6, <1>7, <1>8, <1>9 DEF Good

\* new_data_cb: a watched connection goes to the workers or is to be removed.
LEMMA NewDataGood ==
    ASSUME Good, NEW c \in Conn, NewDataCb(c)
    PROVE  Good'
<1>1. /\ UNCHANGED <<used, admitted, idleQ, unloop>>
      /\ pc[Loop] = "dispatch"
      /\ <<"io", c>> \in batch /\ batch' = batch \ {<<"io", c>>}
      /\ watched' = watched \ {c}
      /\ \/ /\ newQ' = Append(newQ, c) /\ back' = back
            /\ pc' = [pc EXCEPT ![Loop] = "notifyNew"]
            /\ arg' = [arg EXCEPT ![Loop] = None]
         \/ /\ newQ' = newQ /\ back' = [back EXCEPT ![Loop] = "dispatch"]
            /\ pc' = [pc EXCEPT ![Loop] = "remove"]
            /\ arg' = [arg EXCEPT ![Loop] = c]
    BY DEF NewDataCb, Dispatch, GotoWith
<1>2. /\ Loop \in Thread /\ arg[Loop] = None /\ c # None /\ c \in watched
      /\ None \notin watched /\ None \notin Items(newQ) /\ None \notin Items(idleQ)
      /\ None \notin Conn
    BY <1>1, LoopPlaces, ThreadFacts, Alone DEF Good, BatchOK
<1>3. /\ c \notin Items(newQ) /\ c \notin Items(idleQ) /\ \A t \in Thread : arg[t] # c
    BY <1>2 DEF Good, Places, Apart
<1>4. ~unloop'
    BY <1>1 DEF Good, Positions
<1>5. BatchOK'
    BY <1>1 DEF Good, BatchOK
<1>6. CASE /\ newQ' = Append(newQ, c) /\ back' = back
           /\ pc' = [pc EXCEPT ![Loop] = "notifyNew"]
           /\ arg' = [arg EXCEPT ![Loop] = None]
    <2>1. arg' = arg
        BY <1>2, <1>6 DEF Good, Types
    <2>2. Positions' /\ pc' \in [Thread -> Spot]
        <3>1. /\ "notifyNew" \in Spot
              /\ LoopAt("notifyNew", arg'[Loop], back'[Loop], admitted')
              /\ arg' \in [Thread -> Conn \cup {None}]
            BY <1>2, <2>1 DEF LoopAt, Spot, Good, Types
        <3> QED  BY <1>4, <1>6, <2>1, <3>1, LoopMoves
    <2>3. newQ' \in Seq(Conn) /\ Items(newQ') = Items(newQ) \cup {c} /\ Distinct(newQ')
        BY <1>3, <1>6, AppendItems DEF Good, Types, Places
    <2>4. Types'
        BY <1>1, <1>6, <2>1, <2>2, <2>3 DEF Good, Types
    <2>5. Apart(watched', Items(newQ'), Items(idleQ'), arg')
        BY <1>1, <1>3, <2>1, <2>3 DEF Good, Places, Apart
    <2>6. Held(watched', Items(newQ'), Items(idleQ'), arg')
            = Held(watched, Items(newQ), Items(idleQ), arg)
        BY <1>1, <1>2, <2>1, <2>3 DEF Held
    <2>7. Places'
        BY <1>1, <2>3, <2>5, <2>6 DEF Good, Places
    <2> QED  BY <1>5, <2>2, <2>4, <2>7 DEF Good
<1>7. CASE /\ newQ' = newQ /\ back' = [back EXCEPT ![Loop] = "dispatch"]
           /\ pc' = [pc EXCEPT ![Loop] = "remove"]
           /\ arg' = [arg EXCEPT ![Loop] = c]
    <2>1. /\ arg' \in [Thread -> Conn \cup {None}] /\ arg'[Loop] = c
          /\ \A u \in Thread : u # Loop => arg'[u] = arg[u]
        BY <1>2, <1>7, Hands DEF Good
    <2>2. /\ back' \in [Thread -> Spot] /\ back'[Loop] = "dispatch"
          /\ \A u \in Thread : u # Loop => back'[u] = back[u]
        BY <1>2, <1>7 DEF Good, Types, Spot
    <2>3. Positions' /\ pc' \in [Thread -> Spot]
        <3>1. "remove" \in Spot /\ LoopAt("remove", arg'[Loop], back'[Loop], admitted')
            BY <2>1, <2>2 DEF LoopAt, Spot, Removing
        <3> QED  BY <1>4, <1>7, <2>1, <2>2, <3>1, LoopMoves
    <2>4. Types'
        BY <1>1, <1>7, <2>1, <2>2, <2>3 DEF Good, Types
    <2>5. Apart(watched', Items(newQ'), Items(idleQ'), arg')
        BY <1>1, <1>2, <1>3, <1>7, <2>1 DEF Good, Places, Apart
    <2>6. Held(watched', Items(newQ'), Items(idleQ'), arg')
            = Held(watched, Items(newQ), Items(idleQ), arg)
        BY <1>1, <1>2, <1>7, <2>1 DEF Held
    <2>7. Places'
        BY <1>1, <1>7, <2>5, <2>6 DEF Good, Places
    <2> QED  BY <1>5, <2>3, <2>4, <2>7 DEF Good
<1> QED  BY <1>1, <1>6, <1>7

\* wakeup_cb: an idle connection is watched again.
LEMMA RequeueGood ==
    ASSUME Good, Requeue
    PROVE  Good'
<1> DEFINE c == Head(idleQ)
<1>1. /\ UNCHANGED <<used, admitted, newQ, arg, back, unloop, batch>>
      /\ pc[Loop] = "requeue" /\ idleQ # <<>>
      /\ idleQ' = Tail(idleQ) /\ watched' = watched \cup {c}
      /\ pc' = [pc EXCEPT ![Loop] = "waitNb"]
    BY DEF Requeue, Goto, Pool
<1>2. /\ idleQ' \in Seq(Conn) /\ c \in Conn /\ Items(idleQ) = Items(idleQ') \cup {c}
      /\ Distinct(idleQ') /\ c \notin Items(idleQ')
    BY <1>1, TailItems DEF Good, Types, Places
<1> HIDE DEF c
<1>3. Positions' /\ pc' \in [Thread -> Spot]
    <2>1. /\ "waitNb" \in Spot /\ ~unloop' /\ arg' \in [Thread -> Conn \cup {None}]
          /\ LoopAt("waitNb", arg'[Loop], back'[Loop], admitted')
        BY <1>1, LoopPlaces DEF LoopAt, Spot, Good, Positions, Types
    <2> QED  BY <1>1, <2>1, LoopMoves
<1>4. Types'
    BY <1>1, <1>2, <1>3 DEF Good, Types
<1>5. Apart(watched', Items(newQ'), Items(idleQ'), arg')
    BY <1>1, <1>2 DEF Good, Places, Apart
<1>6. Held(watched', Items(newQ'), Items(idleQ'), arg')
        = Held(watched, Items(newQ), Items(idleQ), arg)
    BY <1>1, <1>2 DEF Held
<1>7. Places'
    BY <1>1, <1>2, <1>5, <1>6 DEF Good, Places
<1>8. BatchOK'
    BY <1>1 DEF Good, BatchOK
<1> QED  BY <1>3, <1>4, <1>7, <1>8 DEF Good

\* data_handler takes a connection from new_data_queue_.
LEMMA PopGood ==
    ASSUME Good, NEW w \in Worker, PopNew(w), newQ # <<>>
    PROVE  Good'
<1> DEFINE c == Head(newQ)
<1>1. /\ UNCHANGED <<used, admitted, watched, idleQ, back, unloop, batch>>
      /\ pc[w] = "pop" /\ newQ' = Tail(newQ)
      /\ pc' = [pc EXCEPT ![w] = "lock"] /\ arg' = [arg EXCEPT ![w] = c]
    BY DEF PopNew, GotoWith, Pool, Events
<1>2. /\ newQ' \in Seq(Conn) /\ c \in Conn /\ Items(newQ) = Items(newQ') \cup {c}
      /\ Distinct(newQ') /\ c \notin Items(newQ')
    BY <1>1, TailItems DEF Good, Types, Places
<1> HIDE DEF c
<1>3. w \in Thread /\ arg[w] = None /\ None \notin Conn
    BY <1>1, WorkerPlaces, ThreadFacts DEF Free
<1>4. /\ arg' \in [Thread -> Conn \cup {None}] /\ arg'[w] = c
      /\ \A u \in Thread : u # w => arg'[u] = arg[u]
    BY <1>1, <1>2, <1>3, Hands DEF Good
<1>5. Positions' /\ pc' \in [Thread -> Spot]
    <2>1. /\ "lock" \in Spot /\ ~unloop' /\ admitted' \subseteq admitted
          /\ WorkerAt("lock", arg'[w], back'[w])
        BY <1>1, <1>2, <1>4 DEF WorkerAt, Spot, Good, Positions
    <2> QED  BY <1>1, <1>4, <2>1, WorkerMoves
<1>6. Types'
    BY <1>1, <1>2, <1>4, <1>5 DEF Good, Types
<1>7. Apart(watched', Items(newQ'), Items(idleQ'), arg')
    BY <1>1, <1>2, <1>3, <1>4 DEF Good, Places, Apart
<1>8. Held(watched', Items(newQ'), Items(idleQ'), arg')
        = Held(watched, Items(newQ), Items(idleQ), arg)
    BY <1>1, <1>2, <1>3, <1>4 DEF Held
<1>9. Places'
    BY <1>1, <1>2, <1>7, <1>8 DEF Good, Places
<1>10. BatchOK'
    BY <1>1 DEF Good, BatchOK
<1> QED  BY <1>5, <1>6, <1>9, <1>10 DEF Good

\* process_data_cb gives the connection to idle_data_queue_.
LEMMA PushIdleGood ==
    ASSUME Good, NEW w \in Worker, PushIdle(w)
    PROVE  Good'
<1> DEFINE c == arg[w]
<1>1. /\ UNCHANGED <<used, admitted, watched, newQ, back, unloop, batch>>
      /\ pc[w] = "keep" /\ idleQ' = Append(idleQ, c)
      /\ pc' = [pc EXCEPT ![w] = "notifyIdle"] /\ arg' = [arg EXCEPT ![w] = None]
    BY DEF PushIdle, GotoWith, Pool, Events
<1>2. w \in Thread /\ c \in Conn
    BY <1>1, WorkerPlaces, ThreadFacts
<1>3. /\ arg' \in [Thread -> Conn \cup {None}] /\ arg'[w] = None
      /\ \A u \in Thread : u # w => arg'[u] = arg[u]
      /\ \A u \in Thread : arg'[u] # c
      /\ Apart(watched, Items(newQ), Items(idleQ), arg')
      /\ Held(watched, Items(newQ), Items(idleQ), arg')
            = Held(watched, Items(newQ), Items(idleQ), arg) \ {c}
    BY <1>1, <1>2, LetGo
<1>4. /\ c \notin watched /\ c \notin Items(newQ) /\ c \notin Items(idleQ)
      /\ c \in Held(watched, Items(newQ), Items(idleQ), arg)
    BY <1>2, Alone DEF Held
<1> HIDE DEF c
<1>5. idleQ' \in Seq(Conn) /\ Items(idleQ') = Items(idleQ) \cup {c} /\ Distinct(idleQ')
    BY <1>1, <1>2, <1>4, AppendItems DEF Good, Types, Places
<1>6. Positions' /\ pc' \in [Thread -> Spot]
    <2>1. /\ "notifyIdle" \in Spot /\ ~unloop' /\ admitted' \subseteq admitted
          /\ WorkerAt("notifyIdle", arg'[w], back'[w])
        BY <1>1, <1>3 DEF WorkerAt, Free, Spot, Good, Positions
    <2> QED  BY <1>1, <1>3, <2>1, WorkerMoves
<1>7. Types'
    BY <1>1, <1>3, <1>5, <1>6 DEF Good, Types
<1>8. Apart(watched, Items(newQ), Items(idleQ'), arg')
    BY <1>3, <1>4, <1>5 DEF Apart
<1>9. Held(watched, Items(newQ), Items(idleQ'), arg')
        = Held(watched, Items(newQ), Items(idleQ), arg') \cup {c}
    BY <1>5 DEF Held
<1>10. Places'
    BY <1>1, <1>3, <1>4, <1>5, <1>8, <1>9 DEF Good, Places
<1>11. BatchOK'
    BY <1>1 DEF Good, BatchOK
<1> QED  BY <1>6, <1>7, <1>10, <1>11 DEF Good

-----------------------------------------------------------------------------
(* The theorem.                                                            *)

LEMMA InitGood ==
    ASSUME LInit
    PROVE  Good
<1>1. /\ used = {} /\ admitted = {} /\ watched = {} /\ newQ = <<>> /\ idleQ = <<>>
      /\ batch = {} /\ ~unloop
      /\ \A t \in Thread : arg[t] = None
      /\ pc[Loop] = "poll" /\ pc[Stopper] = "idle"
      /\ \A w \in Worker : pc[w] \in {"enter", "gone"}
    <2>1. ASSUME NEW w \in Worker PROVE pc[w] \in {"enter", "gone"}
        <3>1. CASE w \in First
            BY <3>1, ThreadFacts DEF LInit
        <3>2. CASE w \notin First
            BY <3>2, ThreadFacts DEF LInit
        <3> QED  BY <3>1, <3>2
    <2>2. pc[Loop] = "poll" /\ pc[Stopper] = "idle"
        BY ThreadFacts, ThreadAssumption DEF LInit
    <2> QED  BY <2>1, <2>2 DEF LInit
<1>2. Types
    <2>1. pc \in [Thread -> Spot]
        <3>1. \A t \in Thread : pc[t] \in Spot
            BY <1>1, ThreadFacts DEF Spot
        <3> QED  BY <3>1 DEF LInit
    <2>2. back \in [Thread -> Spot] /\ arg \in [Thread -> Conn \cup {None}]
        BY DEF LInit, Spot
    <2> QED  BY <1>1, <2>1, <2>2 DEF Types
<1>3. Positions
    BY <1>1, ThreadFacts DEF Positions, LoopAt, WorkerAt, Free
<1>4. Items(newQ) = {} /\ Items(idleQ) = {} /\ Distinct(newQ) /\ Distinct(idleQ)
    <2>1. Len(newQ) = 0 /\ Len(idleQ) = 0
        BY <1>1
    <2> QED  BY <2>1 DEF Items, Distinct
<1>5. Places
    BY <1>1, <1>4, ThreadFacts DEF Places, Apart, Held
<1>6. BatchOK
    BY <1>1 DEF BatchOK
<1> QED  BY <1>2, <1>3, <1>5, <1>6 DEF Good

\* Nobody sweeps and the listener does not end before stop().
LEMMA NextGood ==
    ASSUME Good, ~stopMe, ~stopMe', [LNext]_lvars
    PROVE  Good'
<1>1. CASE Network
    BY <1>1, NetworkGood
<1>2. CASE LoopStep \/ LoopBreaks
    <2>1. pc[Loop] \notin {"drain", "sweep", "unlooped", "join"}
        BY LoopPlaces
    <2>2. CASE RemoveStep(Loop)
        BY <2>1, <2>2, LoopOnlyGood, FreeGood
           DEF RemoveStep, Drain, DrainDone, Sweep, SweepDone
    <2>3. ~DestroyLoop /\ ~ListenerExits /\ ~LoopBreaks
        BY <2>1 DEF DestroyLoop, ListenerExits, LoopBreaks, Good, Positions
    <2> QED  BY <1>2, <2>2, <2>3, PollGood, PipeGood, LoopOnlyGood, AcceptGood, AdmitGood,
                RefuseGood, NewDataGood, RequeueGood
             DEF LoopStep
<1>3. CASE \E w \in Worker : WorkerStep(w) \/ Idle(w)
    <2>1. PICK w \in Worker : WorkerStep(w) \/ Idle(w)
        BY <1>3
    <2>2. pc[w] \notin {"drain", "sweep"} /\ pc[Loop] # "join"
        BY LoopPlaces, WorkerPlaces
    <2>3. CASE RemoveStep(w)
        BY <2>2, <2>3, WorkerOnlyGood, FreeGood
           DEF RemoveStep, Drain, DrainDone, Sweep, SweepDone
    <2>4. ~Leave(w)
        BY <2>2 DEF Leave
    <2> QED  BY <2>1, <2>3, <2>4, WorkerOnlyGood, StartGood, PopGood,
                PushIdleGood
             DEF WorkerStep
<1>4. CASE Stop \/ StopStep \/ StopTimesOut
    <2>1. pc[Stopper] = "idle"
        BY DEF Good, Positions
    <2> QED  BY <1>4, <2>1
             DEF Stop, StopStep, StopSeesExit, StopTimesOut, StopUnloops, StopRemovesAll,
                 StopKills, RemoveStep, RemoveLock, FreeAt, Drain, DrainDone, Sweep,
                 SweepDone
<1>5. CASE UNCHANGED lvars
    BY <1>5, QuietSteps DEF lvars
<1> QED  BY <1>1, <1>2, <1>3, <1>4, <1>5 DEF LNext

\* stop_me_ is never reset.
LEMMA StopStays ==
    ASSUME stopMe, [LNext]_lvars
    PROVE  stopMe'
BY DEF LNext, Network, LoopStep, WorkerStep, StopStep, StopTimesOut, RemoveStep, lvars,
       ClientConnects, ClientSends, ClientCloses, Poll, PipeCb, EndIteration, AcceptCb,
       OnConnected, OnConnectedReturns, Admit, Refuse, NewDataCb, NotifyNew, WakeupCb,
       Requeue, WaitNb, RequeueDone, RemoveLock, FreeAt, Drain, DrainDone, Sweep,
       SweepDone, Enter, Wake, Help, StartOne, Idle, PopNew, LockConn, OnDataArrival,
       GiveUp, PushIdle, NotifyIdle, AsyncSend, Leave, WorkerExits, LoopBreaks,
       DestroyLoop, ListenerExits, Stop, StopSeesExit, StopUnloops, StopRemovesAll,
       StopKills

\* The inductive invariant holds until stop() is called.
THEOREM ListenerInvariant == LSpec => []Inv
<1>1. LInit => Inv
    BY InitGood DEF Inv
<1>2. Inv /\ [LNext]_lvars => Inv'
    BY NextGood, StopStays DEF Inv
<1> QED  BY <1>1, <1>2, PTL DEF LSpec

\* A place in HeldBy is one of those of Held, and there is only one.
LEMMA OneHolder ==
    ASSUME Good, NEW c \in Conn
    PROVE  /\ HeldBy(c) # {} => c \in Held(watched, Items(newQ), Items(idleQ), arg)
           /\ c \in Held(watched, Items(newQ), Items(idleQ), arg) =>
                 \E h : HeldBy(c) = {h}
<1> DEFINE NewAt == {<<"new", i>> : i \in {j \in DOMAIN newQ : newQ[j] = c}}
           IdleAt == {<<"idle", i>> : i \in {j \in DOMAIN idleQ : idleQ[j] = c}}
           ThreadAt == {<<"thread", t>> : t \in {u \in Thread : arg[u] = c}}
           WatchedAt == IF c \in watched THEN {<<"watched", 0>>} ELSE {}
<1>1. HeldBy(c) = WatchedAt \cup NewAt \cup IdleAt \cup ThreadAt
    BY DEF HeldBy
<1>2. DOMAIN newQ = 1..Len(newQ) /\ DOMAIN idleQ = 1..Len(idleQ)
    BY DEF Good, Types
<1>3. /\ NewAt # {} <=> c \in Items(newQ)
      /\ IdleAt # {} <=> c \in Items(idleQ)
      /\ ThreadAt # {} <=> \E t \in Thread : arg[t] = c
      /\ WatchedAt # {} <=> c \in watched
    BY <1>2 DEF Items
<1>4. /\ c \in watched => \E h : WatchedAt = {h}
      /\ c \in Items(newQ) => \E h : NewAt = {h}
      /\ c \in Items(idleQ) => \E h : IdleAt = {h}
      /\ (\E t \in Thread : arg[t] = c) => \E h : ThreadAt = {h}
    <2>1. c \in watched => \E h : WatchedAt = {h}
        OBVIOUS
    <2>2. ASSUME c \in Items(newQ) PROVE \E h : NewAt = {h}
        <3>1. PICK i \in 1..Len(newQ) : newQ[i] = c
            BY <2>2 DEF Items
        <3>2. {j \in DOMAIN newQ : newQ[j] = c} = {i}
            BY <1>2, <3>1 DEF Good, Places, Distinct
        <3>3. NewAt = {<<"new", i>>}
            BY <3>2
        <3> QED  BY <3>3
    <2>3. ASSUME c \in Items(idleQ) PROVE \E h : IdleAt = {h}
        <3>1. PICK i \in 1..Len(idleQ) : idleQ[i] = c
            BY <2>3 DEF Items
        <3>2. {j \in DOMAIN idleQ : idleQ[j] = c} = {i}
            BY <1>2, <3>1 DEF Good, Places, Distinct
        <3>3. IdleAt = {<<"idle", i>>}
            BY <3>2
        <3> QED  BY <3>3
    <2>4. ASSUME NEW t \in Thread, arg[t] = c PROVE \E h : ThreadAt = {h}
        <3>1. {u \in Thread : arg[u] = c} = {t}
            BY <2>4, Alone
        <3>2. ThreadAt = {<<"thread", t>>}
            BY <3>1
        <3> QED  BY <3>2
    <2> QED  BY <2>1, <2>2, <2>3, <2>4
<1>5. /\ ~(c \in watched /\ c \in Items(newQ)) /\ ~(c \in watched /\ c \in Items(idleQ))
      /\ ~(c \in Items(newQ) /\ c \in Items(idleQ))
      /\ (\E t \in Thread : arg[t] = c) =>
            c \notin watched /\ c \notin Items(newQ) /\ c \notin Items(idleQ)
    BY DEF Good, Places, Apart
<1> HIDE DEF NewAt, IdleAt, ThreadAt, WatchedAt
<1>6. HeldBy(c) # {} => c \in Held(watched, Items(newQ), Items(idleQ), arg)
    BY <1>1, <1>3 DEF Held
<1>7. ASSUME c \in Held(watched, Items(newQ), Items(idleQ), arg)
      PROVE  \E h : HeldBy(c) = {h}
    <2>1. CASE c \in watched
        BY <1>1, <1>3, <1>4, <1>5, <2>1
    <2>2. CASE c \in Items(newQ)
        BY <1>1, <1>3, <1>4, <1>5, <2>2
    <2>3. CASE c \in Items(idleQ)
        BY <1>1, <1>3, <1>4, <1>5, <2>3
    <2>4. CASE \E t \in Thread : arg[t] = c
        BY <1>1, <1>3, <1>4, <1>5, <2>4
    <2> QED  BY <1>7, <2>1, <2>2, <2>3, <2>4 DEF Held
<1> QED  BY <1>6, <1>7

\* Until stop() an accepted connection is watched, queued, with a worker or in a
\* callback of the loop, and never in two of these places; nobody has a slot of
\* ev_pool_ that is free.
THEOREM ListenerOneOwner == LSpec => []OneOwner
<1>1. Inv => OneOwner
    <2> SUFFICES ASSUME Good, NEW c \in Conn
                 PROVE  /\ c \in admitted => Cardinality(HeldBy(c)) = 1
                        /\ HeldBy(c) # {} => c \in used
        BY DEF Inv, OneOwner
    <2>1. c \in admitted => \E h : HeldBy(c) = {h}
        BY OneHolder DEF Good, Places
    <2>2. c \in admitted => Cardinality(HeldBy(c)) = 1
        BY <2>1, FS_Singleton
    <2>3. HeldBy(c) # {} => c \in used
        BY OneHolder DEF Good, Places
    <2> QED  BY <2>2, <2>3
<1> QED  BY <1>1, ListenerInvariant, PTL
=============================================================================
