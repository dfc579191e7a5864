---------------------------- MODULE ThrPoolProofs ----------------------------
(***************************************************************************)
(* Proofs about nthread::thrpool: count_ counts the workers inside, growth *)
(* without a lock overshoots by a known amount, and a stopped pool is      *)
(* quiet; for any number of threads and whatever parameters init() takes.  *)
(***************************************************************************)
EXTENDS ThrPool, FiniteSetTheorems, TLAPS

\* Workers that are about to call start_one().
Spawning == {w \in Worker : pc[w] = "spawn"}

\* threads_ has every thread object there is: a worker is registered from its
\* creation until cleanup() or unpolite_stop() deletes it, and the flags of
\* deleted entries are gone with them.
Registered ==
    /\ threads = {w \in Worker : pc[w] \notin {"none", "orphan"}}
    /\ flagged \subseteq threads

\* What TypeOK and the count need of each other: on_exit() never takes count_
\* below zero.
Base == TypeOK /\ Registered /\ CountTracksWorkers

\* start_one()s that init() has still to do, and the most workers there may be.
ToStart == IF owner = "init" THEN todo ELSE 0
MostWorkers == IF Max = 1 THEN 1 ELSE 2 * Max + Min - 3

\* A pool that is initialised once: whoever starts workers has a claim on the
\* room they take.  A worker that decides to start one leaves at least one
\* start_one() of init() behind it, and found fewer than max_ registered.
Growth ==
    plan.inits = 1 =>
        /\ ~reinit
        /\ inits = 0 => owner = "out" /\ threads = {} /\ lost = 0
        /\ owner = "init" => todo <= Min /\ (threads # {} => todo < Min)
        /\ Cardinality(Kept) + Cardinality(Spawning) + ToStart <= MostWorkers

\* The inductive invariant.
Inv == Base /\ Growth /\ StoppedIsQuiet

-----------------------------------------------------------------------------
\* Sets of workers are finite: their cardinalities are numbers.
LEMMA SubsetCard ==
    ASSUME NEW S \in SUBSET Worker
    PROVE  IsFiniteSet(S) /\ Cardinality(S) \in Nat
BY BoundAssumption, FS_Subset, FS_CardinalityType

LEMMA AddCard ==
    ASSUME NEW S \in SUBSET Worker, NEW w \in Worker, w \notin S
    PROVE  Cardinality(S \cup {w}) = Cardinality(S) + 1
BY SubsetCard, FS_AddElement

LEMMA DelCard ==
    ASSUME NEW S \in SUBSET Worker, NEW w \in S
    PROVE  /\ Cardinality(S \ {w}) = Cardinality(S) - 1
           /\ Cardinality(S) > 0
BY SubsetCard, FS_RemoveElement

LEMMA SubCard ==
    ASSUME NEW S \in SUBSET Worker, NEW T \in SUBSET S
    PROVE  Cardinality(T) <= Cardinality(S)
BY SubsetCard, FS_Subset

\* The parameters that init() accepts.
LEMMA PlanFacts ==
    ASSUME TypeOK
    PROVE  /\ Min \in Nat \ {0} /\ Max \in Nat \ {0} /\ Min <= Max
           /\ plan.inits \in Nat /\ plan.pending \in Nat
BY ParamAssumption DEF TypeOK, Plan, Min, Max

\* The sets that are counted are sets of workers.
LEMMA CountedSets ==
    ASSUME TypeOK
    PROVE  /\ Counted \in SUBSET Worker /\ Kept \in SUBSET Worker
           /\ Spawning \in SUBSET Worker
           /\ Cardinality(Counted) \in Nat /\ Cardinality(Kept) \in Nat
           /\ Cardinality(Spawning) \in Nat /\ Cardinality(threads) \in Nat
<1>1. /\ Counted \in SUBSET Worker /\ Kept \in SUBSET Worker
      /\ Spawning \in SUBSET Worker /\ threads \in SUBSET Worker
  BY DEF TypeOK, Counted, Kept, Spawning
<1> QED
  BY <1>1, SubsetCard

-----------------------------------------------------------------------------
\* Worker w goes from one position to another, both inside its life.
LEMMA MoveSets ==
    ASSUME TypeOK, Registered, NEW w \in Worker, NEW p \in Positions,
           pc[w] \notin {"none", "orphan", "exited"}, p \notin {"none", "orphan"},
           pc' = [pc EXCEPT ![w] = p], UNCHANGED <<threads, flagged>>
    PROVE  /\ pc' \in [Worker -> Positions]
           /\ Registered'
           /\ Counted' = IF p \in Inside THEN Counted \cup {w} ELSE Counted \ {w}
           /\ Kept' = IF p = "exited" THEN Kept \ {w} ELSE Kept
           /\ Spawning' = IF p = "spawn" THEN Spawning \cup {w} ELSE Spawning \ {w}
           /\ w \in Kept
BY DEF TypeOK, Registered, Counted, Kept, Spawning, Positions, Inside

\* start_one(): one worker more that is registered and not yet inside.
LEMMA LaunchSets ==
    ASSUME TypeOK, Registered, NEW by, NEW next, LaunchBy(by, next), UNCHANGED flagged,
           \/ by \notin Worker
           \/ by \in Worker /\ pc[by] = "spawn" /\ next = "handle"
    PROVE  /\ pc' \in [Worker -> Positions]
           /\ threads' \subseteq Worker
           /\ threads' # {}
           /\ Registered'
           /\ Counted' = Counted
           /\ \E t \in Worker \ Kept : Kept' = Kept \cup {t}
           /\ Spawning' = Spawning \ {by}
<1>1. PICK t \in Worker :
         /\ pc[t] = "none"
         /\ pc' = [w \in Worker |-> IF w = t THEN "created"
                                    ELSE IF w = by THEN next ELSE pc[w]]
         /\ threads' = threads \cup {t}
  BY DEF LaunchBy
<1>2. pc' \in [Worker -> Positions] /\ threads' \subseteq Worker /\ threads' # {}
  BY <1>1 DEF TypeOK, Positions, Inside
<1>3. Registered'
  BY <1>1 DEF TypeOK, Registered
<1>4. Counted' = Counted /\ Spawning' = Spawning \ {by}
  BY <1>1 DEF TypeOK, Counted, Spawning, Inside
<1>5. t \in Worker \ Kept /\ Kept' = Kept \cup {t}
  BY <1>1 DEF TypeOK, Registered, Kept
<1> QED
  BY <1>2, <1>3, <1>4, <1>5

\* cleanup(): what has exited is unregistered, and nothing else happens to the
\* sets that are counted.
LEMMA CleanupSets ==
    ASSUME TypeOK, Registered, NEW by, NEW next, CleanupBy(by, next),
           \/ by \notin Worker
           \/ by \in Worker /\ pc[by] \in Inside /\ next \in Inside
    PROVE  /\ pc' \in [Worker -> Positions]
           /\ threads' \subseteq Worker /\ threads' \subseteq threads
           /\ flagged' \subseteq flagged
           /\ Registered'
           /\ Counted' = Counted
           /\ Kept' = Kept
           /\ Spawning' = IF by \in Worker /\ next = "spawn"
                          THEN Spawning \cup {by} ELSE Spawning \ {by}
           /\ \A w \in Worker : w # by => pc'[w] \in {pc[w], "none"}
<1> USE DEF CleanupBy
<1>1. pc' \in [Worker -> Positions] /\ threads' \subseteq Worker
  BY DEF TypeOK, Positions, Inside, Kept
<1>2. threads' \subseteq threads /\ flagged' \subseteq flagged
  BY DEF TypeOK, Kept
<1>3. Registered'
  BY DEF TypeOK, Registered, Kept, Inside
<1>4. Counted' = Counted
  BY DEF TypeOK, Registered, Counted, Kept, Inside
<1>5. Kept' = Kept
  BY DEF TypeOK, Registered, Kept, Inside
<1>6. Spawning' = IF by \in Worker /\ next = "spawn"
                  THEN Spawning \cup {by} ELSE Spawning \ {by}
  BY DEF TypeOK, Registered, Spawning, Kept, Inside
<1>7. \A w \in Worker : w # by => pc'[w] \in {pc[w], "none"}
  BY DEF TypeOK
<1> QED
  BY <1>1, <1>2, <1>3, <1>4, <1>5, <1>6, <1>7

-----------------------------------------------------------------------------
\* A step that neither starts a worker nor decides to keeps Growth.
LEMMA GrowthShrinks ==
    ASSUME TypeOK, TypeOK', Growth, UNCHANGED <<plan, inits>>,
           Kept' \in SUBSET Kept, Spawning' \in SUBSET Spawning,
           threads' \subseteq threads,
           plan.inits = 1 =>
               /\ inits = 0 => UNCHANGED <<owner, lost>>
               /\ ~reinit'
               /\ owner' = "init" => owner = "init" /\ todo' = todo
    PROVE  Growth'
<1> SUFFICES ASSUME plan.inits = 1
             PROVE  Growth'
  BY DEF Growth
<1>1. /\ Cardinality(Kept') <= Cardinality(Kept)
      /\ Cardinality(Spawning') <= Cardinality(Spawning)
      /\ Cardinality(Kept) \in Nat /\ Cardinality(Kept') \in Nat
      /\ Cardinality(Spawning) \in Nat /\ Cardinality(Spawning') \in Nat
  BY CountedSets, SubCard, SubsetCard
<1>2. ToStart' <= ToStart /\ ToStart \in Nat /\ ToStart' \in Nat
  BY DEF ToStart, TypeOK
<1>3. MostWorkers' = MostWorkers /\ Min' = Min /\ MostWorkers \in Int
  BY PlanFacts DEF MostWorkers, Min, Max
<1>4. Cardinality(Kept') + Cardinality(Spawning') + ToStart' <= MostWorkers'
  BY <1>1, <1>2, <1>3 DEF Growth
<1> QED
  BY <1>3, <1>4 DEF Growth

\* A worker moves and no worker is started.
LEMMA MoveInv ==
    ASSUME Inv, NEW w \in Worker, NEW p \in Positions,
           pc[w] \notin {"none", "orphan", "exited"},
           p \notin {"none", "orphan", "spawn"},
           pc' = [pc EXCEPT ![w] = p], UNCHANGED <<threads, flagged, ownerVars>>,
           idle' \in [Worker -> 0..(Attempts + 1)],
           pending' \in Nat, exits' \in 0..MaxExits,
           \/ count' = count /\ (pc[w] \in Inside <=> p \in Inside)
           \/ count' = count + 1 /\ pc[w] \notin Inside /\ p \in Inside
           \/ count' = count - 1 /\ pc[w] \in Inside /\ p \notin Inside,
           w \in flagged => \/ pc[w] \in Inside \ {"loop", "leave"}
                            \/ p \notin Inside \ {"loop", "leave"}
    PROVE  Inv'
<1> USE DEF Inv, Base
<1>1. /\ pc' \in [Worker -> Positions]
      /\ Registered'
      /\ Counted' = IF p \in Inside THEN Counted \cup {w} ELSE Counted \ {w}
      /\ Kept' \in SUBSET Kept
      /\ Spawning' \in SUBSET Spawning
      /\ w \in Counted <=> pc[w] \in Inside
  <2>1. /\ pc' \in [Worker -> Positions]
        /\ Registered'
        /\ Counted' = IF p \in Inside THEN Counted \cup {w} ELSE Counted \ {w}
        /\ Kept' = IF p = "exited" THEN Kept \ {w} ELSE Kept
        /\ Spawning' = IF p = "spawn" THEN Spawning \cup {w} ELSE Spawning \ {w}
    BY MoveSets
  <2> QED
    BY <2>1 DEF Counted
<1>2. /\ Counted \in SUBSET Worker /\ Cardinality(Counted) \in Nat
      /\ count = Cardinality(Counted) + lost /\ lost \in Nat /\ lost' = lost
  BY CountedSets DEF CountTracksWorkers, TypeOK, ownerVars
<1>3. count' = Cardinality(Counted') + lost' /\ count' \in Nat
  <2>1. CASE count' = count /\ (pc[w] \in Inside <=> p \in Inside)
    <3>1. Counted' = Counted
      BY <1>1, <2>1
    <3> QED
      BY <1>2, <2>1, <3>1
  <2>2. CASE count' = count + 1 /\ pc[w] \notin Inside /\ p \in Inside
    <3>1. Cardinality(Counted') = Cardinality(Counted) + 1
      BY <1>1, <1>2, <2>2, AddCard
    <3> QED
      BY <1>2, <2>2, <3>1
  <2>3. CASE count' = count - 1 /\ pc[w] \in Inside /\ p \notin Inside
    <3>1. Cardinality(Counted') = Cardinality(Counted) - 1 /\ Cardinality(Counted) > 0
      BY <1>1, <1>2, <2>3, DelCard
    <3> QED
      BY <1>2, <2>3, <3>1
  <2> QED
    BY <2>1, <2>2, <2>3
<1>4. TypeOK' /\ CountTracksWorkers'
  BY <1>1, <1>3 DEF TypeOK, ownerVars, CountTracksWorkers
<1>5. Growth'
  BY <1>1, <1>4, GrowthShrinks DEF ownerVars, Growth
<1>6. StoppedIsQuiet'
  BY DEF StoppedIsQuiet, TypeOK, ownerVars
<1> QED
  BY <1>1, <1>4, <1>5, <1>6

\* Every step of a worker that is a move in that sense.
LEMMA WorkerMoveInv ==
    ASSUME Inv, NEW w \in Worker,
           \/ Enter(w) \/ Loop(w) \/ Take(w) \/ Timeout(w) \/ Got(w)
           \/ Handle(w) \/ Leave(w) \/ NotifyExit(w) \/ End(w)
    PROVE  Inv'
<1>0. TypeOK /\ Attempts \in Nat \ {0}
  BY ParamAssumption DEF Inv, Base
<1> USE DEF TypeOK, Positions, Inside
<1>1. CASE Enter(w)
  BY <1>0, <1>1, MoveInv DEF Enter
<1>2. CASE Loop(w)
  <2>1. CASE w \in flagged
    BY <1>0, <1>2, <2>1, MoveInv DEF Loop
  <2>2. CASE w \notin flagged
    BY <1>0, <1>2, <2>2, MoveInv DEF Loop
  <2> QED
    BY <2>1, <2>2
<1>3. CASE Take(w)
  <2>1. pending' \in Nat
    BY <1>0, <1>3 DEF Take
  <2>2. pc[w] = "wait" /\ pc' = [pc EXCEPT ![w] = "got"]
    BY <1>3 DEF Take
  <2> QED
    BY <1>0, <1>3, <2>1, <2>2, MoveInv DEF Take
<1>4. CASE Timeout(w)
  <2>1. idle' \in [Worker -> 0..(Attempts + 1)]
    BY <1>0, <1>4 DEF Timeout
  <2>2. PICK p \in {"leave", "tidy"} : pc' = [pc EXCEPT ![w] = p]
    BY <1>4 DEF Timeout
  <2> QED
    BY <1>0, <1>4, <2>1, <2>2, MoveInv DEF Timeout
<1>5. CASE Got(w)
  <2>1. idle' \in [Worker -> 0..(Attempts + 1)]
    BY <1>0, <1>5 DEF Got
  <2>2. PICK p \in {"leave", "help", "handle"} : pc' = [pc EXCEPT ![w] = p]
    BY <1>5 DEF Got
  <2> QED
    BY <1>0, <1>5, <2>1, <2>2, MoveInv DEF Got
<1>6. CASE Handle(w)
  BY <1>0, <1>6, MoveInv DEF Handle
<1>7. CASE Leave(w)
  <2>1. idle' \in [Worker -> 0..(Attempts + 1)]
    BY <1>0, <1>7 DEF Leave
  <2> QED
    BY <1>0, <1>7, <2>1, MoveInv DEF Leave
<1>8. CASE NotifyExit(w)
  <2>1. exits' \in 0..MaxExits
    BY <1>0, <1>8, BoundAssumption DEF NotifyExit, Saturated
  <2> QED
    BY <1>0, <1>8, <2>1, MoveInv DEF NotifyExit
<1>9. CASE End(w)
  BY <1>0, <1>9, MoveInv DEF End
<1> QED
  BY <1>1, <1>2, <1>3, <1>4, <1>5, <1>6, <1>7, <1>8, <1>9

\* cleanup() between two jobs.
LEMMA TidyInv ==
    ASSUME Inv, NEW w \in Worker, Tidy(w)
    PROVE  Inv'
<1> USE DEF Inv, Base
<1>1. /\ pc' \in [Worker -> Positions]
      /\ threads' \subseteq Worker /\ threads' \subseteq threads
      /\ flagged' \subseteq flagged
      /\ Registered'
      /\ Counted' = Counted
      /\ Kept' = Kept
      /\ Spawning' \subseteq Spawning
      /\ \A v \in Worker : v # w => pc'[v] \in {pc[v], "none"}
  BY CleanupSets DEF Tidy, Inside
<1>2. TypeOK' /\ CountTracksWorkers'
  BY <1>1 DEF Tidy, TypeOK, CountTracksWorkers, ownerVars
<1>3. Growth'
  BY <1>1, <1>2, GrowthShrinks DEF Tidy, ownerVars, Growth
<1>4. StoppedIsQuiet'
  BY <1>1 DEF Tidy, CleanupBy, StoppedIsQuiet, ownerVars, TypeOK, Inside
<1> QED
  BY <1>1, <1>2, <1>3, <1>4

\* A worker asks for room: it finds at most max_ - 1 workers, itself included,
\* and all the others may be about to start one as well.
LEMMA HelpInv ==
    ASSUME Inv, NEW w \in Worker, Help(w)
    PROVE  Inv'
<1> USE DEF Inv, Base
<1> DEFINE next == IF Cardinality(Kept) < Max THEN "spawn" ELSE "handle"
<1>1. pc[w] = "help" /\ CleanupBy(w, next) /\ next \in Inside
  BY DEF Help, Inside
<1>2. /\ pc' \in [Worker -> Positions]
      /\ threads' \subseteq Worker /\ threads' \subseteq threads
      /\ flagged' \subseteq flagged
      /\ Registered'
      /\ Counted' = Counted
      /\ Kept' = Kept
      /\ Spawning' = IF next = "spawn" THEN Spawning \cup {w} ELSE Spawning \ {w}
      /\ \A v \in Worker : v # w => pc'[v] \in {pc[v], "none"}
  BY <1>1, CleanupSets DEF Inside
<1>3. TypeOK' /\ CountTracksWorkers'
  BY <1>2 DEF Help, TypeOK, CountTracksWorkers, ownerVars
<1>4. Growth'
  <2>1. CASE next # "spawn"
    BY <1>2, <1>3, <2>1, GrowthShrinks DEF Help, ownerVars, Growth
  <2>2. CASE next = "spawn" /\ plan.inits = 1
    <3>1. w \in Kept /\ Kept \in SUBSET Worker /\ Kept \subseteq threads
      BY <1>1 DEF Registered, Kept, TypeOK, Inside
    <3>2. Spawning' \in SUBSET Kept
      BY <1>1, <1>2, <3>1 DEF Registered, Kept, Spawning, TypeOK
    <3>3. /\ Cardinality(Spawning') <= Cardinality(Kept)
          /\ Cardinality(Kept) \in Nat /\ Cardinality(Spawning') \in Nat
      BY <3>1, <3>2, SubCard, SubsetCard
    <3>4. Cardinality(Kept) >= 1 /\ Cardinality(Kept) < Max
      <4>1. Cardinality(Kept) < Max
        BY <2>2
      <4>2. Cardinality(Kept) > 0
        BY <3>1, DelCard
      <4> QED
        BY <3>3, <4>1, <4>2
    <3>5. ToStart \in Nat /\ ToStart < Min
      <4>1. todo \in Nat /\ Min \in Nat \ {0} /\ threads # {}
        BY <3>1, PlanFacts DEF TypeOK
      <4>2. owner = "init" => todo < Min
        BY <2>2, <4>1 DEF Growth
      <4> QED
        BY <4>1, <4>2 DEF ToStart
    <3>6. ToStart' = ToStart /\ MostWorkers' = MostWorkers /\ Min' = Min
      BY DEF Help, ownerVars, ToStart, MostWorkers, Min, Max
    <3>7. Cardinality(Kept') + Cardinality(Spawning') + ToStart' <= MostWorkers'
      BY <1>2, <3>3, <3>4, <3>5, <3>6, PlanFacts DEF MostWorkers
    <3> QED
      BY <1>2, <2>2, <3>6, <3>7 DEF Growth, Help, ownerVars
  <2>3. CASE plan.inits # 1
    BY <2>3 DEF Growth, Help, ownerVars
  <2> QED
    BY <2>1, <2>2, <2>3
<1>5. StoppedIsQuiet'
  BY <1>1, <1>2 DEF Help, StoppedIsQuiet, ownerVars, TypeOK, Inside
<1> QED
  BY <1>2, <1>3, <1>4, <1>5

\* A worker starts one: its claim becomes a worker.
LEMMA StartOneInv ==
    ASSUME Inv, NEW w \in Worker, StartOne(w)
    PROVE  Inv'
<1> USE DEF Inv, Base
<1>0. pc[w] = "spawn" /\ UNCHANGED <<idle, flagged, count, pending, exits, ownerVars>>
  BY DEF StartOne
<1>1. CASE pc' = [pc EXCEPT ![w] = "handle"] /\ UNCHANGED threads
  BY <1>0, <1>1, MoveInv DEF TypeOK, Positions, Inside
<1>2. CASE LaunchBy(w, "handle")
  <2>1. /\ pc' \in [Worker -> Positions]
        /\ threads' \subseteq Worker
        /\ threads' # {}
        /\ Registered'
        /\ Counted' = Counted
        /\ \E t \in Worker \ Kept : Kept' = Kept \cup {t}
        /\ Spawning' = Spawning \ {w}
    BY <1>0, <1>2, LaunchSets
  <2>2. TypeOK' /\ CountTracksWorkers'
    BY <1>0, <2>1 DEF TypeOK, CountTracksWorkers, ownerVars
  <2>3. Growth'
    <3> SUFFICES ASSUME plan.inits = 1
                 PROVE  Growth'
      BY <1>0 DEF Growth, ownerVars
    <3>1. w \in Spawning /\ w \in threads
      BY <1>0 DEF Spawning, Registered
    <3>2. /\ Cardinality(Kept') = Cardinality(Kept) + 1
          /\ Cardinality(Spawning') = Cardinality(Spawning) - 1
      BY <2>1, <3>1, AddCard, DelCard, CountedSets
    <3>3. ToStart' = ToStart /\ MostWorkers' = MostWorkers /\ Min' = Min
      BY <1>0 DEF ownerVars, ToStart, MostWorkers, Min, Max
    <3>4. ToStart \in Nat /\ MostWorkers \in Int
      BY PlanFacts DEF ToStart, MostWorkers, TypeOK
    <3>5. Cardinality(Kept') + Cardinality(Spawning') + ToStart' <= MostWorkers'
      BY <3>2, <3>3, <3>4, CountedSets DEF Growth
    <3> QED
      BY <1>0, <3>1, <3>3, <3>5 DEF Growth, ownerVars
  <2>4. StoppedIsQuiet'
    BY <1>0, <1>2 DEF LaunchBy, StoppedIsQuiet, ownerVars, TypeOK, Inside
  <2> QED
    BY <2>1, <2>2, <2>3, <2>4
<1> QED
  BY <1>1, <1>2 DEF StartOne

\* Every step of a worker.
LEMMA WorkerStepInv ==
    ASSUME Inv, NEW w \in Worker, WorkerStep(w)
    PROVE  Inv'
BY WorkerMoveInv, TidyInv, HelpInv, StartOneInv DEF WorkerStep

-----------------------------------------------------------------------------
\* The owner does something that leaves the workers alone.
LEMMA OwnerInv ==
    ASSUME Inv, UNCHANGED <<workerVars, plan, inits, lost>>,
           pending' \in Nat, exits' \in 0..MaxExits, owner' \in Owner,
           todo' \in Nat, failed' \in Nat, reinit' \in BOOLEAN,
           owner' = "out" => owner = "out" \/ count = 0,
           plan.inits = 1 =>
               /\ inits = 0 => UNCHANGED owner
               /\ ~reinit'
               /\ owner' = "init" => owner = "init" /\ todo' = todo
    PROVE  Inv'
<1> USE DEF Inv, Base
<1>1. UNCHANGED <<pc, idle, flagged, threads, count, plan, inits, lost>>
  BY DEF workerVars
<1>2. /\ Counted' = Counted /\ Kept' = Kept /\ Spawning' = Spawning
      /\ Registered'
  BY <1>1 DEF Counted, Kept, Spawning, Registered
<1>3. TypeOK' /\ CountTracksWorkers'
  BY <1>1, <1>2 DEF TypeOK, CountTracksWorkers
<1>4. Growth'
  BY <1>1, <1>2, <1>3, GrowthShrinks
<1>5. StoppedIsQuiet'
  <2>1. CASE owner' = "out" /\ count = 0
    <3>1. Counted \in SUBSET Worker /\ IsFiniteSet(Counted) /\ Cardinality(Counted) = 0
      BY <2>1, CountedSets, SubsetCard DEF CountTracksWorkers, TypeOK
    <3>2. Counted = {}
      BY <3>1, FS_EmptySet
    <3> QED
      BY <1>1, <3>2 DEF StoppedIsQuiet, Counted, TypeOK
  <2>2. CASE owner' # "out"
    BY <2>2 DEF StoppedIsQuiet
  <2>3. CASE owner = "out"
    BY <1>1, <2>3 DEF StoppedIsQuiet
  <2> QED
    BY <2>1, <2>2, <2>3
<1> QED
  BY <1>2, <1>3, <1>4, <1>5

\* Posting work, and graceful_stop() but for its sweep and its cleanup().
LEMMA OwnerMoveInv ==
    ASSUME Inv,
           \/ Post \/ Stop \/ NotifyWorkers \/ WaitExit \/ Again
           \/ WaitExitAgain \/ Verdict
    PROVE  Inv'
<1>0. /\ TypeOK /\ Min \in Nat
      /\ plan.inits = 1 => ~reinit /\ (inits = 0 => owner = "out")
  BY PlanFacts DEF Inv, Base, Growth
<1> USE DEF TypeOK, Owner
<1>1. CASE Post
  BY <1>0, <1>1, OwnerInv DEF Post, ownerVars
<1>2. CASE Stop
  BY <1>0, <1>2, OwnerInv DEF Stop
<1>3. CASE NotifyWorkers
  BY <1>0, <1>3, OwnerInv DEF NotifyWorkers
<1>4. CASE WaitExit
  <2>1. exits' \in 0..MaxExits /\ todo' \in Nat /\ failed' \in Nat
    BY <1>0, <1>4, BoundAssumption DEF WaitExit
  <2> QED
    BY <1>0, <1>4, <2>1, OwnerInv DEF WaitExit
<1>5. CASE Again
  BY <1>0, <1>5, OwnerInv DEF Again
<1>6. CASE WaitExitAgain
  <2>1. exits' \in 0..MaxExits /\ todo' \in Nat
    BY <1>0, <1>6, BoundAssumption DEF WaitExitAgain
  <2>2. CASE UNCHANGED owner
    BY <1>0, <1>6, <2>1, <2>2, OwnerInv DEF WaitExitAgain
  <2>3. CASE owner' = "verdict"
    BY <1>0, <1>6, <2>1, <2>3, OwnerInv DEF WaitExitAgain
  <2> QED
    BY <1>6, <2>2, <2>3 DEF WaitExitAgain
<1>7. CASE Verdict
  BY <1>0, <1>7, BoundAssumption, OwnerInv DEF Verdict, Stopped
<1> QED
  BY <1>1, <1>2, <1>3, <1>4, <1>5, <1>6, <1>7

\* init(): the first one finds an empty pool, and its start_one()s fit.
LEMMA InitPoolInv ==
    ASSUME Inv, InitPool
    PROVE  Inv'
<1> USE DEF Inv, Base
<1>1. /\ UNCHANGED <<pc, idle, flagged, threads, count, pending, exits, failed,
                    plan, lost>>
      /\ inits < plan.inits /\ inits' = inits + 1
      /\ \/ count > 0 /\ owner' = "sweep" /\ reinit' = TRUE /\ UNCHANGED todo
         \/ count = 0 /\ owner' = "init" /\ todo' = Min /\ UNCHANGED reinit
  BY DEF InitPool, workerVars
<1>2. /\ Counted' = Counted /\ Kept' = Kept /\ Spawning' = Spawning
      /\ Registered' /\ CountTracksWorkers'
  BY <1>1 DEF Counted, Kept, Spawning, Registered, CountTracksWorkers
<1>3. inits' \in 0..plan'.inits /\ todo' \in Nat /\ owner' \in Owner /\ reinit' \in BOOLEAN
  <2>1. inits' \in 0..plan'.inits
    BY <1>1, PlanFacts DEF TypeOK
  <2>2. todo' \in Nat
    BY <1>1, PlanFacts DEF TypeOK
  <2>3. owner' \in Owner /\ reinit' \in BOOLEAN
    BY <1>1 DEF TypeOK, Owner
  <2> QED
    BY <2>1, <2>2, <2>3
<1>4. TypeOK'
  BY <1>1, <1>3 DEF TypeOK
<1>5. Growth'
  <2> SUFFICES ASSUME plan.inits = 1
               PROVE  Growth'
    BY <1>1 DEF Growth
  <2>1. inits = 0 /\ inits' = 1
    BY <1>1 DEF TypeOK
  <2>2. threads = {} /\ lost = 0 /\ ~reinit
    BY <2>1 DEF Growth
  <2>3. Counted = {} /\ Kept = {} /\ Spawning = {}
    BY <2>2 DEF Registered, Counted, Kept, Spawning, Inside
  <2>4. Cardinality(Kept') = 0 /\ Cardinality(Spawning') = 0 /\ count = 0
    BY <1>2, <2>2, <2>3, FS_EmptySet DEF CountTracksWorkers
  <2>5. owner' = "init" /\ todo' = Min /\ ~reinit'
    BY <1>1, <2>2, <2>4
  <2>6. ToStart' = Min /\ Min' = Min /\ MostWorkers' = MostWorkers /\ Min <= MostWorkers
    BY <1>1, <2>5, PlanFacts DEF ToStart, MostWorkers, Min, Max
  <2> QED
    BY <1>1, <2>1, <2>2, <2>4, <2>5, <2>6, PlanFacts DEF Growth
<1>6. StoppedIsQuiet'
  BY <1>1 DEF StoppedIsQuiet
<1> QED
  BY <1>2, <1>4, <1>5, <1>6

\* init() starts a worker, is refused, or is done.
LEMMA InitOneInv ==
    ASSUME Inv, InitOne
    PROVE  Inv'
<1> USE DEF Inv, Base
<1>0. /\ owner = "init"
      /\ UNCHANGED <<idle, flagged, count, pending, exits, failed, reinit, inits,
                     plan, lost>>
      /\ plan.inits = 1 => ~reinit /\ inits # 0
  BY DEF InitOne, Growth
<1>1. CASE todo > 0 /\ LaunchBy("owner", "init") /\ todo' = todo - 1 /\ UNCHANGED owner
  <2>1. /\ pc' \in [Worker -> Positions]
        /\ threads' \subseteq Worker
        /\ threads' # {}
        /\ Registered'
        /\ Counted' = Counted
        /\ \E t \in Worker \ Kept : Kept' = Kept \cup {t}
        /\ Spawning' = Spawning
    <3>1. Spawning \ {"owner"} = Spawning
      BY BoundAssumption DEF Spawning
    <3> QED
      BY <1>0, <1>1, <3>1, BoundAssumption, LaunchSets
  <2>2. TypeOK' /\ CountTracksWorkers'
    BY <1>0, <1>1, <2>1 DEF TypeOK, CountTracksWorkers
  <2>3. Growth'
    <3> SUFFICES ASSUME plan.inits = 1
                 PROVE  Growth'
      BY <1>0 DEF Growth
    <3>1. Cardinality(Kept') = Cardinality(Kept) + 1
      BY <2>1, AddCard, CountedSets
    <3>2. ToStart' = ToStart - 1 /\ MostWorkers' = MostWorkers /\ Min' = Min
      BY <1>0, <1>1 DEF ToStart, MostWorkers, Min, Max
    <3>3. ToStart \in Nat /\ MostWorkers \in Int
      BY PlanFacts DEF ToStart, MostWorkers, TypeOK
    <3>4. Cardinality(Kept') + Cardinality(Spawning') + ToStart' <= MostWorkers'
      BY <2>1, <3>1, <3>2, <3>3, CountedSets DEF Growth
    <3>5. todo' <= Min' /\ todo' < Min'
      BY <1>0, <1>1, <3>2, PlanFacts DEF Growth, TypeOK
    <3> QED
      BY <1>0, <3>4, <3>5 DEF Growth
  <2>4. StoppedIsQuiet'
    BY <1>0, <1>1 DEF StoppedIsQuiet
  <2> QED
    BY <2>1, <2>2, <2>3, <2>4
<1>2. CASE owner' = "refused" /\ todo' = 0 /\ UNCHANGED <<pc, threads>>
  BY <1>0, <1>2, OwnerInv DEF workerVars, TypeOK, Owner
<1>3. CASE owner' = "running" /\ UNCHANGED <<pc, threads, todo>>
  BY <1>0, <1>3, OwnerInv DEF workerVars, TypeOK, Owner
<1> QED
  BY <1>1, <1>2, <1>3 DEF InitOne

\* graceful_stop() flags whoever is registered.
LEMMA SweepInv ==
    ASSUME Inv, Sweep
    PROVE  Inv'
<1> USE DEF Inv, Base
<1>1. /\ Counted' = Counted /\ Kept' = Kept /\ Spawning' = Spawning
      /\ Registered' /\ threads' = threads
  BY DEF Sweep, Counted, Kept, Spawning, Registered
<1>2. TypeOK' /\ CountTracksWorkers'
  BY <1>1, CountedSets DEF Sweep, TypeOK, CountTracksWorkers, Owner
<1>3. Growth'
  BY <1>1, <1>2, GrowthShrinks DEF Sweep, Growth
<1>4. StoppedIsQuiet'
  BY DEF Sweep, StoppedIsQuiet
<1> QED
  BY <1>1, <1>2, <1>3, <1>4

\* graceful_stop() cleans up between its two passes.
LEMMA CleanupExitedInv ==
    ASSUME Inv, CleanupExited
    PROVE  Inv'
<1> USE DEF Inv, Base
<1>1. /\ pc' \in [Worker -> Positions]
      /\ threads' \subseteq Worker /\ threads' \subseteq threads
      /\ flagged' \subseteq flagged
      /\ Registered'
      /\ Counted' = Counted
      /\ Kept' = Kept
      /\ Spawning' \subseteq Spawning
  BY CleanupSets, BoundAssumption DEF CleanupExited
<1>2. TypeOK' /\ CountTracksWorkers'
  BY <1>1 DEF CleanupExited, TypeOK, CountTracksWorkers, Owner
<1>3. Growth'
  BY <1>1, <1>2, GrowthShrinks DEF CleanupExited, Growth
<1>4. StoppedIsQuiet'
  BY DEF CleanupExited, StoppedIsQuiet
<1> QED
  BY <1>1, <1>2, <1>3, <1>4

\* unpolite_stop(): the workers inside are gone and stay counted.
LEMMA UnpoliteStopInv ==
    ASSUME Inv, UnpoliteStop
    PROVE  Inv'
<1> USE DEF Inv, Base
<1>1. PICK unborn \in SUBSET {w \in threads : pc[w] = "created"} :
          pc' = [w \in Worker |-> IF w \in unborn THEN "orphan"
                                  ELSE IF w \in threads THEN "none" ELSE pc[w]]
  BY DEF UnpoliteStop
<1>2. /\ owner = "unpolite" /\ threads' = {} /\ flagged' = {}
      /\ lost' = lost + Cardinality(Counted)
      /\ UNCHANGED <<count, pending, failed, reinit, inits, plan>>
      /\ idle' = [w \in Worker |-> 0]
  BY DEF UnpoliteStop
<1>3. \A w \in Worker : pc'[w] \in {"none", "orphan"}
  BY <1>1 DEF Registered, TypeOK
<1>4. /\ Registered' /\ Counted' = {} /\ Kept' = {} /\ Spawning' = {}
      /\ pc' \in [Worker -> Positions]
  BY <1>1, <1>2, <1>3 DEF Registered, Counted, Kept, Spawning, Inside, Positions
<1>5. CountTracksWorkers' /\ lost' \in Nat
  <2>1. Cardinality(Counted') = 0
    BY <1>4, FS_EmptySet
  <2> QED
    BY <1>2, <2>1, CountedSets DEF CountTracksWorkers, TypeOK
<1>6. exits' \in 0..MaxExits
  <2>1. Cardinality({w \in threads : pc[w] = "left"}) \in Nat
    BY SubsetCard DEF TypeOK
  <2> QED
    BY <2>1, BoundAssumption DEF UnpoliteStop, Saturated, TypeOK
<1>7. owner' \in Owner /\ todo' \in Nat
  BY PlanFacts DEF UnpoliteStop, Stopped, Owner, TypeOK
<1>8. TypeOK'
  BY <1>2, <1>4, <1>5, <1>6, <1>7, ParamAssumption DEF TypeOK
<1>9. Growth'
  <2>1. plan.inits = 1 => inits # 0 /\ ~reinit /\ owner' = "out"
    BY <1>2 DEF Growth, UnpoliteStop, Stopped
  <2> QED
    BY <1>2, <1>4, <1>8, <2>1, GrowthShrinks
<1>10. StoppedIsQuiet'
  BY <1>2 DEF StoppedIsQuiet
<1> QED
  BY <1>4, <1>5, <1>8, <1>9, <1>10

-----------------------------------------------------------------------------
\* A new pool has no workers.
LEMMA InvInit == Init => Inv
<1> SUFFICES ASSUME Init
             PROVE  Inv
  OBVIOUS
<1> USE DEF Init
<1>1. TypeOK
  <2>1. plan \in Plans /\ plan.inits \in Nat
    BY ParamAssumption DEF Plan
  <2>2. Attempts \in Nat /\ MaxExits \in Nat
    BY ParamAssumption, BoundAssumption
  <2>3. pc \in [Worker -> Positions] /\ owner \in Owner
    BY DEF Positions, Owner
  <2>4. idle \in [Worker -> 0..(Attempts + 1)] /\ exits \in 0..MaxExits
    BY <2>2
  <2>5. inits \in 0..plan.inits
    BY <2>1
  <2> QED
    BY <2>1, <2>3, <2>4, <2>5 DEF TypeOK
<1>2. Registered /\ Counted = {} /\ Kept = {} /\ Spawning = {}
  BY DEF Registered, Counted, Kept, Spawning, Inside
<1>3. CountTracksWorkers /\ StoppedIsQuiet
  BY <1>2, FS_EmptySet DEF CountTracksWorkers, StoppedIsQuiet
<1>4. Growth
  <2>1. Cardinality(Kept) = 0 /\ Cardinality(Spawning) = 0 /\ ToStart = 0
    BY <1>2, FS_EmptySet DEF ToStart
  <2>2. 0 <= MostWorkers
    BY <1>1, PlanFacts DEF MostWorkers
  <2> QED
    BY <2>1, <2>2 DEF Growth
<1> QED
  BY <1>1, <1>2, <1>3, <1>4 DEF Inv, Base

\* Every step of the workers, of the owner and of those who post work.
LEMMA InvNext == Inv /\ [Next]_vars => Inv'
<1> SUFFICES ASSUME Inv, [Next]_vars
             PROVE  Inv'
  OBVIOUS
<1>1. CASE InitPool
  BY <1>1, InitPoolInv
<1>2. CASE Stop \/ Post
  BY <1>2, OwnerMoveInv
<1>3. CASE OwnerStep
  BY <1>3, InitOneInv, SweepInv, OwnerMoveInv, CleanupExitedInv, UnpoliteStopInv
  DEF OwnerStep
<1>4. CASE \E w \in Worker : WorkerStep(w)
  BY <1>4, WorkerStepInv
<1>5. CASE UNCHANGED vars
  BY <1>5 DEF vars, Inv, Base, TypeOK, Registered, CountTracksWorkers, Counted,
              Growth, Kept, Spawning, ToStart, MostWorkers, Min, Max, StoppedIsQuiet
<1> QED
  BY <1>1, <1>2, <1>3, <1>4, <1>5 DEF Next

\* Every behaviour of the pool keeps the invariant.
THEOREM PoolInvariant == Spec => []Inv
BY InvInit, InvNext, PTL DEF Spec

-----------------------------------------------------------------------------
\* Every variable has its type; count_, an unsigned number, never wraps.
THEOREM PoolTypeCorrect == Spec => []TypeOK
<1>1. Inv => TypeOK
  BY DEF Inv, Base
<1> QED
  BY <1>1, PoolInvariant, PTL

\* count_ is the number of workers between on_entry() and on_exit(), and of those
\* that were cancelled in there, through every growth, shrinking and stop.
THEOREM PoolCountTracksWorkers == Spec => []CountTracksWorkers
<1>1. Inv => CountTracksWorkers
  BY DEF Inv, Base
<1> QED
  BY <1>1, PoolInvariant, PTL

\* A pool that is initialised once never has more than 2*max_ + min_ - 3 workers,
\* whatever min_ and max_ are and however start_one()s interleave.
THEOREM PoolOvershootBounded == Spec => []OvershootBounded
<1>1. ASSUME Inv
      PROVE  OvershootBounded
  <2>1. ToStart \in Nat /\ MostWorkers \in Int
    BY <1>1, PlanFacts DEF Inv, Base, TypeOK, ToStart, MostWorkers
  <2> QED
    BY <1>1, <2>1, CountedSets
    DEF Inv, Base, Growth, OvershootBounded, MostWorkers, Spawning
<1> QED
  BY <1>1, PoolInvariant, PTL

\* A stopped pool is quiet: no worker that the stop found waits or works.
THEOREM PoolStoppedIsQuiet == Spec => []StoppedIsQuiet
<1>1. Inv => StoppedIsQuiet
  BY DEF Inv
<1> QED
  BY <1>1, PoolInvariant, PTL
=============================================================================
