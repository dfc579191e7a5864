-------------------------------- MODULE Queue --------------------------------
(***************************************************************************)
(* The queue (common/queue.hh, queue_impl.hh) on top of a vector: a list   *)
(* of items linked by their positions.  pop() gives the item to a handler  *)
(* and its position is freed only when the handler lets it go.  Each       *)
(* operation runs under the lock of the queue (on_lock_queue).             *)
(***************************************************************************)
EXTENDS InpVec

CONSTANTS Item,     \* what is queued
          Handler,  \* queue::handler objects
          None,     \* null
          MaxSlot   \* bound on the positions the queue uses

ASSUME QueueAssumption == IsFiniteSet(Handler) /\ None \notin Nat

VARIABLES next,     \* next_ of the items
          head, tail,
          nQueued,  \* n_items_ of the queue
          hand,     \* the item of each handler
          lost      \* items no handler and no link leads to any more

queueVars == <<next, head, tail, nQueued, hand, lost>>

QInit ==
    /\ VInit
    /\ next = <<>>
    /\ head = None /\ tail = None /\ nQueued = 0
    /\ hand = [h \in Handler |-> None]
    /\ lost = {}

Link(p, n) == [q \in DOMAIN next \cup {p} |-> IF q = p THEN n ELSE next[q]]

\* first_free().set(v) and append_item()
Push(v) ==
    /\ FirstFree <= MaxSlot
    /\ PushFirstFree(v)
    /\ next' = IF tail = None THEN Link(FirstFree, 0)
                              ELSE [Link(FirstFree, 0) EXCEPT ![tail] = FirstFree]
    /\ head' = IF tail = None THEN FirstFree ELSE head
    /\ tail' = FirstFree
    /\ nQueued' = nQueued + 1
    /\ UNCHANGED <<hand, lost>>

\* handler::reset(): free_item().
Drop(h) == IF hand[h] = None THEN UNCHANGED <<vec, walking>> ELSE FreeAt(hand[h])

\* Mutant: pop() frees the item it takes out.
PopFrees(h) ==
    /\ head # None
    /\ head' = IF head = tail THEN None ELSE next[head]
    /\ tail' = IF head = tail THEN None ELSE tail
    /\ nQueued' = nQueued - 1
    /\ hand' = [hand EXCEPT ![h] = head]
    /\ FreeAt(head)
    /\ UNCHANGED <<next, lost>>

\* Mutant: pop() overwrites the item that the handler still had.
PopOverwrites(h) ==
    /\ head # None
    /\ head' = IF head = tail THEN None ELSE next[head]
    /\ tail' = IF head = tail THEN None ELSE tail
    /\ nQueued' = nQueued - 1
    /\ hand' = [hand EXCEPT ![h] = head]
    /\ UNCHANGED <<vec, walking, next, lost>>

\* The head goes to the handler, whose previous item is freed.  If get_ptr() did
\* not find the next item, pop() would fail with head_ null.
Pop(h) ==
    /\ head # None
    /\ IF head = tail \/ next[head] \in used
       THEN /\ head' = IF head = tail THEN None ELSE next[head]
            /\ tail' = IF head = tail THEN None ELSE tail
            /\ nQueued' = nQueued - 1
            /\ hand' = [hand EXCEPT ![h] = head]
            /\ Drop(h)
       ELSE /\ head' = None
            /\ UNCHANGED <<vec, walking, tail, nQueued, hand>>
    /\ UNCHANGED <<next, lost>>

\* ~handler(), or reset() of one that is used again
Release(h) ==
    /\ hand[h] # None
    /\ Drop(h)
    /\ hand' = [hand EXCEPT ![h] = None]
    /\ UNCHANGED <<next, head, tail, nQueued, lost>>

\* handler::operator=: takes over the other's item.  The item it had is not
\* freed, and an assignment to itself loses the item: the other's i_ is the one
\* that is zeroed.
Pass(h, g) ==
    /\ hand' = [hand EXCEPT ![h] = hand[g], ![g] = None]
    /\ lost' = (lost \cup {hand[h]}) \ {None}
    /\ UNCHANGED <<vec, walking, next, head, tail, nQueued>>

QNext ==
    \/ \E v \in Item : Push(v)
    \/ \E h \in Handler : Pop(h) \/ Release(h)
    \/ \E h, g \in Handler : Pass(h, g)

-----------------------------------------------------------------------------
\* The positions in the queue, from head_ along next_.
Linked ==
    LET at[i \in 1 .. nQueued] == IF i = 1 THEN head ELSE next[at[i - 1]]
    IN  [i \in 1 .. nQueued |-> at[i]]

Promise == INSTANCE HandedQueue WITH
    Val <- Item,
    queue <- [i \in DOMAIN Linked |-> cell[Linked[i]]],
    holds <- [h \in Handler |-> IF hand[h] = None THEN None ELSE cell[hand[h]]],
    Nothing <- None

\* The queue is a first-in first-out queue, and the item of a handler stays what
\* it was when it was popped, whatever is pushed meanwhile: a position is not
\* used again before the handler lets it go.
ImplementsHandedQueue == Promise!ASpec

\* Every used position of the vector is in the queue or with exactly one handler,
\* or was lost by an assignment between handlers: pop(), reset() and the
\* destructor leak and free nothing by themselves.
SlotsAccounted ==
    /\ used = ({Linked[i] : i \in DOMAIN Linked}
                  \cup {hand[h] : h \in Handler} \cup lost) \ {None}
    /\ nItems = nQueued + Cardinality({h \in Handler : hand[h] # None})
                    + Cardinality(lost)

=============================================================================
