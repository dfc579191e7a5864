------------------------------- MODULE CircBuf -------------------------------
(***************************************************************************)
(* common::circbuf<T,MaxSize> (common/circbuf.hh): the message buffer of   *)
(* the UDP servers.  Slots (struct item, with the T it owns) move between  *)
(* three doubly linked lists.  link_after() puts a slot at the front of a  *)
(* list and unlink_before() takes one from its end; here a list is a       *)
(* sequence, active and free with the end first, prepared with the front   *)
(* first (that is how commit() and rollback() walk it).                    *)
(*                                                                         *)
(* A slot is named by its turn of allocation, size_.  A hollow slot is one *)
(* that the error paths allocate without a T (item_ is NULL).              *)
(***************************************************************************)
EXTENDS Naturals, Sequences, SequencesExt

CONSTANTS MaxItems,      \* max_, the template argument MaxSize
          MaxMessages,   \* bound on the messages that are stored in one run
          MaxSlots       \* bound on the slots that are allocated in one run

ASSUME MaxItemsAssumption == MaxItems \in Nat \ {0}
ASSUME BoundsAssumption ==
    /\ MaxMessages \in Nat
    /\ MaxSlots \in Nat /\ MaxSlots > MaxItems

VARIABLES active,     \* head_: stored slots, oldest first
          free,       \* freelist_: reusable slots, next to be reused first
          prepared,   \* preplist_: reserved slots, newest first
          nItems,     \* n_items_
          size,       \* size_
          hollow,     \* slots without a T
          content,    \* the message in each slot (0: none yet)
          stamp,      \* messages stored so far; the next one gets stamp + 1
          popped,     \* the message the last pop() returned
          fault       \* how the last operation failed, or "none"

vars == <<active, free, prepared, nItems, size, hollow, content, stamp, popped,
          fault>>

Faults == {"none",
           "empty",   \* THR(rs_empty): an exception, or a reference to NULL
           "null",    \* the caller was given a reference to no object
           "hang"}    \* the loop of commit() or rollback() does not end

Slots == 1..MaxSlots

NoSlot == 0

Init ==
    /\ active = <<>> /\ free = <<>> /\ prepared = <<>>
    /\ nItems = 0
    /\ size = 0
    /\ hollow = {}
    /\ content = [s \in Slots |-> 0]
    /\ stamp = 0
    /\ popped = 0
    /\ fault = "none"

-----------------------------------------------------------------------------
\* unlink_before(): the slot at the end of a list, or none
EndOf(list) == IF list = <<>> THEN NoSlot ELSE Head(list)
Unlinked(list) == IF list = <<>> THEN list ELSE Tail(list)

\* A client gets a reference to the T of slot s.
Hand(s) == fault' = IF s = NoSlot \/ s \in hollow THEN "null" ELSE "none"

\* prepare(): a free slot, a new one, or the oldest stored one.  Nothing is
\* subtracted from n_items_ when a stored slot is taken.
Prepare ==
    \/ /\ free # <<>>
       /\ prepared' = <<Head(free)>> \o prepared
       /\ free' = Tail(free)
       /\ Hand(Head(free))
       /\ UNCHANGED <<active, nItems, size, hollow, content, stamp, popped>>
    \/ /\ free = <<>> /\ nItems < MaxItems
       /\ size' = size + 1
       /\ prepared' = <<size'>> \o prepared
       /\ fault' = "none"
       /\ UNCHANGED <<active, free, nItems, hollow, content, stamp, popped>>
    \/ /\ free = <<>> /\ nItems >= MaxItems
       /\ prepared' = IF active = <<>> THEN prepared
                      ELSE <<Head(active)>> \o prepared
       /\ active' = Unlinked(active)
       /\ Hand(EndOf(active))
       /\ UNCHANGED <<free, nItems, size, hollow, content, stamp, popped>>

\* The loops of commit() and rollback() never advance their cursor: they find
\* the slot only if it is the newest prepared one.
Finds(s) == prepared # <<>> /\ Head(prepared) = s

Hang ==
    /\ fault' = "hang"
    /\ UNCHANGED <<active, free, prepared, nItems, size, hollow, content, stamp,
                   popped>>

\* Mutant: commit() links the slot in at the oldest end.
CommitOldest(s) ==
    /\ Finds(s)
    /\ stamp < MaxMessages
    /\ stamp' = stamp + 1
    /\ content' = [content EXCEPT ![s] = stamp']
    /\ prepared' = Tail(prepared)
    /\ active' = <<s>> \o active
    /\ nItems' = IF nItems + 1 > MaxItems THEN MaxItems ELSE nItems + 1
    /\ fault' = "none"
    /\ UNCHANGED <<free, size, hollow, popped>>

\* commit(s), with the message that the client has written into the slot.
Commit(s) ==
    \/ /\ Finds(s)
       /\ stamp < MaxMessages
       /\ stamp' = stamp + 1
       /\ content' = [content EXCEPT ![s] = stamp']
       /\ prepared' = Tail(prepared)
       /\ active' = Append(active, s)
       /\ nItems' = IF nItems + 1 > MaxItems THEN MaxItems ELSE nItems + 1
       /\ fault' = "none"
       /\ UNCHANGED <<free, size, hollow, popped>>
    \/ prepared # <<>> /\ ~Finds(s) /\ Hang

\* Mutant: rollback() forgets the slot.
RollbackLoses(s) ==
    /\ Finds(s)
    /\ prepared' = Tail(prepared)
    /\ fault' = "none"
    /\ UNCHANGED <<active, free, nItems, size, hollow, content, stamp, popped>>

\* rollback(s): the slot is free again; n_items_ is left alone.
Rollback(s) ==
    \/ /\ Finds(s)
       /\ prepared' = Tail(prepared)
       /\ free' = Append(free, s)
       /\ fault' = "none"
       /\ UNCHANGED <<active, nItems, size, hollow, content, stamp, popped>>
    \/ prepared # <<>> /\ ~Finds(s) /\ Hang

\* Where push() finds its slot.
PushSlot ==
    IF nItems + 1 > MaxItems THEN EndOf(active)
    ELSE IF free # <<>> THEN Head(free)
    ELSE size + 1

\* push(), with the message that the client writes into the slot.
Push ==
    /\ stamp < MaxMessages
    /\ Hand(PushSlot)
    /\ IF PushSlot = NoSlot
       THEN UNCHANGED <<active, free, prepared, nItems, size, hollow, content,
                        stamp, popped>>
       ELSE /\ nItems' = IF nItems + 1 > MaxItems THEN MaxItems ELSE nItems + 1
            /\ active' = IF nItems + 1 > MaxItems
                         THEN Append(Tail(active), PushSlot)
                         ELSE Append(active, PushSlot)
            /\ free' = IF nItems + 1 > MaxItems THEN free ELSE Unlinked(free)
            /\ size' = IF PushSlot = size + 1 THEN size + 1 ELSE size
            /\ stamp' = stamp + 1
            /\ content' = [content EXCEPT ![PushSlot] = stamp']
            /\ UNCHANGED <<prepared, hollow, popped>>

\* The error path of pop(), newest() and oldest(): a slot without a T goes to
\* the free list.
EmptyError ==
    /\ fault' = "empty"
    /\ size' = size + 1
    /\ hollow' = hollow \cup {size'}
    /\ free' = Append(free, size')

\* pop()
Pop ==
    \/ /\ nItems = 0
       /\ active' = Unlinked(active)
       /\ EmptyError
       /\ UNCHANGED <<prepared, nItems, content, stamp, popped>>
    \/ /\ nItems > 0 /\ active = <<>>
       /\ nItems' = nItems - 1
       /\ EmptyError
       /\ UNCHANGED <<active, prepared, content, stamp, popped>>
    \/ /\ nItems > 0 /\ active # <<>>
       /\ active' = Tail(active)
       /\ nItems' = nItems - 1
       /\ free' = Append(free, Head(active))
       /\ popped' = content[Head(active)]
       /\ fault' = "none"
       /\ UNCHANGED <<prepared, size, hollow, content, stamp>>

\* newest() and oldest(): n_items_ decides whether the buffer is empty, also when
\* the list is.
Peek ==
    \/ /\ nItems = 0
       /\ EmptyError
       /\ UNCHANGED <<active, prepared, nItems, content, stamp, popped>>
    \/ /\ nItems > 0
       /\ \E s \in IF active = <<>> THEN {NoSlot} ELSE {Head(active), Last(active)} :
             Hand(s)
       /\ UNCHANGED <<active, free, prepared, nItems, size, hollow, content, stamp,
                      popped>>

-----------------------------------------------------------------------------
\* A client goes on only after an operation that did not fail, or that threw
\* rs_empty and was caught.
Usable == fault = "none"

\* Clients that follow circbuf.hh: "use n_items() to check".
PopChecked == nItems > 0 /\ Pop

\* One-step clients.
OneStepNext == Usable /\ (Push \/ PopChecked)

\* Any client, who also catches rs_empty.
AnyNext ==
    /\ fault \in {"none", "empty"}
    /\ size < MaxSlots
    /\ \/ Push
       \/ Prepare
       \/ \E s \in ToSet(prepared) : Commit(s) \/ Rollback(s)
       \/ Pop
       \/ Peek

-----------------------------------------------------------------------------
(* Properties.                                                             *)

\* Every variable has its type.
TypeOK ==
    /\ active \in Seq(Slots) /\ free \in Seq(Slots) /\ prepared \in Seq(Slots)
    /\ nItems \in 0..MaxItems
    /\ size \in 0..MaxSlots
    /\ hollow \subseteq Slots
    /\ content \in [Slots -> 0..MaxMessages]
    /\ stamp \in 0..MaxMessages
    /\ popped \in 0..MaxMessages
    /\ fault \in Faults

\* Whatever its clients do, the buffer never links a slot twice: two clients
\* are never given the same slot, and the destructor deletes each one once.
NoDoubleLink ==
    LET all == active \o free \o prepared
    IN  IsInjective(all) /\ ToSet(all) \subseteq 1..size

\* With one two-phase producer no slot that was allocated gets lost either,
\* not even when a checked pop() fails.
SlotsPartitioned ==
    LET all == active \o free \o prepared
    IN  /\ IsInjective(all)
        /\ ToSet(all) = 1..size

\* The messages in the stored slots, oldest first.
Stored == [i \in 1..Len(active) |-> content[active[i]]]

\* n_items() is "the number of active items" (circbuf.hh).
CountExact == nItems = Len(active)

\* With one two-phase producer the buffer never stores or allocates more than
\* max_ slots, and n_items_ is never short of what is stored: no message is
\* left behind because n_items() says that there is none.
NothingForgotten ==
    Usable => Len(active) <= nItems /\ size <= MaxItems
=============================================================================
