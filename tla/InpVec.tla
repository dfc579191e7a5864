-------------------------------- MODULE InpVec -------------------------------
(***************************************************************************)
(* The in-place vector (common/inpvec.hh, inpvec_impl.hh): a list of       *)
(* chunks with a bitmap of the used positions each.  Chunks are only added *)
(* (reset() apart), so a chunk and a position in it are one global         *)
(* position, and the bitmaps are the set of the used ones.  The vector     *)
(* locks nothing: its user does.  The hash table, the database drivers,    *)
(* the queue and the connections of the TCP listener are kept in vectors.  *)
(***************************************************************************)
EXTENDS Naturals, Sequences, FiniteSets, FiniteSetsExt

CONSTANTS Width,    \* width_, the positions of one bitmap word (64)
          MaxPos,   \* bound on the positions the user names
          Val       \* what the user stores

ASSUME VectorAssumption == Width \in Nat \ {0} /\ MaxPos \in Nat

VARIABLES ends,     \* the position after each chunk
          used,     \* positions whose bit is set
          cell,     \* the contents, which stay in memory when a position is freed
          nItems,   \* n_items_
          walk,     \* a loop over the vector: how it steps, or "none"
          it,       \* its iterator
          seen      \* the positions it has visited

vec == <<ends, used, cell, nItems>>
walking == <<walk, it, seen>>

Start(c) == IF c = 1 THEN 0 ELSE ends[c - 1]
Size == ends[Len(ends)]
Chunk(c) == Start(c) .. ends[c] - 1

\* tail_->mul_
TailMul == (Size - Start(Len(ends))) \div Width

EndIter == [c |-> 0, pos |-> 0, gpos |-> 0]

VInit ==
    /\ ends = <<Width>>
    /\ used = {} /\ cell = <<>> /\ nItems = 0
    /\ walk = "none" /\ it = EndIter /\ seen = {}

-----------------------------------------------------------------------------
\* allocate(mul): a new chunk at the tail.
Allocated(mul) == Append(ends, Size + mul * Width)

\* force_iterator_at(p): the chunks, grown until one of them has position p.
Reaching(p) ==
    IF p < Size THEN ends
    ELSE Allocated(Max({TailMul + 2, (p - Size) \div Width + 2}))

\* item::set(): a position that is free becomes used and is counted.
SetAt(p, v, grown) ==
    /\ ends' = grown
    /\ used' = used \cup {p}
    /\ cell' = [q \in DOMAIN cell \cup {p} |-> IF q = p THEN v ELSE cell[q]]
    /\ nItems' = IF p \in used THEN nItems ELSE nItems + 1

\* set(p, v)
Set(p, v) == SetAt(p, v, Reaching(p)) /\ UNCHANGED walking

\* construct(p): a default value, unless there is an item.
Construct(p, v) ==
    /\ SetAt(p, IF p \in used THEN cell[p] ELSE v, Reaching(p))
    /\ UNCHANGED walking

\* last_free(): after the last used position of the tail chunk.
LastFree ==
    LET tail == used \cap Chunk(Len(ends))
    IN  IF tail = {} THEN Start(Len(ends)) ELSE Max(tail) + 1

\* first_free(): the lowest free position of all chunks.
FirstFree ==
    LET free == (0 .. Size - 1) \ used
    IN  IF free = {} THEN Size ELSE Min(free)

\* A position found full to the end gets a new chunk.
Room(p) == IF p = Size THEN Allocated(TailMul + 2) ELSE ends

PushBack(v) == SetAt(LastFree, v, Room(LastFree)) /\ UNCHANGED walking

PushFirstFree(v) == SetAt(FirstFree, v, Room(FirstFree)) /\ UNCHANGED walking

\* Mutant: destroy() counts the item down twice.
DestroyTwice(p) ==
    /\ used' = used \ {p}
    /\ nItems' = IF nItems > 1 THEN nItems - 2 ELSE 0
    /\ UNCHANGED <<ends, cell>>

\* item::destroy(at)
Destroy(p) ==
    /\ used' = used \ {p}
    /\ nItems' = nItems - 1
    /\ UNCHANGED <<ends, cell>>

\* iterator_at(p) gives end() for an empty vector and beyond the last chunk;
\* free_at(p) then frees nothing.
FreeAt(p) ==
    /\ IF nItems = 0 \/ p >= Size \/ p \notin used THEN UNCHANGED vec
                                                   ELSE Destroy(p)
    /\ UNCHANGED walking

Reset ==
    /\ ends' = <<Width>>
    /\ used' = {} /\ cell' = <<>> /\ nItems' = 0
    /\ UNCHANGED walking

-----------------------------------------------------------------------------
\* Iterators: a chunk (0: null), the position in it, and gpos_, the position that
\* get_pos() reports.

Begin == IF nItems = 0 THEN EndIter ELSE [c |-> 1, pos |-> 0, gpos |-> 0]

At(i) == Start(i.c) + i.pos

\* item::is_last(): nothing is used behind the position in its chunk.
IsLast(i) == \A p \in used \cap Chunk(i.c) : p <= At(i)

\* operator++: every position, used or not, up to the last used one of a chunk.
Inc(i) ==
    IF i.c = 0 THEN EndIter
    ELSE IF IsLast(i)
         THEN IF i.c = Len(ends) THEN EndIter
              ELSE [c |-> i.c + 1, pos |-> 0, gpos |-> i.gpos + 1]
         ELSE [i EXCEPT !.pos = @ + 1, !.gpos = @ + 1]

\* next_used(): the search in the chunk behind the current one starts after the
\* position in the current one, and in the chunks behind that after position 0.
Candidates(i, c) ==
    {p \in used \cap Chunk(c) :
        p - Start(c) > (IF c <= i.c + 1 THEN i.pos ELSE 0)}

NextUsed(i) ==
    LET hits == {c \in i.c .. Len(ends) : Candidates(i, c) # {}}
    IN  IF i.c = 0 \/ hits = {} THEN EndIter
        ELSE LET c == Min(hits)
                 p == Min(Candidates(i, c))
             IN  [c |-> c, pos |-> p - Start(c), gpos |-> i.gpos + p - At(i)]

\* operator*: null at a position that is not used.
Visited(i) == IF i.c = 0 THEN {} ELSE {At(i)} \cap used

\* for( it = begin(); it != end(); ++it ), and the loop of the hash table and the
\* drivers: the first item, then while( it.next_used() ).
StartWalk(how) ==
    /\ walk = "none"
    /\ walk' = how
    /\ it' = Begin
    /\ seen' = Visited(Begin)
    /\ UNCHANGED vec

Advance(i) ==
    /\ it.c # 0
    /\ it' = i
    /\ seen' = seen \cup Visited(i)
    /\ UNCHANGED <<vec, walk>>

StepWalk == \/ walk = "inc" /\ Advance(Inc(it))
            \/ walk = "nextUsed" /\ Advance(NextUsed(it))

\* it.free(): the loop frees the item it is at, as remove_all_connections() does.
FreeHere ==
    /\ walk # "none"
    /\ it.c # 0 /\ At(it) \in used
    /\ Destroy(At(it))
    /\ UNCHANGED walking

EndWalk ==
    /\ walk # "none" /\ it.c = 0
    /\ walk' = "none" /\ it' = EndIter /\ seen' = {}
    /\ UNCHANGED vec

\* What the owner of a vector may do.
VNext ==
    \/ /\ walk = "none"
       /\ \/ \E p \in 0 .. MaxPos, v \in Val : Set(p, v) \/ Construct(p, v)
          \/ \E v \in Val : LastFree <= MaxPos /\ PushBack(v)
          \/ \E v \in Val : FirstFree <= MaxPos /\ PushFirstFree(v)
          \/ \E p \in 0 .. MaxPos : FreeAt(p)
          \/ Reset
    \/ \E how \in {"inc", "nextUsed"} : StartWalk(how)
    \/ StepWalk \/ FreeHere \/ EndWalk

-----------------------------------------------------------------------------
\* A loop with operator++ visits every item of the vector that is not freed, over
\* all chunks, whatever positions of them are free, also when the loop frees the
\* items it visits.  begin() relies on n_items_, the steps on is_last().
IncVisitsAll == walk = "inc" /\ it.c = 0 => used \subseteq seen

\* hash_helpers.hh: "check others".  So would the loop with next_used().  This does
\* not hold when there are several chunks.
NextUsedVisitsAll == walk = "nextUsed" /\ it.c = 0 => used \subseteq seen
=============================================================================
