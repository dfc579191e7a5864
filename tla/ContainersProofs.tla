--------------------------- MODULE ContainersProofs --------------------------
(***************************************************************************)
(* Proofs about the sequential containers: a loop with operator++ visits   *)
(* every item of a vector, a queue accounts for its slots and is first in, *)
(* first out, and a descriptor gives the bytes of a stream in order.       *)
(***************************************************************************)
EXTENDS MCContainers, FiniteSetTheorems, SequenceTheorems,
        WellFoundedInduction, TLAPS

-----------------------------------------------------------------------------
(* The vector.                                                             *)

\* Chunks are not empty, and bits are set only in chunks.
ChunksOK ==
    /\ ends \in Seq(Nat) /\ ends # <<>>
    /\ \A c \in 1 .. Len(ends) : Start(c) \in Nat /\ Start(c) < ends[c]

UsedOK ==
    /\ used \in SUBSET (0 .. Size - 1) /\ IsFiniteSet(used)
    /\ nItems = Cardinality(used)

\* An iterator that is not at the end is inside a chunk, and a loop with
\* operator++ has been at every item up to where it is.
Iter == [c : Nat, pos : Nat, gpos : Nat]

IterOK(i) ==
    /\ i \in Iter
    /\ i.c \in 0 .. Len(ends) /\ i.pos \in Nat
    /\ i.c # 0 => At(i) < ends[i.c]

WalkOK ==
    walk = "inc" =>
        /\ IterOK(it)
        /\ \A p \in used : (it.c # 0 => p <= At(it)) => p \in seen

VectorInv == ChunksOK /\ UsedOK /\ WalkOK

-----------------------------------------------------------------------------
(* The queue.                                                              *)

\* A list L of n positions from h on along the links nx.
Path(L, n, h, nx) ==
    /\ L \in [1 .. n -> Nat]
    /\ n > 0 => L[1] = h
    /\ \A i \in 1 .. n : L[i] \in DOMAIN nx
    /\ \A i \in 1 .. n - 1 : L[i + 1] = nx[L[i]]

Slots(L, n) == {L[i] : i \in 1 .. n}

Holding(H) == {h \in Handler : H[h] # None}

\* Every position in use is in one place.
Shares(L, n, H, l, U) ==
    /\ \A i, j \in 1 .. n : L[i] = L[j] => i = j
    /\ \A h \in Handler : H[h] # None => H[h] \notin Slots(L, n) /\ H[h] \notin l
    /\ \A h, g \in Handler : H[h] # None /\ H[h] = H[g] => h = g
    /\ Slots(L, n) \cap l = {}
    /\ \A p \in Nat : p \in U <=> \/ p \in Slots(L, n) \/ p \in l
                                  \/ \E h \in Handler : H[h] = p

\* A queue of n positions L: head_, tail_ and the links, what handlers have, what
\* was lost, the positions in use and their number.
QueueAt(L, n, hd, tl, nx, H, l, U, N) ==
    /\ n \in Nat /\ nx \in [DOMAIN nx -> Nat] /\ U \in SUBSET Nat
    /\ H \in [Handler -> Nat \cup {None}] /\ l \in SUBSET Nat /\ IsFiniteSet(l)
    /\ Path(L, n, hd, nx)
    /\ IF n = 0 THEN hd = None /\ tl = None ELSE tl = L[n]
    /\ Shares(L, n, H, l, U)
    /\ N = n + Cardinality(Holding(H)) + Cardinality(l)

QueueInv ==
    /\ walk = "none" /\ used \subseteq DOMAIN cell
    /\ QueueAt(Linked, nQueued, head, tail, next, hand, lost, used, nItems)

\* The queue of a run that is about something else.
QueueUntouched ==
    /\ nQueued = 0 /\ head = None /\ tail = None
    /\ hand = [h \in Handler |-> None] /\ lost = {}

-----------------------------------------------------------------------------
(* The descriptor.                                                         *)

BlockType == [start : Nat, len : Nat, size : 0 .. MaxSize, room : Nat,
              grown : BOOLEAN, mem : [Offset -> Nat \cup {Junk}]]

\* The data lies in the block, whatever it has grown to.
BlockOK(b) ==
    /\ b \in BlockType
    /\ b.start + b.len <= b.size /\ b.size <= b.room
    /\ ~b.grown => b.room = Prealloc

\* The first d bytes of the data are those behind the first g of the stream.
Holds(b, d, g) == \A i \in 1 .. d : b.mem[b.start + i - 1] = g + i

Stream(n) == [i \in 1 .. n |-> i]

BfdGood ==
    /\ BlockOK(buf)
    /\ amount \in Nat /\ grant \in 0 .. buf.len
    /\ IF reading THEN buf.start = 0 ELSE grant = 0
    /\ arrived \in Nat
    /\ want \in Nat /\ count \in Nat
    /\ \E g \in Nat : /\ given = Stream(g) /\ arrived = g + buf.len - grant
                      /\ Holds(buf, buf.len - grant, g)

\* Once it has read behind data partly taken out, anything can be in the buffer.
BfdInv == refilled \/ BfdGood

-----------------------------------------------------------------------------
Inv ==
    /\ object \in {"vector", "queue", "bfd"}
    /\ VectorInv
    /\ IF object = "queue" THEN QueueInv ELSE QueueUntouched
    /\ BfdInv

-----------------------------------------------------------------------------
(* Proofs about the descriptor.                                            *)

\* allocate() of a tbuf that is used keeps what lies below both sizes.
LEMMA AllocateOK ==
    ASSUME NEW b, BlockOK(b), NEW sz \in 1 .. MaxSize
    PROVE  LET a == Allocate(b, sz)
           IN  /\ a \in BlockType
               /\ a.start = b.start /\ a.len = b.len /\ a.size = sz
               /\ sz <= a.room /\ (~a.grown => a.room = Prealloc)
               /\ \A o \in Offset : o < b.size => a.mem[o] = b.mem[o]
<1> USE RdBufAssumption DEF BlockType
<1>1. b \in BlockType /\ b.size <= b.room /\ (~b.grown => b.room = Prealloc)
    BY DEF BlockOK
<1>2. CASE sz <= b.size \/ (sz <= Prealloc /\ ~b.grown)
    <2>1. Allocate(b, sz) = [b EXCEPT !.size = sz]
        BY <1>2 DEF Allocate
    <2> QED  BY <1>1, <1>2, <2>1
<1>3. CASE ~(sz <= b.size \/ (sz <= Prealloc /\ ~b.grown))
    <2> DEFINE m == [o \in Offset |-> IF o < b.size THEN b.mem[o] ELSE Junk]
    <2>1. Allocate(b, sz) = [b EXCEPT !.size = sz, !.room = sz, !.grown = TRUE, !.mem = m]
        BY <1>3 DEF Allocate
    <2>2. m \in [Offset -> Nat \cup {Junk}]
        BY <1>1
    <2>3. \A o \in Offset : o < b.size => m[o] = b.mem[o]
        OBVIOUS
    <2> DEFINE a == Allocate(b, sz)
    <2> HIDE DEF m
    <2>4. /\ a.start = b.start /\ a.len = b.len /\ a.size = sz
          /\ a.room = sz /\ a.grown = TRUE /\ a.mem = m
        BY <1>1, <2>1
    <2>5. a \in BlockType
        <3>1. sz \in Nat /\ sz \in 0 .. MaxSize /\ TRUE \in BOOLEAN
            OBVIOUS
        <3> QED  BY <1>1, <2>1, <2>2, <3>1, Zenon
    <2> HIDE DEF a
    <2>6. sz <= a.room /\ (~a.grown => a.room = Prealloc)
        BY <2>4
    <2>7. \A o \in Offset : o < b.size => a.mem[o] = b.mem[o]
        BY <2>3, <2>4
    <2> QED  BY <2>4, <2>5, <2>6, <2>7 DEF a
<1> QED  BY <1>2, <1>3

\* reserve() of a buffer whose data begins at the start of the block: the room it
\* grants lies behind the data, in the block, and the data is kept.
LEMMA ReserveOK ==
    ASSUME NEW b, BlockOK(b), b.start = 0, NEW sz \in Nat, NEW g \in Nat,
           Holds(b, b.len, g)
    PROVE  LET r == Reserve(b, sz)
           IN  /\ BlockOK(r) /\ r.start = 0
               /\ Grant(b, sz) \in Nat /\ r.len = b.len + Grant(b, sz)
               /\ Holds(r, b.len, g)
<1> USE RdBufAssumption DEF BlockType
<1> DEFINE n == Grant(b, sz)
           s == IF n < sz THEN MaxSize ELSE b.len + sz
           a == Allocate(b, s)
<1>1. b \in BlockType /\ b.len <= b.size /\ b.size <= b.room
    BY DEF BlockOK
<1>2. n \in Nat /\ b.len + n <= MaxSize
    BY <1>1 DEF Grant
<1>3. CASE n = 0
    <2>1. Reserve(b, sz) = b
        BY <1>3 DEF Reserve
    <2> QED  BY <1>1, <1>2, <1>3, <2>1
<1>4. CASE n # 0
    <2>1. s \in 1 .. MaxSize /\ b.len + n <= s
        BY <1>1, <1>2, <1>4 DEF Grant
    <2>2. Reserve(b, sz) = [a EXCEPT !.len = @ + n]
        BY <1>4 DEF Reserve
    <2>3. /\ a \in BlockType
          /\ a.start = b.start /\ a.len = b.len /\ a.size = s
          /\ s <= a.room /\ (~a.grown => a.room = Prealloc)
          /\ \A o \in Offset : o < b.size => a.mem[o] = b.mem[o]
        BY <2>1, AllocateOK
    <2> DEFINE r == Reserve(b, sz)
    <2> HIDE DEF a, s, n
    <2>4. /\ r \in BlockType /\ r.start = 0 /\ r.len = b.len + n /\ r.size = s
          /\ r.room = a.room /\ r.grown = a.grown /\ r.mem = a.mem
        BY <2>2, <2>3, <1>1, <1>2
    <2> HIDE DEF r
    <2>5. BlockOK(r)
        BY <2>3, <2>4, <2>1 DEF BlockOK
    <2>6. Holds(r, b.len, g)
        <3> SUFFICES ASSUME NEW i \in 1 .. b.len
                     PROVE  r.mem[r.start + i - 1] = g + i
            BY DEF Holds
        <3>1. i - 1 \in Offset /\ i - 1 < b.size
            BY <1>1 DEF Offset
        <3>2. r.start + i - 1 = i - 1 /\ b.start + i - 1 = i - 1
            BY <2>4
        <3>3. b.mem[i - 1] = g + i
            BY <3>2 DEF Holds
        <3> QED  BY <3>1, <3>2, <3>3, <2>3, <2>4
    <2> QED  BY <2>4, <2>5, <2>6, <1>2 DEF n, r
<1> QED  BY <1>3, <1>4

\* A read into the reservation puts the next bytes of the stream behind the data.
LEMMA FilledOK ==
    ASSUME BfdGood, reading, NEW n \in 0 .. grant, NEW kept, NEW g \in Nat,
           arrived = g + buf.len - grant, Holds(buf, buf.len - grant, g)
    PROVE  LET f == Filled(buf, n, kept)
           IN  /\ BlockOK(f) /\ f.start = 0 /\ f.len = buf.len
               /\ Holds(f, buf.len - grant + n, g)
<1> USE RdBufAssumption
<1> DEFINE at == buf.start + buf.len - grant
           m == [o \in Offset |->
                    IF o \notin at .. at + n - 1 THEN buf.mem[o]
                    ELSE IF o < buf.room \/ kept THEN arrived + o - at + 1 ELSE Junk]
           f == Filled(buf, n, kept)
<1>1. /\ buf \in BlockType /\ buf.len <= buf.size /\ buf.size <= buf.room
      /\ buf.start = 0 /\ grant \in 0 .. buf.len /\ arrived \in Nat
      /\ ~buf.grown => buf.room = Prealloc
    BY DEF BfdGood, BlockOK, BlockType
<1>2. at = buf.len - grant /\ at \in Nat /\ at + n <= buf.len /\ at + n \in Nat
    BY <1>1 DEF BlockType
<1>3. f = [buf EXCEPT !.mem = m]
    BY DEF Filled
<1> HIDE DEF f, at
<1>4. m \in [Offset -> Nat \cup {Junk}]
    <2> SUFFICES ASSUME NEW o \in Offset PROVE m[o] \in Nat \cup {Junk}
        OBVIOUS
    <2>1. o \in at .. at + n - 1 => arrived + o - at + 1 \in Nat
        BY <1>1, <1>2 DEF Offset
    <2>2. buf.mem[o] \in Nat \cup {Junk}
        BY <1>1 DEF BlockType
    <2> QED  BY <2>1, <2>2
<1>5. \A i \in 1 .. at + n : m[i - 1] = g + i
    <2> SUFFICES ASSUME NEW i \in 1 .. at + n PROVE m[i - 1] = g + i
        OBVIOUS
    <2>0. buf.len \in Nat /\ buf.size \in Nat /\ buf.room \in Nat /\ buf.size <= MaxSize
        BY <1>1 DEF BlockType
    <2>1. i - 1 \in Offset /\ i - 1 < buf.room
        BY <1>1, <1>2, <2>0, RdBufAssumption DEF Offset
    <2>2. CASE i <= at
        <3>1. buf.mem[buf.start + i - 1] = g + i
            BY <2>2, <1>2 DEF Holds
        <3>2. buf.start + i - 1 = i - 1 /\ i - 1 \notin at .. at + n - 1
            BY <1>1, <1>2, <2>2
        <3> QED  BY <2>1, <3>1, <3>2
    <2>3. CASE i > at
        <3>1. i - 1 \in at .. at + n - 1
            BY <2>3, <1>2
        <3>2. m[i - 1] = arrived + (i - 1) - at + 1
            BY <2>1, <3>1
        <3> QED  BY <3>2, <1>1, <1>2 DEF BlockType
    <2> QED  BY <2>2, <2>3, <1>2
<1> HIDE DEF m
<1>6. /\ f \in BlockType /\ f.mem = m
      /\ f.start = buf.start /\ f.len = buf.len /\ f.size = buf.size
      /\ f.room = buf.room /\ f.grown = buf.grown
    BY <1>1, <1>3, <1>4 DEF BlockType
<1>7. BlockOK(f)
    BY <1>6, <1>1 DEF BlockOK, BlockType
<1>8. Holds(f, at + n, g)
    <2> SUFFICES ASSUME NEW i \in 1 .. at + n PROVE f.mem[f.start + i - 1] = g + i
        BY DEF Holds
    <2>1. f.start + i - 1 = i - 1
        BY <1>6, <1>1
    <2> QED  BY <2>1, <1>5, <1>6
<1> QED  BY <1>1, <1>2, <1>6, <1>7, <1>8 DEF f

\* adjust() gives back what was not read, and keeps the rest.
LEMMA AdjustOK ==
    ASSUME NEW b, BlockOK(b), b.start = 0, NEW u \in 1 .. b.len, NEW g \in Nat,
           Holds(b, b.len - u, g)
    PROVE  LET a == Adjust(b, u)
           IN  /\ BlockOK(a) /\ a.start = 0 /\ a.len = b.len - u
               /\ Holds(a, b.len - u, g)
<1> USE RdBufAssumption
<1> DEFINE a == Adjust(b, u)
<1>1. /\ b \in BlockType /\ b.len <= b.size /\ b.size <= b.room
      /\ ~b.grown => b.room = Prealloc
    BY DEF BlockOK, BlockType
<1>2. CASE b.len = u
    <2> DEFINE m == IF b.grown THEN Blank ELSE b.mem
    <2>1. m \in [Offset -> Nat \cup {Junk}]
        BY <1>1 DEF BlockType, Blank
    <2>2. Allocate(b, 0) = [b EXCEPT !.size = 0, !.room = Prealloc, !.grown = FALSE,
                                     !.mem = m]
        BY DEF Allocate
    <2> HIDE DEF m
    <2>3. a = [b EXCEPT !.size = 0, !.room = Prealloc, !.grown = FALSE, !.mem = m,
                        !.start = 0, !.len = 0]
        BY <1>1, <1>2, <2>2 DEF Adjust, BlockType
    <2>4. /\ a \in BlockType /\ a.start = 0 /\ a.len = 0 /\ a.size = 0
          /\ a.room = Prealloc
        <3>1. /\ 0 \in Nat /\ 0 \in 0 .. MaxSize /\ Prealloc \in Nat
              /\ FALSE \in BOOLEAN
            OBVIOUS
        <3>2. a \in BlockType
            BY <1>1, <2>1, <2>3, <3>1, Zenon DEF BlockType
        <3> QED  BY <1>1, <2>3, <3>2 DEF BlockType
    <2> HIDE DEF a
    <2>5. BlockOK(a)
        BY <2>4 DEF BlockOK, BlockType
    <2>6. b.len - u = 0
        BY <1>1, <1>2 DEF BlockType
    <2>7. Holds(a, 0, g)
        BY DEF Holds
    <2> QED  BY <2>4, <2>5, <2>6, <2>7 DEF a
<1>3. CASE b.len # u
    <2> DEFINE s == b.start + b.len - u
               c == Allocate(b, s)
    <2>1. s \in 1 .. MaxSize /\ s = b.len - u /\ s <= b.size
        BY <1>1, <1>3 DEF BlockType
    <2>2. c = [b EXCEPT !.size = s]
        BY <2>1 DEF Allocate
    <2>3. a = [c EXCEPT !.len = @ - u]
        BY <1>1, <1>3 DEF Adjust, BlockType
    <2> HIDE DEF s, c
    <2>4. /\ a \in BlockType /\ a.start = 0 /\ a.len = b.len - u /\ a.size = s
          /\ a.room = b.room /\ a.grown = b.grown /\ a.mem = b.mem
        <3> DEFINE l == b.len - u
        <3>1. s \in 0 .. MaxSize /\ l \in Nat
            BY <1>1, <2>1 DEF BlockType
        <3>2. c.len = b.len /\ c \in BlockType
            BY <1>1, <2>2, <3>1, Zenon DEF BlockType
        <3>3. a = [c EXCEPT !.len = l]
            BY <2>3, <3>2 DEF BlockType
        <3> HIDE DEF l
        <3>4. a \in BlockType
            BY <3>1, <3>2, <3>3, Zenon DEF BlockType
        <3>5. a.len = l /\ a.size = c.size /\ a.start = c.start
            BY <3>2, <3>3 DEF BlockType
        <3>6. a.room = c.room /\ a.grown = c.grown /\ a.mem = c.mem
            BY <3>2, <3>3 DEF BlockType
        <3>7. c.size = s /\ c.start = 0
            BY <1>1, <2>2 DEF BlockType
        <3>8. c.room = b.room /\ c.grown = b.grown /\ c.mem = b.mem
            BY <1>1, <2>2 DEF BlockType
        <3> QED  BY <3>4, <3>5, <3>6, <3>7, <3>8 DEF l
    <2> HIDE DEF a
    <2>5. BlockOK(a)
        BY <1>1, <2>1, <2>4 DEF BlockOK, BlockType
    <2>6. Holds(a, b.len - u, g)
        BY <2>4 DEF Holds
    <2> QED  BY <2>4, <2>5, <2>6 DEF a
<1> QED  BY <1>2, <1>3

\* get(): the bytes it returns are the next ones of the stream, and those that
\* stay are the ones behind them.
LEMMA GetOK ==
    ASSUME NEW b, BlockOK(b), NEW sz \in Nat, NEW g \in Nat, Holds(b, b.len, g)
    PROVE  LET k == GetSize(b, sz)
               a == Get(b, sz)
           IN  /\ k \in 0 .. b.len /\ BlockOK(a) /\ a.len = b.len - k
               /\ Stream(g) \o Bytes(b, k) = Stream(g + k)
               /\ Holds(a, a.len, g + k)
<1> DEFINE k == GetSize(b, sz)
           a == Get(b, sz)
<1>1. /\ b \in BlockType /\ b.start + b.len <= b.size /\ b.size <= b.room
      /\ ~b.grown => b.room = Prealloc
    BY DEF BlockOK, BlockType
<1>2. k \in 0 .. b.len
    BY <1>1 DEF GetSize, BlockType
<1>3. a = [b EXCEPT !.start = IF b.len = k THEN 0 ELSE @ + k, !.len = @ - k]
    BY DEF Get
<1> HIDE DEF k, a
<1>4. /\ a \in BlockType /\ a.start = (IF b.len = k THEN 0 ELSE b.start + k)
      /\ a.len = b.len - k /\ a.size = b.size /\ a.room = b.room
      /\ a.grown = b.grown /\ a.mem = b.mem
    <2> DEFINE s == IF b.len = k THEN 0 ELSE b.start + k
               l == b.len - k
    <2>1. s \in Nat /\ l \in Nat
        BY <1>1, <1>2 DEF BlockType
    <2>2. a = [b EXCEPT !.start = s, !.len = l]
        BY <1>1, <1>3 DEF BlockType
    <2> HIDE DEF s, l
    <2>3. a \in BlockType
        BY <1>1, <2>1, <2>2, Zenon DEF BlockType
    <2>4. a.start = s /\ a.len = l /\ a.size = b.size
        BY <1>1, <2>2 DEF BlockType
    <2>5. a.room = b.room /\ a.grown = b.grown /\ a.mem = b.mem
        BY <1>1, <2>2 DEF BlockType
    <2> QED  BY <2>3, <2>4, <2>5 DEF s, l
<1>5. BlockOK(a)
    BY <1>1, <1>2, <1>4 DEF BlockOK, BlockType
<1>6. Holds(a, a.len, g + k)
    <2> SUFFICES ASSUME NEW i \in 1 .. b.len - k
                 PROVE  b.mem[a.start + i - 1] = g + k + i
        BY <1>4 DEF Holds
    <2>1. b.len # k /\ k + i \in 1 .. b.len
        BY <1>1, <1>2 DEF BlockType
    <2>2. b.mem[b.start + (k + i) - 1] = g + (k + i)
        BY <2>1 DEF Holds
    <2>3. a.start + i - 1 = b.start + (k + i) - 1
        BY <1>1, <1>2, <1>4, <2>1 DEF BlockType
    <2> QED  BY <2>2, <2>3, <1>2
<1>7. Stream(g) \o Bytes(b, k) = Stream(g + k)
    <2> DEFINE B == Bytes(b, k)
    <2>1. Stream(g) \in Seq(Nat) /\ Len(Stream(g)) = g
        BY DEF Stream
    <2>2. \A i \in 1 .. k : B[i] = g + i
        BY <1>1, <1>2 DEF Bytes, Holds, BlockType
    <2>3. B \in Seq(Nat) /\ Len(B) = k
        <3>1. B = [i \in 1 .. k |-> g + i]
            BY <2>2 DEF Bytes
        <3> QED  BY <3>1, <1>2
    <2> HIDE DEF B
    <2>4. \A i \in 1 .. g + k : (Stream(g) \o B)[i] = i
        BY <2>1, <2>2, <2>3, <1>2 DEF Stream
    <2>5. Stream(g) \o B \in Seq(Nat) /\ Len(Stream(g) \o B) = g + k
        BY <2>1, <2>3, <1>2
    <2> QED  BY <2>4, <2>5, <1>2 DEF Stream, B
<1> QED  BY <1>2, <1>4, <1>5, <1>6, <1>7 DEF k, a

\* internal_read() asks for a number of bytes.
LEMMA AmountType ==
    ASSUME NEW z \in Nat
    PROVE  (z \div Prealloc + 4) * Prealloc \in Nat
<1>1. Prealloc \in Nat /\ Prealloc > 0
    BY RdBufAssumption
<1> DEFINE q == z \div Prealloc + 4
<1>2. q \in Nat
    BY <1>1
<1> HIDE DEF q
<1>3. \A x, y \in Nat : x * y \in Nat
    OBVIOUS
<1>4. q * Prealloc \in Nat
    BY <1>1, <1>2, <1>3
<1> QED  BY <1>4 DEF q

\* The end of internal_read(), and what read() then takes.
LEMMA LeaveGood ==
    ASSUME NEW b, BlockOK(b), NEW g \in Nat, Holds(b, b.len, g),
           given = Stream(g), arrived' = g + b.len, want \in Nat, NEW n, Leave(b, n)
    PROVE  BfdGood'
<1> DEFINE k == IF want > 0 /\ n > 0 THEN GetSize(b, want) ELSE 0
<1>1. /\ given' = given \o Bytes(b, k)
      /\ buf' = IF k > 0 THEN Get(b, want) ELSE b
      /\ reading' = FALSE
      /\ amount' = 0 /\ grant' = 0 /\ want' = 0 /\ count' = 0
    BY DEF Leave
<1>2. b.len \in Nat /\ arrived' \in Nat
    BY DEF BlockOK, BlockType
<1>3. \E h \in Nat : /\ BlockOK(buf') /\ given' = Stream(h)
                     /\ arrived' = h + buf'.len /\ Holds(buf', buf'.len, h)
    <2>1. CASE k > 0
        <3>1. k = GetSize(b, want) /\ buf' = Get(b, want)
            BY <2>1, <1>1
        <3>2. /\ k \in 0 .. b.len /\ BlockOK(buf') /\ buf'.len = b.len - k
              /\ Stream(g) \o Bytes(b, k) = Stream(g + k)
              /\ Holds(buf', buf'.len, g + k)
            BY <3>1, GetOK
        <3> HIDE DEF k
        <3>3. g + k \in Nat /\ arrived' = (g + k) + buf'.len
            BY <3>2, <1>2
        <3> QED  BY <3>2, <3>3, <1>1
    <2>2. CASE ~(k > 0)
        <3>1. k = 0
            <4>1. GetSize(b, want) \in Nat
                BY <1>2 DEF GetSize
            <4> QED  BY <2>2, <4>1
        <3>2. buf' = b /\ given' = given \o Bytes(b, 0)
            BY <2>2, <3>1, <1>1
        <3>3. Bytes(b, 0) = <<>>
            BY DEF Bytes
        <3>4. Stream(g) \in Seq(Nat)
            BY DEF Stream
        <3>5. given' = Stream(g)
            BY <3>2, <3>3, <3>4, ConcatEmptySeq
        <3> QED  BY <3>2, <3>5
    <2> QED  BY <2>1, <2>2
<1>4. PICK h \in Nat : /\ BlockOK(buf') /\ given' = Stream(h)
                       /\ arrived' = h + buf'.len /\ Holds(buf', buf'.len, h)
    BY <1>3
<1>5. /\ buf'.len \in Nat /\ buf'.len - grant' = buf'.len
      /\ h + buf'.len - grant' = h + buf'.len
    BY <1>1, <1>4 DEF BlockOK, BlockType
<1>6. amount' \in Nat /\ grant' \in 0 .. buf'.len /\ want' \in Nat /\ count' \in Nat
    BY <1>1, <1>5
<1>7. IF reading' THEN buf'.start = 0 ELSE grant' = 0
    BY <1>1
<1>8. arrived' = h + buf'.len - grant' /\ Holds(buf', buf'.len - grant', h)
    BY <1>4, <1>5
<1>9. \E i \in Nat : /\ given' = Stream(i) /\ arrived' = i + buf'.len - grant'
                     /\ Holds(buf', buf'.len - grant', i)
    BY <1>4, <1>8, Zenon
<1> QED  BY <1>2, <1>4, <1>6, <1>7, <1>9, Zenon DEF BfdGood

\* What BfdGood says in one state, with its witness.
LEMMA Opened ==
    ASSUME BfdGood
    PROVE  \E g \in Nat : /\ given = Stream(g) /\ arrived = g + buf.len - grant
                          /\ Holds(buf, buf.len - grant, g)
BY DEF BfdGood

\* A reservation for the first read of internal_read().
LEMMA EnterGood ==
    ASSUME BfdGood, ~reading, NEW sz \in Nat, Enter(sz), ~refilled'
    PROVE  BfdGood'
<1>1. PICK g \in Nat : /\ given = Stream(g) /\ arrived = g + buf.len - grant
                       /\ Holds(buf, buf.len - grant, g)
    BY Opened
<1>2. /\ BlockOK(buf) /\ grant = 0 /\ arrived \in Nat
      /\ buf.len \in Nat /\ buf.start \in Nat /\ buf.size \in Nat
    BY RdBufAssumption DEF BfdGood, BlockOK, BlockType
<1>3. buf.start = 0
    <2>1. refilled' = (refilled \/ buf.start > 0)
        BY DEF Enter
    <2>2. ~(buf.start > 0)
        BY <2>1, Zenon
    <2> QED  BY <1>2, <2>2
<1>4. FirstAmount \in Nat
    BY <1>2, AmountType, RdBufAssumption DEF FirstAmount
<1>5. buf.len - grant = buf.len /\ arrived = g + buf.len
    BY <1>1, <1>2
<1>6. /\ BlockOK(buf') /\ buf'.start = 0
      /\ grant' \in Nat /\ buf'.len = buf.len + grant'
      /\ Holds(buf', buf.len, g)
    BY <1>1, <1>2, <1>3, <1>4, <1>5, ReserveOK DEF Enter
<1>7. /\ reading' = TRUE /\ amount' \in Nat /\ want' \in Nat /\ count' \in Nat
      /\ arrived' = arrived /\ given' = given
    BY <1>4 DEF Enter
<1>8. /\ grant' \in 0 .. buf'.len /\ buf'.len - grant' = buf.len
      /\ arrived' = g + buf'.len - grant'
    BY <1>2, <1>5, <1>6, <1>7
<1>9. arrived' \in Nat /\ IF reading' THEN buf'.start = 0 ELSE grant' = 0
    BY <1>2, <1>6, <1>7
<1>10. \E i \in Nat : /\ given' = Stream(i) /\ arrived' = i + buf'.len - grant'
                      /\ Holds(buf', buf'.len - grant', i)
    BY <1>1, <1>6, <1>7, <1>8
<1> QED  BY <1>6, <1>7, <1>8, <1>9, <1>10, Zenon DEF BfdGood

LEMMA TakeGood ==
    ASSUME BfdGood, NEW sz \in Nat, Take(sz)
    PROVE  BfdGood'
<1>1. PICK g \in Nat : /\ given = Stream(g) /\ arrived = g + buf.len - grant
                       /\ Holds(buf, buf.len - grant, g)
    BY Opened
<1>2. /\ BlockOK(buf) /\ grant = 0 /\ arrived \in Nat /\ buf.len \in Nat
      /\ amount \in Nat /\ want \in Nat /\ count \in Nat
    BY DEF BfdGood, BlockOK, BlockType, Take
<1>3. buf.len - grant = buf.len /\ arrived = g + buf.len
    BY <1>1, <1>2
<1> DEFINE k == GetSize(buf, sz)
<1>4. /\ k \in 0 .. buf.len /\ BlockOK(buf') /\ buf'.len = buf.len - k
      /\ given' = Stream(g + k)
      /\ Holds(buf', buf'.len, g + k)
    BY <1>1, <1>2, <1>3, GetOK DEF Take
<1> HIDE DEF k
<1>5. /\ arrived' = arrived /\ grant' = grant /\ amount' = amount /\ want' = want
      /\ count' = count /\ ~reading'
    BY DEF Take
<1>6. /\ g + k \in Nat /\ arrived' = (g + k) + buf'.len - grant'
      /\ buf'.len - grant' = buf'.len /\ grant' \in 0 .. buf'.len /\ grant' = 0
    BY <1>2, <1>3, <1>4, <1>5
<1>7. /\ amount' \in Nat /\ want' \in Nat /\ count' \in Nat /\ arrived' \in Nat
      /\ IF reading' THEN buf'.start = 0 ELSE grant' = 0
    BY <1>2, <1>5, <1>6
<1>8. \E i \in Nat : /\ given' = Stream(i) /\ arrived' = i + buf'.len - grant'
                     /\ Holds(buf', buf'.len - grant', i)
    BY <1>4, <1>6
<1> QED  BY <1>4, <1>6, <1>7, <1>8, Zenon DEF BfdGood

LEMMA ReadPartGood ==
    ASSUME BfdGood, NEW n \in Nat \ {0}, NEW kept, ReadPart(n, kept)
    PROVE  BfdGood'
<1>1. PICK g \in Nat : /\ given = Stream(g) /\ arrived = g + buf.len - grant
                       /\ Holds(buf, buf.len - grant, g)
    BY Opened
<1>2. /\ reading /\ n < grant /\ grant \in 0 .. buf.len /\ buf.len \in Nat
      /\ arrived \in Nat /\ want \in Nat
    BY DEF BfdGood, BlockOK, BlockType, ReadPart
<1>3. n \in 0 .. grant /\ grant - n \in 1 .. buf.len
    BY <1>2
<1> DEFINE f == Filled(buf, n, kept)
           a == Adjust(f, grant - n)
<1>4. /\ BlockOK(f) /\ f.start = 0 /\ f.len = buf.len
      /\ Holds(f, buf.len - grant + n, g)
    BY <1>1, <1>2, <1>3, FilledOK
<1> HIDE DEF f
<1>5. f.len - (grant - n) = buf.len - grant + n
    BY <1>2, <1>4
<1>6. /\ BlockOK(a) /\ a.len = buf.len - grant + n
      /\ Holds(a, buf.len - grant + n, g)
    BY <1>3, <1>4, <1>5, AdjustOK
<1>7. Leave(a, count + n) /\ arrived' = arrived + n
    BY DEF ReadPart, f
<1> HIDE DEF a
<1>8. arrived' = g + a.len
    BY <1>1, <1>2, <1>6, <1>7
<1> QED  BY <1>1, <1>2, <1>6, <1>7, <1>8, LeaveGood

LEMMA ReadFullGood ==
    ASSUME BfdGood, NEW kept, ReadFull(kept)
    PROVE  BfdGood'
<1>1. PICK g \in Nat : /\ given = Stream(g) /\ arrived = g + buf.len - grant
                       /\ Holds(buf, buf.len - grant, g)
    BY Opened
<1>2. /\ reading /\ grant \in 0 .. buf.len /\ buf.len \in Nat /\ buf.start = 0
      /\ arrived \in Nat /\ want \in Nat /\ amount \in Nat /\ count \in Nat
    BY DEF BfdGood, BlockOK, BlockType, ReadFull
<1>3. grant \in 0 .. grant /\ buf.len - grant + grant = buf.len /\ 2 * amount \in Nat
    BY <1>2
<1> DEFINE f == Filled(buf, grant, kept)
<1>4. /\ BlockOK(f) /\ f.start = 0 /\ f.len = buf.len /\ Holds(f, f.len, g)
    BY <1>1, <1>2, <1>3, FilledOK
<1>5. Grant(buf, 2 * amount) = Grant(f, 2 * amount)
    BY <1>2, <1>4 DEF Grant
<1>6. buf' = Reserve(f, 2 * amount) /\ grant' = Grant(f, 2 * amount)
    BY <1>5 DEF ReadFull
<1> HIDE DEF f
<1>7. /\ BlockOK(buf') /\ buf'.start = 0
      /\ grant' \in Nat /\ buf'.len = f.len + grant'
      /\ Holds(buf', f.len, g)
    BY <1>3, <1>4, <1>6, ReserveOK
<1>8. /\ reading' /\ want' = want /\ given' = given /\ amount' = 2 * amount
      /\ count' = count + grant /\ arrived' = arrived + grant
    BY <1>2 DEF ReadFull
<1>9. /\ grant' \in 0 .. buf'.len /\ buf'.len - grant' = f.len
      /\ arrived' = g + buf'.len - grant' /\ arrived' \in Nat /\ count' \in Nat
    BY <1>1, <1>2, <1>4, <1>7, <1>8
<1>10. /\ amount' \in Nat /\ want' \in Nat
       /\ IF reading' THEN buf'.start = 0 ELSE grant' = 0
    BY <1>2, <1>3, <1>7, <1>8
<1>11. \E i \in Nat : /\ given' = Stream(i) /\ arrived' = i + buf'.len - grant'
                      /\ Holds(buf', buf'.len - grant', i)
    BY <1>1, <1>7, <1>8, <1>9
<1> QED  BY <1>7, <1>9, <1>10, <1>11, Zenon DEF BfdGood

LEMMA ReadEndsGood ==
    ASSUME BfdGood, BufferFull \/ \E state \in FdState : ReadNothing(state)
    PROVE  BfdGood'
<1>1. PICK g \in Nat : /\ given = Stream(g) /\ arrived = g + buf.len - grant
                       /\ Holds(buf, buf.len - grant, g)
    BY Opened
<1>2. /\ reading /\ grant \in 0 .. buf.len /\ buf.len \in Nat /\ buf.start = 0
      /\ BlockOK(buf) /\ arrived \in Nat /\ want \in Nat /\ arrived' = arrived
    BY DEF BfdGood, BlockOK, BlockType, BufferFull, ReadNothing
<1>3. CASE BufferFull
    <2>1. buf.len - grant = buf.len /\ arrived' = g + buf.len
        BY <1>1, <1>2, <1>3 DEF BufferFull
    <2> QED  BY <1>1, <1>2, <1>3, <2>1, LeaveGood DEF BufferFull
<1>4. CASE \E state \in FdState : ReadNothing(state)
    <2> DEFINE a == Adjust(buf, grant)
    <2>1. grant \in 1 .. buf.len /\ Leave(a, count)
        BY <1>2, <1>4 DEF ReadNothing
    <2>2. BlockOK(a) /\ a.len = buf.len - grant /\ Holds(a, buf.len - grant, g)
        BY <1>1, <1>2, <2>1, AdjustOK
    <2> HIDE DEF a
    <2>3. arrived' = g + a.len
        BY <1>1, <1>2, <2>2
    <2> QED  BY <1>1, <1>2, <2>1, <2>2, <2>3, LeaveGood
<1> QED  BY <1>3, <1>4

\* Nothing but refilled and the buffer's own state matters to BfdInv.
LEMMA BfdSame ==
    ASSUME BfdInv, UNCHANGED <<buf, reading, amount, grant, want, count, arrived,
                               given, refilled>>
    PROVE  BfdInv'
BY DEF BfdInv, BfdGood

LEMMA BfdStep ==
    ASSUME BfdInv, Next
    PROVE  BfdInv'
<1> SUFFICES ASSUME ~refilled' PROVE BfdGood'
    BY DEF BfdInv
<1> USE BfdAssumption
<1>1. ~refilled
    BY DEF Next, Take, Read, ReadSome, Enter, ReadPart, ReadFull, BufferFull,
           ReadNothing, SetFd
<1>2. BfdGood
    BY <1>1 DEF BfdInv
<1>3. CASE \E sz \in Sizes : Take(sz) \/ Read(sz)
    BY <1>2, <1>3, TakeGood, EnterGood DEF Read
<1>4. CASE ReadSome
    BY <1>2, <1>4, EnterGood DEF ReadSome
<1>5. CASE \E n \in 1 .. MaxByte - arrived, kept \in BOOLEAN : ReadPart(n, kept)
    <2>1. PICK n \in 1 .. MaxByte - arrived, kept \in BOOLEAN : ReadPart(n, kept)
        BY <1>5
    <2>2. n \in Nat \ {0}
        BY <1>2 DEF BfdGood
    <2> QED  BY <1>2, <2>1, <2>2, ReadPartGood
<1>6. CASE \E kept \in BOOLEAN : arrived + grant <= MaxByte /\ ReadFull(kept)
    BY <1>2, <1>6, ReadFullGood
<1>7. CASE BufferFull
    BY <1>2, <1>7, ReadEndsGood
<1>8. CASE \E state \in FdState : ReadNothing(state) \/ SetFd(state)
    <2>1. PICK state \in FdState : ReadNothing(state) \/ SetFd(state)
        BY <1>8
    <2>2. CASE ReadNothing(state)
        BY <1>2, <2>2, ReadEndsGood
    <2>3. CASE SetFd(state)
        <3>1. UNCHANGED <<buf, reading, amount, grant, want, count, arrived,
                          given, refilled>>
            BY <2>3 DEF SetFd
        <3>2. BfdInv'
            BY <3>1, BfdSame
        <3> QED  BY <3>2 DEF BfdInv
    <2> QED  BY <2>1, <2>2, <2>3
<1> QED  BY <1>3, <1>4, <1>5, <1>6, <1>7, <1>8 DEF Next

\* The data that has been read is the stream.
LEMMA GoodIsIntact ==
    ASSUME BfdGood
    PROVE  Intact
<1>1. PICK g \in Nat : /\ given = Stream(g) /\ arrived = g + buf.len - grant
                       /\ Holds(buf, buf.len - grant, g)
    BY Opened
<1> DEFINE d == buf.len - grant
<1>2. /\ BlockOK(buf) /\ d \in 0 .. buf.len /\ buf.len \in Nat /\ buf.start \in Nat
      /\ arrived = g + d /\ Settled = Bytes(buf, d)
    BY <1>1, RdBufAssumption DEF BfdGood, BlockOK, BlockType, Settled, Buffered
<1> HIDE DEF d
<1> DEFINE B == Bytes(buf, d)
<1>3. \A i \in 1 .. d : B[i] = g + i
    BY <1>1, <1>2 DEF Bytes, Holds, d
<1>4. B \in Seq(Nat) /\ Len(B) = d
    <2>1. B = [i \in 1 .. d |-> g + i]
        BY <1>3 DEF Bytes
    <2> QED  BY <2>1, <1>2
<1> HIDE DEF B
<1>5. Stream(g) \in Seq(Nat) /\ Len(Stream(g)) = g
    BY DEF Stream
<1>d. d \in Nat
    BY <1>2
<1>6. \A i \in 1 .. g + d : (Stream(g) \o B)[i] = i
    BY <1>d, <1>3, <1>4, <1>5 DEF Stream
<1>7. Stream(g) \o B \in Seq(Nat) /\ Len(Stream(g) \o B) = g + d
    BY <1>d, <1>4, <1>5
<1>8. Stream(g) \o B = [i \in 1 .. arrived |-> i]
    <2>1. Stream(g) \o B = [i \in 1 .. g + d |-> i]
        <3> DEFINE C == Stream(g) \o B
                   n == g + d
        <3>1. C \in Seq(Nat) /\ Len(C) = n /\ n \in Nat /\ \A i \in 1 .. n : C[i] = i
            BY <1>d, <1>6, <1>7
        <3> HIDE DEF C, n
        <3>2. C = [i \in 1 .. n |-> i]
            BY <3>1
        <3> QED  BY <3>2 DEF C, n
    <2> QED  BY <1>2, <2>1
<1> QED  BY <1>1, <1>2, <1>8 DEF Intact, B

-----------------------------------------------------------------------------
(* Numbers: the least and the greatest of a set, and division.             *)

LEMMA LeastNat ==
    ASSUME NEW S \in SUBSET Nat, S # {}
    PROVE  Min(S) \in S /\ \A e \in S : Min(S) <= e
<1> DEFINE R == {ss \in Nat \X Nat : ss[1] < ss[2]}
<1>1. IsWellFoundedOn(R, Nat)
    BY NatLessThanWellFounded DEF OpToRel
<1> HIDE DEF R
<1>2. PICK d \in S : \A e \in S : ~(<<e, d>> \in R)
    BY <1>1, WFMin
<1>3. \A e \in S : ~(e < d)
    BY <1>2 DEF R
<1>4. \A e \in S : d <= e
    BY <1>3
<1> QED  BY <1>4 DEF Min

LEMMA GreatestNat ==
    ASSUME NEW S \in SUBSET Nat, S # {}, NEW n \in Nat, \A e \in S : e <= n
    PROVE  Max(S) \in S /\ \A e \in S : Max(S) >= e
<1> DEFINE T == {x \in Nat : x <= n /\ n - x \in S}
<1>1. T # {} /\ T \in SUBSET Nat
    <2>1. PICK e \in S : TRUE
        OBVIOUS
    <2>2. n - e \in Nat /\ n - e <= n /\ n - (n - e) = e
        BY <2>1
    <2>3. n - e \in T
        BY <2>1, <2>2
    <2> QED  BY <2>3
<1>2. PICK d \in T : \A x \in T : d <= x
    BY <1>1, LeastNat
<1>3. n - d \in S
    BY <1>2
<1>4. \A e \in S : n - d >= e
    <2> SUFFICES ASSUME NEW e \in S PROVE n - d >= e
        OBVIOUS
    <2>1. n - e \in Nat /\ n - e <= n /\ n - (n - e) = e
        OBVIOUS
    <2>2. n - e \in T
        BY <2>1
    <2>3. d \in Nat /\ e \in Nat
        BY <1>2
    <2>4. d <= n - e
        BY <1>2, <2>2
    <2> QED  BY <2>1, <2>3, <2>4
<1> QED  BY <1>3, <1>4 DEF Max

LEMMA Multiples ==
    ASSUME NEW x \in Nat, NEW w \in Nat \ {0}, NEW m \in Nat, m >= x \div w + 2
    PROVE  x \div w \in Nat /\ m * w \in Nat /\ x < m * w
<1> DEFINE q == x \div w
<1>1. q \in Nat
    OBVIOUS
<1>2. x < q * w + w
    OBVIOUS
<1> HIDE DEF q
<1>3. PICK k \in Nat : m = q + k /\ k >= 2
    <2>1. m - q \in Nat /\ m = q + (m - q) /\ m - q >= 2
        BY <1>1 DEF q
    <2> QED  BY <2>1
<1>4. m * w = q * w + k * w
    BY <1>1, <1>3
<1>5. k * w >= w /\ k * w \in Nat /\ q * w \in Nat
    BY <1>1, <1>3
<1> QED  BY <1>1, <1>2, <1>4, <1>5 DEF q

-----------------------------------------------------------------------------
(* Proofs about the vector.                                                *)

LEMMA ChunkFacts ==
    ASSUME ChunksOK
    PROVE  /\ Len(ends) \in Nat /\ Len(ends) >= 1 /\ Size \in Nat \ {0}
           /\ Start(Len(ends)) \in Nat /\ Start(Len(ends)) < Size
           /\ TailMul \in Nat
<1>1. Len(ends) \in Nat /\ Len(ends) >= 1
    BY DEF ChunksOK
<1>2. Size \in Nat /\ Start(Len(ends)) \in Nat /\ Start(Len(ends)) < Size
    BY <1>1 DEF ChunksOK, Size
<1>3. Size - Start(Len(ends)) \in Nat /\ Size > 0
    BY <1>2
<1>4. TailMul \in Nat
    <2> DEFINE x == Size - Start(Len(ends))
    <2>1. \A y \in Nat, w \in Nat \ {0} : y \div w \in Nat
        OBVIOUS
    <2>2. x \in Nat
        BY <1>3
    <2> HIDE DEF x
    <2>3. x \div Width \in Nat
        BY <2>1, <2>2, VectorAssumption
    <2> QED  BY <2>3 DEF TailMul, x
<1> QED  BY <1>1, <1>2, <1>3, <1>4

\* Chunks after one of the operations: the same, or one more.
Grown(e) == e = ends \/ \E mul \in Nat \ {0} : e = Allocated(mul)

LEMMA GrownOK ==
    ASSUME ChunksOK, Grown(ends')
    PROVE  ChunksOK' /\ Size <= Size'
<1>1. CASE ends' = ends
    <2>1. ChunksOK' /\ Size' = Size
        BY <1>1 DEF ChunksOK, Start, Size
    <2> QED  BY <2>1, ChunkFacts
<1>2. CASE \E mul \in Nat \ {0} : ends' = Allocated(mul)
    <2>1. PICK mul \in Nat \ {0} : ends' = Allocated(mul)
        BY <1>2
    <2> DEFINE n == Len(ends)
               e == Size + mul * Width
    <2>2. e \in Nat /\ Size < e
        <3>1. \A x \in Nat \ {0}, y \in Nat \ {0} : x * y \in Nat /\ x * y > 0
            OBVIOUS
        <3>2. mul * Width \in Nat /\ mul * Width > 0
            BY <3>1, VectorAssumption
        <3> QED  BY <3>2, ChunkFacts
    <2>3. ends' = Append(ends, e)
        BY <2>1 DEF Allocated
    <2>4. n \in Nat /\ n >= 1 /\ ends \in Seq(Nat)
        BY ChunkFacts DEF ChunksOK
    <2> HIDE DEF e
    <2>5. /\ ends' \in Seq(Nat) /\ Len(ends') = n + 1
          /\ \A i \in 1 .. n : ends'[i] = ends[i]
          /\ ends'[n + 1] = e
        BY <2>2, <2>3, <2>4, AppendProperties
    <2>6. Size = ends[n] /\ Size' = e
        BY <2>5 DEF Size
    <2> HIDE DEF n
    <2>7. ASSUME NEW c \in 1 .. n + 1
          PROVE  Start(c)' \in Nat /\ Start(c)' < ends'[c]
        <3>1. CASE c = n + 1
            <4>1. Start(c)' = ends'[c - 1] /\ c - 1 = n
                BY <3>1, <2>4 DEF Start
            <4> QED  BY <4>1, <3>1, <2>2, <2>4, <2>5, <2>6, ChunkFacts
        <3>2. CASE c # n + 1
            <4>1. c \in 1 .. n
                BY <3>2, <2>4
            <4>2. Start(c) \in Nat /\ Start(c) < ends[c]
                BY <4>1 DEF ChunksOK, n
            <4>3. Start(c)' = Start(c)
                BY <4>1, <2>4, <2>5 DEF Start
            <4> QED  BY <4>1, <4>2, <4>3, <2>5
        <3> QED  BY <3>1, <3>2
    <2>8. ends' # <<>>
        BY <2>4, <2>5
    <2>9. ChunksOK'
        BY <2>5, <2>7, <2>8 DEF ChunksOK
    <2> QED  BY <2>2, <2>6, <2>9, ChunkFacts
<1> QED  BY <1>1, <1>2 DEF Grown

\* force_iterator_at() grows the vector as far as it is asked to.
LEMMA ReachingOK ==
    ASSUME ChunksOK, NEW p \in Nat, ends' = Reaching(p)
    PROVE  Grown(ends') /\ p < Size'
<1>1. Size \in Nat
    BY ChunkFacts
<1>2. CASE p < Size
    BY <1>1, <1>2 DEF Reaching, Grown, Size
<1>3. CASE ~(p < Size)
    <2> DEFINE S == {TailMul + 2, (p - Size) \div Width + 2}
               m == Max(S)
    <2>1. p - Size \in Nat /\ TailMul \in Nat
        BY <1>1, <1>3, ChunkFacts
    <2>2. (p - Size) \div Width \in Nat
        <3> DEFINE x == p - Size
        <3>1. \A y \in Nat, w \in Nat \ {0} : y \div w \in Nat
            OBVIOUS
        <3> HIDE DEF x
        <3> QED  BY <2>1, <3>1, VectorAssumption DEF x
    <2>3. S \in SUBSET Nat /\ S # {}
        BY <2>1, <2>2
    <2>4. \A x \in S : x <= TailMul + 2 + (p - Size) \div Width + 2
        BY <2>1, <2>2
    <2>5. m \in S /\ \A x \in S : m >= x
        <3>1. TailMul + 2 + (p - Size) \div Width + 2 \in Nat
            BY <2>1, <2>2
        <3> QED  BY <2>3, <2>4, <3>1, GreatestNat
    <2>6. m \in Nat \ {0} /\ m >= (p - Size) \div Width + 2
        BY <2>1, <2>2, <2>5
    <2>7. ends' = Allocated(m)
        BY <1>3 DEF Reaching
    <2> HIDE DEF m, S
    <2>8. m * Width \in Nat /\ p - Size < m * Width
        BY <2>1, <2>6, Multiples, VectorAssumption
    <2>9. Size' = Size + m * Width
        <3> DEFINE e == Size + m * Width
        <3>1. e \in Nat /\ ends \in Seq(Nat)
            BY <1>1, <2>8 DEF ChunksOK
        <3>2. ends' = Append(ends, e)
            BY <2>7 DEF Allocated
        <3> HIDE DEF e
        <3> QED  BY <3>1, <3>2 DEF Size, e
    <2> QED  BY <1>1, <2>6, <2>7, <2>8, <2>9 DEF Grown
<1> QED  BY <1>2, <1>3

\* A position found behind the last chunk gets a new one.
LEMMA RoomOK ==
    ASSUME ChunksOK, NEW p \in Nat, p <= Size, ends' = Room(p)
    PROVE  Grown(ends') /\ p < Size'
<1>1. Size \in Nat /\ TailMul + 2 \in Nat \ {0} /\ ends \in Seq(Nat)
    BY ChunkFacts DEF ChunksOK
<1>2. CASE p = Size
    <2> DEFINE m == TailMul + 2
               e == Size + m * Width
    <2>1. ends' = Append(ends, e) /\ Grown(ends')
        BY <1>1, <1>2 DEF Room, Grown, Allocated
    <2>2. \A x, y \in Nat \ {0} : x * y \in Nat /\ x * y > 0
        OBVIOUS
    <2>3. m \in Nat \ {0}
        BY <1>1
    <2> HIDE DEF m
    <2>4. m * Width \in Nat /\ m * Width > 0
        BY <2>2, <2>3, VectorAssumption
    <2>5. e \in Nat /\ Size < e
        BY <1>1, <2>4
    <2> HIDE DEF e
    <2>6. Size' = e
        BY <1>1, <2>1, <2>5 DEF Size
    <2> QED  BY <1>2, <2>1, <2>5, <2>6
<1>3. CASE p # Size
    <2>1. ends' = ends /\ p < Size
        BY <1>1, <1>3 DEF Room
    <2> QED  BY <2>1 DEF Grown, Size
<1> QED  BY <1>2, <1>3

\* Where push_back() and the queue put things.
LEMMA FreeFacts ==
    ASSUME ChunksOK, UsedOK
    PROVE  /\ LastFree \in Nat /\ LastFree <= Size
           /\ FirstFree \in Nat /\ FirstFree <= Size /\ FirstFree \notin used
<1>1. /\ Size \in Nat /\ used \in SUBSET Nat /\ \A p \in used : p < Size
      /\ Start(Len(ends)) \in Nat /\ Start(Len(ends)) < Size
    BY ChunkFacts DEF UsedOK
<1>2. LastFree \in Nat /\ LastFree <= Size
    <2> DEFINE T == used \cap Chunk(Len(ends))
    <2>1. CASE T = {}
        <3>1. LastFree = Start(Len(ends))
            BY <2>1 DEF LastFree
        <3> QED  BY <1>1, <3>1
    <2>2. CASE T # {}
        <3>1. Max(T) \in T
            <4>1. \A e \in used : e \in Nat /\ e <= Size
                BY <1>1
            <4>2. T \in SUBSET Nat /\ \A e \in T : e <= Size
                BY <4>1, Zenon
            <4> HIDE DEF T
            <4> QED  BY <1>1, <2>2, <4>2, GreatestNat
        <3>2. LastFree = Max(T) + 1
            BY <2>2 DEF LastFree
        <3>3. Max(T) \in Nat /\ Max(T) < Size
            BY <1>1, <3>1
        <3> QED  BY <1>1, <3>2, <3>3
    <2> QED  BY <2>1, <2>2
<1>3. FirstFree \in Nat /\ FirstFree <= Size /\ FirstFree \notin used
    <2> DEFINE F == (0 .. Size - 1) \ used
    <2>1. CASE F = {}
        <3>1. FirstFree = Size
            BY <2>1 DEF FirstFree
        <3> QED  BY <1>1, <3>1
    <2>2. CASE F # {}
        <3>1. Min(F) \in F
            <4>1. F \in SUBSET Nat
                BY <1>1
            <4> HIDE DEF F
            <4> QED  BY <2>2, <4>1, LeastNat
        <3>2. FirstFree = Min(F)
            BY <2>2 DEF FirstFree
        <3> QED  BY <1>1, <3>1, <3>2
    <2> QED  BY <2>1, <2>2
<1> QED  BY <1>2, <1>3

\* set() keeps the bits and the count.
LEMMA SetAtOK ==
    ASSUME ChunksOK, UsedOK, NEW p \in Nat, NEW v, NEW grown, SetAt(p, v, grown),
           Grown(grown), p < Size'
    PROVE  ChunksOK' /\ UsedOK'
<1>1. ends' = grown /\ used' = used \cup {p}
    BY DEF SetAt
<1>2. ChunksOK' /\ Size <= Size'
    BY <1>1, GrownOK
<1>3. Size \in Nat /\ Size' \in Nat
    <2>1. Size \in Nat
        BY ChunkFacts
    <2>2. Len(ends)' \in 1 .. Len(ends)' /\ ends' \in Seq(Nat)
        BY <1>2 DEF ChunksOK
    <2>3. Size' \in Nat
        BY <2>2 DEF Size
    <2> QED  BY <2>1, <2>3
<1>4. used' \in SUBSET (0 .. Size' - 1)
    <2>1. \A x \in used : x \in 0 .. Size - 1
        BY DEF UsedOK
    <2> DEFINE z == Size'
    <2>2. z \in Nat /\ Size <= z /\ p < z
        BY <1>2, <1>3
    <2> HIDE DEF z
    <2>3. \A x \in 0 .. Size - 1 : x \in 0 .. z - 1
        BY <1>3, <2>2
    <2>4. p \in 0 .. z - 1
        BY <2>2
    <2>5. used' \in SUBSET (0 .. z - 1)
        BY <1>1, <2>1, <2>3, <2>4
    <2> QED  BY <2>5 DEF z
<1>5. /\ IsFiniteSet(used')
      /\ Cardinality(used') = IF p \in used THEN Cardinality(used) ELSE Cardinality(used) + 1
    BY <1>1, FS_AddElement DEF UsedOK
<1>6. nItems' = Cardinality(used')
    BY <1>5 DEF SetAt, UsedOK
<1> QED  BY <1>2, <1>4, <1>5, <1>6 DEF UsedOK

\* destroy() of an item does, too.
LEMMA DestroyOK ==
    ASSUME ChunksOK, UsedOK, NEW p \in used, Destroy(p)
    PROVE  /\ ChunksOK' /\ UsedOK' /\ nItems' = nItems - 1 /\ nItems \in Nat \ {0}
           /\ \A x \in 1 .. Len(ends) : Start(x)' = Start(x)
<1>1. ends' = ends /\ used' = used \ {p} /\ nItems' = nItems - 1
    BY DEF Destroy
<1>2. ChunksOK' /\ Size' = Size /\ \A x \in 1 .. Len(ends) : Start(x)' = Start(x)
    BY <1>1 DEF ChunksOK, Start, Size
<1>3. /\ IsFiniteSet(used') /\ Cardinality(used) \in Nat
      /\ Cardinality(used') = Cardinality(used) - 1
    BY <1>1, FS_RemoveElement, FS_CardinalityType DEF UsedOK
<1>4. nItems \in Nat \ {0}
    <2>1. Cardinality(used') \in Nat
        BY <1>3, FS_CardinalityType
    <2> QED  BY <1>3, <2>1 DEF UsedOK
<1> QED  BY <1>1, <1>2, <1>3, <1>4 DEF UsedOK

\* Operations of a vector that no loop is walking over.
LEMMA ChangeOK ==
    ASSUME ChunksOK, UsedOK, walk = "none",
           \/ \E p \in 0 .. MaxPos, v \in Val : Set(p, v) \/ Construct(p, v)
           \/ \E v : PushBack(v) \/ PushFirstFree(v)
           \/ \E p \in Nat : FreeAt(p)
           \/ Reset
    PROVE  VectorInv'
<1>1. CASE \E p \in 0 .. MaxPos, v \in Val : Set(p, v) \/ Construct(p, v)
    <2>0. PICK p \in 0 .. MaxPos :
                \E v : SetAt(p, v, Reaching(p)) /\ UNCHANGED walking
        BY <1>1 DEF Set, Construct
    <2>1. PICK v : SetAt(p, v, Reaching(p)) /\ UNCHANGED walking
        BY <2>0
    <2>2. p \in Nat /\ ends' = Reaching(p)
        BY <2>1, VectorAssumption DEF SetAt
    <2>3. ChunksOK' /\ UsedOK'
        BY <2>1, <2>2, ReachingOK, SetAtOK
    <2> QED  BY <2>1, <2>3 DEF VectorInv, WalkOK, walking
<1>2. CASE \E v : PushBack(v) \/ PushFirstFree(v)
    <2>0. PICK v : PushBack(v) \/ PushFirstFree(v)
        BY <1>2
    <2>1. PICK p \in {LastFree, FirstFree} :
                SetAt(p, v, Room(p)) /\ UNCHANGED walking
        BY <2>0 DEF PushBack, PushFirstFree
    <2>2. p \in Nat /\ p <= Size /\ ends' = Room(p)
        BY <2>1, FreeFacts DEF SetAt
    <2>3. ChunksOK' /\ UsedOK'
        BY <2>1, <2>2, RoomOK, SetAtOK
    <2> QED  BY <2>1, <2>3 DEF VectorInv, WalkOK, walking
<1>3. CASE \E p \in Nat : FreeAt(p)
    <2>1. PICK p \in Nat : FreeAt(p)
        BY <1>3
    <2>2. walk' = "none"
        BY <2>1 DEF FreeAt, walking
    <2>3. CASE UNCHANGED vec
        <3>1. ends' = ends /\ used' = used /\ nItems' = nItems
            BY <2>3 DEF vec
        <3> QED  BY <2>2, <3>1 DEF VectorInv, WalkOK, ChunksOK, UsedOK, Start, Size
    <2>4. CASE p \in used /\ Destroy(p)
        BY <2>2, <2>4, DestroyOK DEF VectorInv, WalkOK
    <2> QED  BY <2>1, <2>3, <2>4 DEF FreeAt
<1>4. CASE Reset
    <2>1. /\ ends' = <<Width>> /\ used' = {} /\ nItems' = 0 /\ walk' = "none"
        BY <1>4 DEF Reset, walking
    <2>2. ChunksOK'
        BY <2>1, VectorAssumption DEF ChunksOK, Start
    <2>3. UsedOK'
        BY <2>1, FS_EmptySet DEF UsedOK
    <2> QED  BY <2>1, <2>2, <2>3 DEF VectorInv, WalkOK
<1> QED  BY <1>1, <1>2, <1>3, <1>4

\* One step of operator++: no item lies between the two positions.
LEMMA IncOK ==
    ASSUME ChunksOK, UsedOK, NEW i, i.c # 0, IterOK(i)
    PROVE  /\ IterOK(Inc(i))
           /\ \A p \in used : (Inc(i).c # 0 => p <= At(Inc(i))) =>
                                 p <= At(i) \/ p \in Visited(Inc(i))
<1> USE DEF Iter
<1> DEFINE j == Inc(i)
<1>0. i \in Iter
    BY DEF IterOK
<1>1. /\ i.c \in 1 .. Len(ends) /\ Len(ends) \in Nat /\ i.pos \in Nat
      /\ Start(i.c) \in Nat /\ Start(i.c) < ends[i.c] /\ ends[i.c] \in Nat
      /\ At(i) = Start(i.c) + i.pos /\ At(i) < ends[i.c]
    BY ChunkFacts DEF ChunksOK, IterOK, At
<1>2. Size \in Nat /\ \A p \in used : p \in Nat /\ p < Size
    BY ChunkFacts DEF UsedOK
<1>3. CASE IsLast(i)
    <2>1. \A p \in used : p < ends[i.c] => p <= At(i)
        <3> SUFFICES ASSUME NEW p \in used, p < ends[i.c], ~(p <= At(i)) PROVE FALSE
            OBVIOUS
        <3>1. p \in Chunk(i.c)
            BY <1>1, <1>2 DEF Chunk
        <3> QED  BY <3>1, <1>3 DEF IsLast
    <2>2. CASE i.c = Len(ends)
        <3>1. j = EndIter
            BY <1>3, <2>2 DEF Inc
        <3>2. j.c = 0 /\ j.pos = 0 /\ j \in Iter
            BY <3>1 DEF EndIter
        <3>3. \A p \in used : p <= At(i)
            BY <1>2, <2>1, <2>2 DEF Size
        <3>4. IterOK(j)
            BY <1>1, <3>2 DEF IterOK
        <3> QED  BY <3>2, <3>3, <3>4
    <2>3. CASE i.c # Len(ends)
        <3>1. j = [c |-> i.c + 1, pos |-> 0, gpos |-> i.gpos + 1]
            BY <1>3, <2>3 DEF Inc
        <3>2. /\ j.c = i.c + 1 /\ j.pos = 0 /\ j \in Iter
            BY <1>0, <1>1, <3>1
        <3>3. j.c \in 1 .. Len(ends) /\ j.c # 1 /\ j.c - 1 = i.c
            BY <1>1, <2>3, <3>2
        <3>4. Start(j.c) = ends[i.c] /\ Start(j.c) < ends[j.c]
            BY <3>3 DEF Start, ChunksOK
        <3> HIDE DEF j
        <3>5. At(j) = ends[i.c]
            BY <1>1, <3>2, <3>4 DEF At
        <3>6. IterOK(j)
            BY <3>2, <3>3, <3>4, <3>5 DEF IterOK
        <3>7. \A p \in used : p <= At(j) => p <= At(i) \/ p \in Visited(j)
            <4> SUFFICES ASSUME NEW p \in used, p <= At(j), ~(p <= At(i))
                         PROVE  p \in Visited(j)
                OBVIOUS
            <4>1. p = At(j)
                BY <1>1, <1>2, <2>1, <3>5
            <4> QED  BY <4>1, <3>3, <1>1 DEF Visited
        <3> QED  BY <3>2, <3>6, <3>7, <3>3, <1>1 DEF j
    <2> QED  BY <2>2, <2>3
<1>4. CASE ~IsLast(i)
    <2>1. PICK p \in used \cap Chunk(i.c) : ~(p <= At(i))
        BY <1>4 DEF IsLast
    <2>2. At(i) + 1 < ends[i.c]
        BY <1>1, <2>1 DEF Chunk
    <2>3. j = [i EXCEPT !.pos = @ + 1, !.gpos = @ + 1]
        BY <1>1, <1>4 DEF Inc
    <2>4. j.c = i.c /\ j.pos = i.pos + 1 /\ j \in Iter
        <3> DEFINE a == i.pos + 1
                   b == i.gpos + 1
        <3>1. a \in Nat /\ b \in Nat /\ j = [i EXCEPT !.pos = a, !.gpos = b]
            BY <1>0, <2>3
        <3> HIDE DEF j, a, b
        <3>2. j.c = i.c /\ j.pos = a
            BY <1>0, <3>1
        <3>3. j \in Iter
            BY <1>0, <3>1, Zenon
        <3> QED  BY <3>2, <3>3 DEF a
    <2> HIDE DEF j
    <2>5. At(j) = At(i) + 1
        BY <1>1, <2>4 DEF At
    <2>6. IterOK(j)
        BY <1>1, <2>2, <2>4, <2>5 DEF IterOK
    <2>7. \A q \in used : q <= At(j) => q <= At(i) \/ q \in Visited(j)
        <3> SUFFICES ASSUME NEW q \in used, q <= At(j), ~(q <= At(i))
                     PROVE  q \in Visited(j)
            OBVIOUS
        <3>1. q = At(j)
            BY <1>1, <1>2, <2>5
        <3> QED  BY <3>1, <2>4, <1>1 DEF Visited
    <2> QED  BY <2>4, <2>6, <2>7, <1>1 DEF j
<1> QED  BY <1>3, <1>4

\* The loop: begin() relies on n_items_, a step on is_last(), and freeing the item
\* it is at takes nothing from it that it has not seen.
LEMMA WalkStep ==
    ASSUME VectorInv,
           \/ \E how \in {"inc", "nextUsed"} : StartWalk(how)
           \/ StepWalk \/ FreeHere \/ EndWalk
    PROVE  VectorInv'
<1>1. ChunksOK /\ UsedOK
    BY DEF VectorInv
<1>2. ASSUME UNCHANGED vec PROVE ChunksOK' /\ UsedOK'
    <2>1. ends' = ends /\ used' = used /\ nItems' = nItems
        BY <1>2 DEF vec
    <2> QED  BY <1>1, <2>1 DEF ChunksOK, UsedOK, Start, Size
<1>3. ASSUME NEW how, StartWalk(how) PROVE VectorInv'
    <2>1. UNCHANGED vec /\ it' = Begin /\ seen' = Visited(Begin)
        BY <1>3 DEF StartWalk
    <2>2. ends' = ends /\ used' = used
        BY <2>1 DEF vec
    <2>3. /\ IterOK(Begin)
          /\ \A p \in used : (Begin.c # 0 => p <= At(Begin)) => p \in Visited(Begin)
        <3>1. Size \in Nat /\ used \in SUBSET Nat
            BY <1>1, ChunkFacts DEF UsedOK
        <3>2. CASE nItems = 0
            <4>1. used = {}
                BY <1>1, <3>2, FS_EmptySet DEF UsedOK
            <4>2. Begin = [c |-> 0, pos |-> 0, gpos |-> 0]
                BY <3>2 DEF Begin, EndIter
            <4>3. Begin.c = 0 /\ Begin.pos = 0 /\ Begin \in Iter
                BY <4>2 DEF Iter
            <4> QED  BY <1>1, <4>1, <4>3, ChunkFacts DEF IterOK
        <3>3. CASE nItems # 0
            <4>1. Begin = [c |-> 1, pos |-> 0, gpos |-> 0]
                BY <3>3 DEF Begin
            <4>2. Begin.c = 1 /\ Begin.pos = 0 /\ Begin \in Iter
                BY <4>1 DEF Iter
            <4>3. At(Begin) = 0
                BY <4>2 DEF At, Start
            <4>4. 1 \in 1 .. Len(ends) /\ 0 < ends[1]
                <5>1. 1 \in 1 .. Len(ends)
                    BY <1>1, ChunkFacts
                <5> QED  BY <1>1, <5>1 DEF ChunksOK, Start
            <4>5. IterOK(Begin)
                BY <4>2, <4>3, <4>4 DEF IterOK
            <4>6. \A p \in used : p <= 0 => p = 0
                BY <3>1
            <4>7. Visited(Begin) = {0} \cap used
                BY <4>2, <4>3 DEF Visited
            <4> QED  BY <4>2, <4>3, <4>5, <4>6, <4>7
        <3> QED  BY <3>2, <3>3
    <2>4. WalkOK'
        BY <2>1, <2>2, <2>3 DEF WalkOK, IterOK, At, Start
    <2> QED  BY <1>2, <2>1, <2>4 DEF VectorInv
<1>4. ASSUME walk = "inc", Advance(Inc(it)) PROVE VectorInv'
    <2>1. /\ UNCHANGED vec /\ it.c # 0 /\ it' = Inc(it) /\ walk' = walk
          /\ seen' = seen \cup Visited(Inc(it))
        BY <1>4 DEF Advance
    <2>2. ends' = ends /\ used' = used
        BY <2>1 DEF vec
    <2>3. IterOK(it) /\ \A p \in used : p <= At(it) => p \in seen
        BY <1>4, <2>1 DEF VectorInv, WalkOK
    <2> DEFINE j == Inc(it)
    <2>4. /\ IterOK(j)
          /\ \A p \in used : (j.c # 0 => p <= At(j)) => p <= At(it) \/ p \in Visited(j)
        BY <1>1, <2>1, <2>3, IncOK
    <2> HIDE DEF j
    <2>5. \A p \in used : (j.c # 0 => p <= At(j)) => p \in seen'
        BY <2>1, <2>3, <2>4 DEF j
    <2>6. it' = j
        BY <2>1 DEF j
    <2>7. IterOK(it)' /\ At(it)' = At(j)
        BY <2>2, <2>4, <2>6 DEF IterOK, At, Start
    <2>8. WalkOK'
        BY <2>2, <2>5, <2>6, <2>7 DEF WalkOK
    <2> QED  BY <1>2, <2>1, <2>8 DEF VectorInv
<1>5. ASSUME walk = "nextUsed", Advance(NextUsed(it)) PROVE VectorInv'
    <2>1. UNCHANGED vec /\ walk' = "nextUsed"
        BY <1>5 DEF Advance
    <2> QED  BY <1>2, <2>1 DEF VectorInv, WalkOK
<1>6. ASSUME FreeHere PROVE VectorInv'
    <2>1. /\ Destroy(At(it)) /\ At(it) \in used /\ it' = it /\ walk' = walk
          /\ seen' = seen /\ it.c # 0
        BY <1>6 DEF FreeHere, walking
    <2>2. ends' = ends /\ used' = used \ {At(it)}
        BY <2>1 DEF Destroy
    <2>3. ChunksOK' /\ UsedOK'
        BY <1>1, <2>1, DestroyOK
    <2>4. IterOK(it)' = IterOK(it) /\ At(it)' = At(it)
        BY <2>1, <2>2 DEF IterOK, At, Start
    <2>5. WalkOK'
        BY <2>1, <2>2, <2>4 DEF WalkOK, VectorInv
    <2> QED  BY <2>3, <2>5 DEF VectorInv
<1>7. ASSUME EndWalk PROVE VectorInv'
    <2>1. UNCHANGED vec /\ walk' = "none"
        BY <1>7 DEF EndWalk
    <2> QED  BY <1>2, <2>1 DEF VectorInv, WalkOK
<1> QED  BY <1>3, <1>4, <1>5, <1>6, <1>7 DEF StepWalk

LEMMA VectorStep ==
    ASSUME VectorInv, VNext
    PROVE  VectorInv'
<1>1. 0 .. MaxPos \subseteq Nat
    OBVIOUS
<1> QED  BY <1>1, WalkStep, ChangeOK DEF VNext, VectorInv

-----------------------------------------------------------------------------
(* Proofs about the queue.                                                 *)

\* The definition of Linked, for any head and links.
Follow(n, h, nx) ==
    LET at[i \in 1 .. n] == IF i = 1 THEN h ELSE nx[at[i - 1]]
    IN  [i \in 1 .. n |-> at[i]]

\* There is one way along the links: a sequence of positions that are linked to
\* each other is what Linked is.
LEMMA OnePath ==
    ASSUME NEW n \in Nat, NEW h, NEW nx, NEW q, Path(q, n, h, nx)
    PROVE  Follow(n, h, nx) = q
<1> DEFINE F(f) == [i \in 1 .. n |-> IF i = 1 THEN h ELSE nx[f[i - 1]]]
           at == CHOOSE f : f = F(f)
<1>1. Follow(n, h, nx) = [i \in 1 .. n |-> at[i]]
    BY DEF Follow
<1>2. q = F(q)
    <2>1. ASSUME NEW i \in 1 .. n
          PROVE  q[i] = IF i = 1 THEN h ELSE nx[q[i - 1]]
        <3>1. CASE i = 1
            BY <3>1 DEF Path
        <3>2. CASE i # 1
            <4>1. i - 1 \in 1 .. n - 1 /\ (i - 1) + 1 = i
                BY <3>2
            <4> QED  BY <3>2, <4>1 DEF Path
        <3> QED  BY <3>1, <3>2
    <2>2. q = [i \in 1 .. n |-> q[i]]
        BY DEF Path
    <2> QED  BY <2>1, <2>2
<1>3. at = F(at)
    BY <1>2
<1> HIDE DEF at
<1>4. \A i \in 1 .. n : at[i] = q[i]
    <2> DEFINE S == {i \in 1 .. n : at[i] # q[i]}
    <2> SUFFICES ASSUME S # {} PROVE FALSE
        OBVIOUS
    <2>1. S \in SUBSET Nat
        OBVIOUS
    <2>2. PICK i \in S : \A j \in S : i <= j
        BY <2>1, LeastNat
    <2>3. i \in 1 .. n /\ at[i] # q[i]
        BY <2>2
    <2>4. at[i] = IF i = 1 THEN h ELSE nx[at[i - 1]]
        BY <1>3, <2>3
    <2>5. q[i] = IF i = 1 THEN h ELSE nx[q[i - 1]]
        BY <1>2, <2>3
    <2>6. i # 1
        BY <2>3, <2>4, <2>5
    <2>7. i - 1 \in 1 .. n /\ ~(i <= i - 1)
        BY <2>3, <2>6
    <2>8. at[i - 1] = q[i - 1]
        BY <2>2, <2>7
    <2> QED  BY <2>3, <2>4, <2>5, <2>6, <2>8
<1>5. q = [i \in 1 .. n |-> q[i]]
    BY DEF Path
<1> QED  BY <1>1, <1>4, <1>5

LEMMA LinkedFollows == Linked = Follow(nQueued, head, next)
BY DEF Linked, Follow

\* Linked is known in a state where a list is: it is that list.
LEMMA Relinked ==
    ASSUME NEW L, QueueAt(L, nQueued', head', tail', next', hand', lost', used', nItems')
    PROVE  /\ Linked' = L
           /\ QueueAt(Linked, nQueued, head, tail, next, hand, lost, used, nItems)'
<1>1. Linked' = Follow(nQueued', head', next')
    BY DEF Linked, Follow
<1>2. Linked' = L
    BY <1>1, OnePath DEF QueueAt
<1> QED  BY <1>2

\* first_free().set(): a position that nobody has.
LEMMA PushVector ==
    ASSUME VectorInv, walk = "none", NEW v, PushFirstFree(v)
    PROVE  /\ VectorInv' /\ walk' = "none"
           /\ FirstFree \in Nat /\ FirstFree \notin used
           /\ used' = used \cup {FirstFree} /\ nItems' = nItems + 1
           /\ cell' = [q \in DOMAIN cell \cup {FirstFree} |->
                          IF q = FirstFree THEN v ELSE cell[q]]
BY ChangeOK, FreeFacts DEF VectorInv, PushFirstFree, SetAt, walking

\* handler::reset(): free_at() finds the item.
LEMMA DropVector ==
    ASSUME VectorInv, QueueInv, NEW h \in Handler, Drop(h)
    PROVE  /\ VectorInv' /\ walk' = "none" /\ cell' = cell
           /\ used' = used \ {hand[h]}
           /\ nItems' = IF hand[h] = None THEN nItems ELSE nItems - 1
           /\ nItems \in Nat
<1>1. /\ ChunksOK /\ UsedOK /\ walk = "none" /\ hand[h] \in Nat \cup {None}
      /\ used \in SUBSET Nat /\ Size \in Nat /\ used \in SUBSET (0 .. Size - 1)
    BY ChunkFacts DEF VectorInv, QueueInv, QueueAt, UsedOK
<1>2. nItems \in Nat
    BY <1>1, FS_CardinalityType DEF UsedOK
<1>3. CASE hand[h] = None
    <2>1. UNCHANGED <<vec, walking>>
        BY <1>3 DEF Drop
    <2>2. /\ ends' = ends /\ used' = used /\ nItems' = nItems /\ cell' = cell
          /\ walk' = walk
        BY <2>1 DEF vec, walking
    <2>3. VectorInv'
        BY <1>1, <2>2 DEF VectorInv, WalkOK, ChunksOK, UsedOK, Start, Size
    <2>4. used \ {hand[h]} = used
        BY <1>1, <1>3, QueueAssumption
    <2> QED  BY <1>1, <1>2, <1>3, <2>2, <2>3, <2>4
<1>4. CASE hand[h] # None
    <2> DEFINE p == hand[h]
    <2>1. FreeAt(p) /\ p \in Nat
        BY <1>1, <1>4 DEF Drop
    <2>2. p \in used
        BY <1>4, <2>1 DEF QueueInv, QueueAt, Shares
    <2>3. nItems # 0
        BY <1>1, <2>2, FS_EmptySet DEF UsedOK
    <2>4. ~(p >= Size)
        BY <1>1, <2>1, <2>2
    <2>5. Destroy(p) /\ UNCHANGED walking
        BY <2>1, <2>2, <2>3, <2>4 DEF FreeAt
    <2>6. VectorInv'
        BY <1>1, <2>1, ChangeOK
    <2> QED  BY <1>1, <1>2, <1>4, <2>5, <2>6 DEF Destroy, walking
<1> QED  BY <1>3, <1>4

\* push(): one position more at the end.
Longer(L, n, p) == [i \in 1 .. n + 1 |-> IF i = n + 1 THEN p ELSE L[i]]

LinksWith(nx, tl, p) ==
    LET link == [q \in DOMAIN nx \cup {p} |-> IF q = p THEN 0 ELSE nx[q]]
    IN  IF tl = None THEN link ELSE [link EXCEPT ![tl] = p]

LEMMA PushQueue ==
    ASSUME NEW L, NEW n, NEW hd, NEW tl, NEW nx, NEW H, NEW l, NEW U, NEW N \in Nat,
           QueueAt(L, n, hd, tl, nx, H, l, U, N), NEW p \in Nat, p \notin U,
           NEW ny, ny = LinksWith(nx, tl, p)
    PROVE  QueueAt(Longer(L, n, p), n + 1, IF tl = None THEN p ELSE hd, p, ny,
                   H, l, U \cup {p}, N + 1)
<1> USE DEF LinksWith
<1> DEFINE M == Longer(L, n, p)
           link == [q \in DOMAIN nx \cup {p} |-> IF q = p THEN 0 ELSE nx[q]]
<1>1. /\ n \in Nat /\ nx \in [DOMAIN nx -> Nat] /\ U \in SUBSET Nat
      /\ L \in [1 .. n -> Nat] /\ \A i \in 1 .. n : L[i] \in DOMAIN nx
      /\ n > 0 => L[1] = hd
      /\ \A i \in 1 .. n - 1 : L[i + 1] = nx[L[i]]
      /\ IF n = 0 THEN hd = None /\ tl = None ELSE tl = L[n]
    BY DEF QueueAt, Path
<1>2. Shares(L, n, H, l, U)
    BY DEF QueueAt
<1>3. \A i \in 1 .. n : L[i] \in U /\ L[i] # p
    BY <1>1, <1>2 DEF Shares, Slots
<1>4. tl = None <=> n = 0
    BY <1>1, QueueAssumption
<1>5. /\ M \in [1 .. n + 1 -> Nat] /\ M[n + 1] = p /\ \A i \in 1 .. n : M[i] = L[i]
    BY <1>1 DEF Longer
<1> HIDE DEF M
<1>6. /\ DOMAIN ny = DOMAIN nx \cup {p} /\ ny \in [DOMAIN ny -> Nat]
      /\ n > 0 => ny[tl] = p
      /\ \A q \in DOMAIN nx : q # p /\ (n > 0 => q # tl) => ny[q] = nx[q]
    <2>1. /\ link \in [DOMAIN nx \cup {p} -> Nat]
          /\ \A q \in DOMAIN nx : q # p => link[q] = nx[q]
        BY <1>1
    <2>2. CASE n = 0
        <3>1. ny = link
            BY <1>4, <2>2
        <3>2. DOMAIN link = DOMAIN nx \cup {p}
            OBVIOUS
        <3> HIDE DEF link
        <3>3. DOMAIN ny = DOMAIN nx \cup {p} /\ ny \in [DOMAIN ny -> Nat]
            BY <2>1, <3>1, <3>2, Zenon
        <3>4. ~(n > 0) /\ \A q \in DOMAIN nx : q # p => ny[q] = nx[q]
            BY <2>1, <2>2, <3>1
        <3> QED  BY <3>3, <3>4
    <2>3. CASE n # 0
        <3>1. ny = [link EXCEPT ![tl] = p]
            BY <1>4, <2>3
        <3>2. tl \in DOMAIN nx
            BY <1>1, <2>3
        <3> HIDE DEF link
        <3>3. ny \in [DOMAIN nx \cup {p} -> Nat] /\ ny[tl] = p
            BY <2>1, <3>1, <3>2
        <3>4. \A q \in DOMAIN nx : q # p /\ q # tl => ny[q] = nx[q]
            BY <2>1, <3>1
        <3> QED  BY <1>1, <2>3, <3>3, <3>4
    <2> QED  BY <2>2, <2>3
<1>7. Path(M, n + 1, IF tl = None THEN p ELSE hd, ny)
    <2>1. M[1] = IF tl = None THEN p ELSE hd
        BY <1>1, <1>4, <1>5
    <2>2. \A i \in 1 .. n + 1 : M[i] \in DOMAIN ny
        BY <1>1, <1>5, <1>6
    <2>3. ASSUME NEW i \in 1 .. (n + 1) - 1 PROVE M[i + 1] = ny[M[i]]
        <3>1. i \in 1 .. n /\ M[i] = L[i] /\ n > 0
            BY <1>1, <1>5, <2>3
        <3>2. CASE i = n
            BY <1>1, <1>5, <1>6, <3>1, <3>2
        <3>3. CASE i # n
            <4>1. i \in 1 .. n - 1 /\ i + 1 \in 1 .. n /\ n \in 1 .. n
                BY <1>1, <3>1, <3>3
            <4>2. L[i] # tl
                BY <1>1, <1>2, <3>1, <3>3, <4>1 DEF Shares
            <4>3. ny[L[i]] = nx[L[i]]
                BY <1>1, <1>3, <1>6, <3>1, <4>2
            <4> QED  BY <1>1, <1>5, <3>1, <4>1, <4>3
        <3> QED  BY <3>2, <3>3
    <2> QED  BY <1>1, <1>5, <2>1, <2>2, <2>3 DEF Path
<1>8. Slots(M, n + 1) = Slots(L, n) \cup {p}
    <2>1. \A i \in 1 .. n : i \in 1 .. n + 1
        BY <1>1
    <2>2. n + 1 \in 1 .. n + 1 /\ \A i \in 1 .. n + 1 : i = n + 1 \/ i \in 1 .. n
        BY <1>1
    <2>3. \A i \in 1 .. n + 1 : M[i] \in Slots(L, n) \cup {p}
        BY <1>5, <2>2 DEF Slots
    <2>4. p \in Slots(M, n + 1) /\ \A i \in 1 .. n : L[i] \in Slots(M, n + 1)
        BY <1>5, <2>1, <2>2 DEF Slots
    <2> QED  BY <2>3, <2>4 DEF Slots
<1>9. Shares(M, n + 1, H, l, U \cup {p})
    <2>1. ASSUME NEW i \in 1 .. n + 1, NEW j \in 1 .. n + 1, M[i] = M[j]
          PROVE  i = j
        <3>1. (i = n + 1 \/ i \in 1 .. n) /\ (j = n + 1 \/ j \in 1 .. n)
            BY <1>1
        <3>2. M[n + 1] = p /\ \A k \in 1 .. n : M[k] = L[k] /\ L[k] # p
            BY <1>1, <1>3, <1>5
        <3>3. \A a, b \in 1 .. n : L[a] = L[b] => a = b
            BY <1>2 DEF Shares
        <3> QED  BY <2>1, <3>1, <3>2, <3>3
    <2>2. \A h \in Handler : H[h] # p
        BY <1>2 DEF Shares
    <2>3. p \notin l
        BY <1>2 DEF Shares
    <2> QED  BY <1>2, <1>8, <2>1, <2>2, <2>3 DEF Shares
<1>10. N + 1 = (n + 1) + Cardinality(Holding(H)) + Cardinality(l)
    <2>1. Cardinality(Holding(H)) \in Nat /\ Cardinality(l) \in Nat
        BY QueueAssumption, FS_Subset, FS_CardinalityType DEF Holding, QueueAt
    <2> QED  BY <1>1, <2>1 DEF QueueAt
<1> QED  BY <1>1, <1>5, <1>6, <1>7, <1>9, <1>10 DEF QueueAt, M

LEMMA HoldingCard ==
    ASSUME NEW H
    PROVE  /\ IsFiniteSet(Holding(H)) /\ Cardinality(Holding(H)) \in Nat
BY QueueAssumption, FS_Subset, FS_CardinalityType DEF Holding

\* pop(): the first position leaves the list and goes to the handler.
Shorter(L, n) == [i \in 1 .. n - 1 |-> L[i + 1]]

LEMMA PopQueue ==
    ASSUME NEW L, NEW n, NEW hd, NEW tl, NEW nx, NEW H, NEW l, NEW U, NEW N \in Nat,
           QueueAt(L, n, hd, tl, nx, H, l, U, N), hd # None, NEW h \in Handler
    PROVE  /\ n > 0 /\ hd = L[1] /\ (hd = tl <=> n = 1)
           /\ hd = tl \/ nx[hd] \in U
           /\ QueueAt(Shorter(L, n), n - 1, IF hd = tl THEN None ELSE nx[hd],
                      IF hd = tl THEN None ELSE tl, nx, [H EXCEPT ![h] = hd], l,
                      U \ {H[h]}, IF H[h] = None THEN N ELSE N - 1)
<1> DEFINE M == Shorter(L, n)
           G == [H EXCEPT ![h] = hd]
<1>1. /\ n \in Nat /\ nx \in [DOMAIN nx -> Nat] /\ U \in SUBSET Nat
      /\ L \in [1 .. n -> Nat] /\ \A i \in 1 .. n : L[i] \in DOMAIN nx
      /\ n > 0 => L[1] = hd
      /\ \A i \in 1 .. n - 1 : L[i + 1] = nx[L[i]]
      /\ IF n = 0 THEN hd = None /\ tl = None ELSE tl = L[n]
      /\ H \in [Handler -> Nat \cup {None}] /\ l \in SUBSET Nat /\ IsFiniteSet(l)
    BY DEF QueueAt, Path
<1>2. Shares(L, n, H, l, U)
    BY DEF QueueAt
<1>3. n > 0 /\ hd = L[1] /\ hd \in Nat /\ 1 \in 1 .. n /\ n \in 1 .. n
    BY <1>1
<1>4. hd = tl <=> n = 1
    BY <1>1, <1>2, <1>3 DEF Shares
<1>5. n # 1 => 1 \in 1 .. n - 1 /\ 2 \in 1 .. n /\ nx[hd] = L[2] /\ L[2] \in Nat
    <2>1. n # 1 => 1 \in 1 .. n - 1 /\ 2 \in 1 .. n /\ 1 + 1 = 2
        BY <1>1, <1>3
    <2> QED  BY <1>1, <1>3, <2>1
<1>6. n # 1 => nx[hd] \in U
    BY <1>2, <1>5 DEF Shares, Slots
<1>7. \A i \in 1 .. n - 1 : i + 1 \in 1 .. n /\ i + 1 # 1 /\ M[i] = L[i + 1]
    BY <1>1 DEF Shorter
<1>8. M \in [1 .. n - 1 -> Nat]
    BY <1>1, <1>7 DEF Shorter
<1> HIDE DEF M
<1>9. Path(M, n - 1, IF hd = tl THEN None ELSE nx[hd], nx)
    <2>1. n - 1 > 0 => M[1] = IF hd = tl THEN None ELSE nx[hd]
        BY <1>1, <1>4, <1>5, <1>7
    <2>2. \A i \in 1 .. n - 1 : M[i] \in DOMAIN nx
        BY <1>1, <1>7
    <2>3. ASSUME NEW i \in 1 .. (n - 1) - 1 PROVE M[i + 1] = nx[M[i]]
        <3>1. i \in 1 .. n - 1 /\ i + 1 \in 1 .. n - 1
            BY <1>1
        <3>2. M[i + 1] = L[(i + 1) + 1] /\ M[i] = L[i + 1]
            BY <1>7, <3>1
        <3> QED  BY <1>1, <3>1, <3>2
    <2> QED  BY <1>8, <2>1, <2>2, <2>3 DEF Path
<1>10. IF n - 1 = 0 THEN (IF hd = tl THEN None ELSE nx[hd]) = None
                         /\ (IF hd = tl THEN None ELSE tl) = None
                    ELSE (IF hd = tl THEN None ELSE tl) = M[n - 1]
    <2>1. CASE n = 1
        BY <1>4, <2>1
    <2>2. CASE n # 1
        <3>1. n - 1 \in 1 .. n - 1 /\ (n - 1) + 1 = n /\ n - 1 # 0
            BY <1>1, <1>3, <2>2
        <3>2. M[n - 1] = L[n]
            BY <1>7, <3>1
        <3> QED  BY <1>1, <1>4, <2>2, <3>1, <3>2
    <2> QED  BY <2>1, <2>2
<1>11. Slots(L, n) = Slots(M, n - 1) \cup {hd} /\ hd \notin Slots(M, n - 1)
    <2>1. \A i \in 1 .. n : i = 1 \/ (i - 1 \in 1 .. n - 1 /\ (i - 1) + 1 = i)
        BY <1>1
    <2>2. \A i \in 1 .. n : L[i] = hd \/ L[i] \in Slots(M, n - 1)
        BY <1>3, <1>7, <2>1 DEF Slots
    <2>3. \A i \in 1 .. n - 1 : M[i] \in Slots(L, n) /\ M[i] # hd
        BY <1>2, <1>3, <1>7 DEF Slots, Shares
    <2>4. hd \in Slots(L, n)
        BY <1>3 DEF Slots
    <2> QED  BY <2>2, <2>3, <2>4 DEF Slots
<1>12. /\ G \in [Handler -> Nat \cup {None}] /\ G[h] = hd
       /\ \A g \in Handler : g # h => G[g] = H[g]
    BY <1>1, <1>3
<1> HIDE DEF G
<1>13. Shares(M, n - 1, G, l, U \ {H[h]})
    <2>1. \A i, j \in 1 .. n - 1 : M[i] = M[j] => i = j
        <3> SUFFICES ASSUME NEW i \in 1 .. n - 1, NEW j \in 1 .. n - 1, M[i] = M[j]
                     PROVE  i = j
            OBVIOUS
        <3>1. i + 1 \in 1 .. n /\ j + 1 \in 1 .. n /\ L[i + 1] = L[j + 1]
            BY <1>7
        <3>2. i + 1 = j + 1
            BY <1>2, <3>1 DEF Shares
        <3> QED  BY <3>2
    <2>2. hd \in Slots(L, n) /\ hd \notin l /\ \A g \in Handler : H[g] # hd
        BY <1>2, <1>3, <1>11, QueueAssumption DEF Shares
    <2>3. \A g \in Handler : G[g] # None => G[g] \notin Slots(M, n - 1) /\ G[g] \notin l
        BY <1>2, <1>11, <1>12, <2>2 DEF Shares
    <2>4. \A f, g \in Handler : G[f] # None /\ G[f] = G[g] => f = g
        BY <1>2, <1>12, <2>2 DEF Shares
    <2>5. Slots(M, n - 1) \cap l = {}
        BY <1>2, <1>11 DEF Shares
    <2>6. \A p \in Nat : p \in U \ {H[h]} <=> \/ p \in Slots(M, n - 1) \/ p \in l
                                              \/ \E g \in Handler : G[g] = p
        <3> SUFFICES ASSUME NEW p \in Nat
                     PROVE  p \in U \ {H[h]} <=> \/ p \in Slots(M, n - 1) \/ p \in l
                                                 \/ \E g \in Handler : G[g] = p
            OBVIOUS
        <3>1. p # None
            BY QueueAssumption
        <3>2. p \in U <=> \/ p \in Slots(L, n) \/ p \in l \/ \E g \in Handler : H[g] = p
            BY <1>2 DEF Shares
        <3>3. p = H[h] => /\ p \notin Slots(L, n) /\ p \notin l
                          /\ \A g \in Handler : g # h => H[g] # p
            BY <1>2, <3>1 DEF Shares
        <3>4. (\E g \in Handler : G[g] = p) <=>
                p = hd \/ \E g \in Handler : g # h /\ H[g] = p
            BY <1>12
        <3> QED  BY <1>11, <2>2, <3>2, <3>3, <3>4
    <2> QED  BY <2>1, <2>3, <2>4, <2>5, <2>6 DEF Shares
<1>14. (IF H[h] = None THEN N ELSE N - 1)
            = (n - 1) + Cardinality(Holding(G)) + Cardinality(l)
    <2>1. N = n + Cardinality(Holding(H)) + Cardinality(l)
        BY DEF QueueAt
    <2>2. Cardinality(l) \in Nat /\ Cardinality(Holding(H)) \in Nat
        BY <1>1, HoldingCard, FS_CardinalityType
    <2>3. hd # None
        OBVIOUS
    <2>4. CASE H[h] = None
        <3>1. Holding(G) = Holding(H) \cup {h} /\ h \notin Holding(H)
            BY <1>12, <2>3, <2>4 DEF Holding
        <3>2. Cardinality(Holding(G)) = Cardinality(Holding(H)) + 1
            BY <3>1, HoldingCard, FS_AddElement
        <3> QED  BY <1>1, <2>1, <2>2, <2>4, <3>2
    <2>5. CASE H[h] # None
        <3>1. Holding(G) = Holding(H)
            BY <1>12, <2>3, <2>5 DEF Holding
        <3> QED  BY <1>1, <2>1, <2>2, <2>5, <3>1
    <2> QED  BY <2>4, <2>5
<1>15. n - 1 \in Nat /\ U \ {H[h]} \in SUBSET Nat
    BY <1>1, <1>3
<1>16. QueueAt(M, n - 1, IF hd = tl THEN None ELSE nx[hd],
               IF hd = tl THEN None ELSE tl, nx, G, l,
               U \ {H[h]}, IF H[h] = None THEN N ELSE N - 1)
    BY <1>1, <1>9, <1>10, <1>12, <1>13, <1>14, <1>15 DEF QueueAt
<1> QED  BY <1>3, <1>4, <1>6, <1>16 DEF M, G

\* reset() of a handler that has an item.
LEMMA ReleaseQueue ==
    ASSUME NEW L, NEW n, NEW hd, NEW tl, NEW nx, NEW H, NEW l, NEW U, NEW N \in Nat,
           QueueAt(L, n, hd, tl, nx, H, l, U, N), NEW h \in Handler, H[h] # None
    PROVE  QueueAt(L, n, hd, tl, nx, [H EXCEPT ![h] = None], l, U \ {H[h]}, N - 1)
<1> DEFINE G == [H EXCEPT ![h] = None]
<1>1. /\ n \in Nat /\ U \in SUBSET Nat /\ H \in [Handler -> Nat \cup {None}]
      /\ IsFiniteSet(l) /\ Shares(L, n, H, l, U)
    BY DEF QueueAt
<1>2. /\ G \in [Handler -> Nat \cup {None}] /\ G[h] = None
      /\ \A g \in Handler : g # h => G[g] = H[g]
    BY <1>1
<1> HIDE DEF G
<1>3. \A p \in Nat : p \in U \ {H[h]} <=> \/ p \in Slots(L, n) \/ p \in l
                                          \/ \E g \in Handler : G[g] = p
    <2> SUFFICES ASSUME NEW p \in Nat
                 PROVE  p \in U \ {H[h]} <=> \/ p \in Slots(L, n) \/ p \in l
                                             \/ \E g \in Handler : G[g] = p
        OBVIOUS
    <2>1. p # None
        BY QueueAssumption
    <2>2. p \in U <=> \/ p \in Slots(L, n) \/ p \in l \/ \E g \in Handler : H[g] = p
        BY <1>1 DEF Shares
    <2>3. p = H[h] => /\ p \notin Slots(L, n) /\ p \notin l
                      /\ \A g \in Handler : g # h => H[g] # p
        BY <1>1 DEF Shares
    <2>4. (\E g \in Handler : G[g] = p) <=> \E g \in Handler : g # h /\ H[g] = p
        BY <1>2, <2>1
    <2> QED  BY <2>2, <2>3, <2>4
<1>4. Shares(L, n, G, l, U \ {H[h]})
    <2>1. \A g \in Handler : G[g] # None => G[g] \notin Slots(L, n) /\ G[g] \notin l
        BY <1>1, <1>2 DEF Shares
    <2>2. \A f, g \in Handler : G[f] # None /\ G[f] = G[g] => f = g
        BY <1>1, <1>2 DEF Shares
    <2> QED  BY <1>1, <1>3, <2>1, <2>2 DEF Shares
<1>5. N - 1 = n + Cardinality(Holding(G)) + Cardinality(l)
    <2>1. Holding(G) = Holding(H) \ {h} /\ h \in Holding(H)
        BY <1>2 DEF Holding
    <2>2. Cardinality(Holding(G)) = Cardinality(Holding(H)) - 1
        BY <2>1, HoldingCard, FS_RemoveElement
    <2>3. Cardinality(l) \in Nat /\ Cardinality(Holding(H)) \in Nat
        BY <1>1, HoldingCard, FS_CardinalityType
    <2>4. N = n + Cardinality(Holding(H)) + Cardinality(l)
        BY DEF QueueAt
    <2> QED  BY <1>1, <2>2, <2>3, <2>4
<1>6. U \ {H[h]} \in SUBSET Nat
    BY <1>1
<1> QED  BY <1>2, <1>4, <1>5, <1>6 DEF QueueAt, G

\* An assignment between handlers: the item that the left one had is lost.
LEMMA PassQueue ==
    ASSUME NEW L, NEW n, NEW hd, NEW tl, NEW nx, NEW H, NEW l, NEW U, NEW N \in Nat,
           QueueAt(L, n, hd, tl, nx, H, l, U, N), NEW h \in Handler, NEW g \in Handler
    PROVE  QueueAt(L, n, hd, tl, nx, [H EXCEPT ![h] = H[g], ![g] = None],
                   (l \cup {H[h]}) \ {None}, U, N)
<1> DEFINE G == [H EXCEPT ![h] = H[g], ![g] = None]
           m == (l \cup {H[h]}) \ {None}
<1>1. /\ n \in Nat /\ U \in SUBSET Nat /\ H \in [Handler -> Nat \cup {None}]
      /\ IsFiniteSet(l) /\ l \in SUBSET Nat /\ Shares(L, n, H, l, U)
    BY DEF QueueAt
<1>2. None \notin Nat /\ None \notin l
    BY <1>1, QueueAssumption
<1>3. /\ G \in [Handler -> Nat \cup {None}] /\ G[g] = None /\ (h # g => G[h] = H[g])
      /\ \A f \in Handler : f # h /\ f # g => G[f] = H[f]
    BY <1>1
<1>4. /\ m \in SUBSET Nat /\ (H[h] = None => m = l)
      /\ H[h] # None => m = l \cup {H[h]} /\ H[h] \notin l
    <2>1. H[h] \in Nat \cup {None} /\ (H[h] # None => H[h] \notin l)
        BY <1>1 DEF Shares
    <2>2. CASE H[h] = None
        <3>1. m = l
            BY <1>2, <2>2
        <3> QED  BY <1>1, <2>2, <3>1
    <2>3. CASE H[h] # None
        <3>1. m = l \cup {H[h]}
            BY <1>2, <2>3
        <3> HIDE DEF m
        <3> QED  BY <1>1, <2>1, <2>3, <3>1
    <2> QED  BY <2>2, <2>3
<1> HIDE DEF G, m
<1>5. IsFiniteSet(m) /\ Cardinality(l) \in Nat
      /\ Cardinality(m) = Cardinality(l) + (IF H[h] = None THEN 0 ELSE 1)
    <2>1. Cardinality(l) \in Nat
        BY <1>1, FS_CardinalityType
    <2>2. CASE H[h] = None
        BY <1>1, <1>4, <2>1, <2>2
    <2>3. CASE H[h] # None
        <3>1. /\ IsFiniteSet(l \cup {H[h]})
              /\ Cardinality(l \cup {H[h]}) = Cardinality(l) + 1
            BY <1>1, <1>4, <2>3, FS_AddElement
        <3> QED  BY <1>4, <2>1, <2>3, <3>1
    <2> QED  BY <2>2, <2>3
<1>6. /\ \A f \in Handler : G[f] # None =>
            \E e \in Handler : /\ G[f] = H[e] /\ ((f = h /\ e = g) \/ f = e) /\ e # h
      /\ \A e \in Handler : e # h /\ H[e] # None => \E f \in Handler : G[f] = H[e]
    BY <1>3
<1>7. Shares(L, n, G, m, U)
    <2>1. \A e, f \in Handler : H[e] # None /\ H[e] = H[f] => e = f
        BY <1>1 DEF Shares
    <2>2. \A e \in Handler : H[e] # None => H[e] \notin Slots(L, n) /\ H[e] \notin l
        BY <1>1 DEF Shares
    <2>3. \A f \in Handler : G[f] # None => G[f] \notin Slots(L, n) /\ G[f] \notin m
        <3> SUFFICES ASSUME NEW f \in Handler, G[f] # None
                     PROVE  G[f] \notin Slots(L, n) /\ G[f] \notin m
            OBVIOUS
        <3>1. PICK e \in Handler : G[f] = H[e] /\ e # h
            BY <1>6
        <3>2. H[e] # None /\ H[e] # H[h]
            BY <2>1, <3>1
        <3> QED  BY <1>4, <2>2, <3>1, <3>2
    <2>4. \A e, f \in Handler : G[e] # None /\ G[e] = G[f] => e = f
        <3> SUFFICES ASSUME NEW e \in Handler, NEW f \in Handler, G[e] # None, G[e] = G[f]
                     PROVE  e = f
            OBVIOUS
        <3>1. e # g /\ f # g
            BY <1>3
        <3>2. G[e] = IF e = h THEN H[g] ELSE H[e]
            BY <1>3, <3>1
        <3>3. G[f] = IF f = h THEN H[g] ELSE H[f]
            BY <1>3, <3>1
        <3> QED  BY <2>1, <3>1, <3>2, <3>3
    <2>5. Slots(L, n) \cap m = {}
        BY <1>1, <1>4, <2>2 DEF Shares
    <2>6. \A p \in Nat : p \in U <=> \/ p \in Slots(L, n) \/ p \in m
                                     \/ \E f \in Handler : G[f] = p
        <3> SUFFICES ASSUME NEW p \in Nat
                     PROVE  p \in U <=> \/ p \in Slots(L, n) \/ p \in m
                                        \/ \E f \in Handler : G[f] = p
            OBVIOUS
        <3>1. p \in U <=> \/ p \in Slots(L, n) \/ p \in l \/ \E e \in Handler : H[e] = p
            BY <1>1 DEF Shares
        <3>2. p # None
            BY <1>2
        <3>3. p \in m <=> p \in l \/ p = H[h]
            BY <1>4, <3>2
        <3>4. (\E f \in Handler : G[f] = p) <=> \E e \in Handler : e # h /\ H[e] = p
            BY <1>6, <3>2
        <3> QED  BY <3>1, <3>3, <3>4
    <2> QED  BY <1>1, <2>3, <2>4, <2>5, <2>6 DEF Shares
<1>8. Cardinality(Holding(H)) = Cardinality(Holding(G)) + (IF H[h] = None THEN 0 ELSE 1)
    <2> DEFINE A == Holding(H)
    <2>1. IsFiniteSet(A) /\ Cardinality(A) \in Nat
        BY HoldingCard
    <2>2. \A f \in Handler : f \in A <=> H[f] # None
        BY DEF Holding
    <2>3. CASE h = g \/ H[g] = None
        <3>1. Holding(G) = A \ {h}
            BY <1>3, <2>3 DEF Holding
        <3>2. /\ h \in A => Cardinality(A \ {h}) = Cardinality(A) - 1
              /\ h \notin A => A \ {h} = A
            <4> HIDE DEF A
            <4>1. h \in A => Cardinality(A \ {h}) = Cardinality(A) - 1
                BY <2>1, FS_RemoveElement
            <4>2. h \notin A => A \ {h} = A
                OBVIOUS
            <4> QED  BY <4>1, <4>2
        <3> QED  BY <2>1, <2>2, <3>1, <3>2
    <2>4. CASE h # g /\ H[g] # None
        <3> DEFINE B == A \cup {h}
        <3>1. Holding(G) = B \ {g} /\ g \in B
            BY <1>3, <2>4 DEF Holding
        <3>2. /\ IsFiniteSet(B)
              /\ Cardinality(B) = IF h \in A THEN Cardinality(A) ELSE Cardinality(A) + 1
            BY <2>1, FS_AddElement
        <3> HIDE DEF A, B
        <3>3. Cardinality(B \ {g}) = Cardinality(B) - 1
            BY <3>1, <3>2, FS_RemoveElement
        <3> QED  BY <2>1, <2>2, <3>1, <3>2, <3>3 DEF A
    <2> QED  BY <2>3, <2>4
<1>9. N = n + Cardinality(Holding(G)) + Cardinality(m)
    <2>1. N = n + Cardinality(Holding(H)) + Cardinality(l)
        BY DEF QueueAt
    <2>2. Cardinality(Holding(G)) \in Nat
        BY HoldingCard
    <2> QED  BY <1>1, <1>5, <1>8, <2>1, <2>2
<1> QED  BY <1>3, <1>4, <1>5, <1>7, <1>9 DEF QueueAt, G, m

\* What the queue and the handlers have, as HandedQueue sees it.
Queued(L, c) == [i \in DOMAIN L |-> c[L[i]]]
InHands(H, c) == [h \in Handler |-> IF H[h] = None THEN None ELSE c[H[h]]]

LEMMA QueuedSeq ==
    ASSUME NEW n \in Nat, NEW L \in [1 .. n -> Nat], NEW c, NEW S,
           \A i \in 1 .. n : c[L[i]] \in S
    PROVE  /\ Queued(L, c) \in Seq(S) /\ Len(Queued(L, c)) = n
           /\ \A i \in 1 .. n : Queued(L, c)[i] = c[L[i]]
<1>1. Queued(L, c) = [i \in 1 .. n |-> c[L[i]]]
    BY DEF Queued
<1>2. Queued(L, c) \in [1 .. n -> S]
    BY <1>1
<1> QED  BY <1>1, <1>2

LEMMA QueueFacts ==
    ASSUME VectorInv, QueueInv
    PROVE  /\ QueueAt(Linked, nQueued, head, tail, next, hand, lost, used, nItems)
           /\ nItems \in Nat /\ nQueued \in Nat /\ Linked \in [1 .. nQueued -> Nat]
           /\ hand \in [Handler -> Nat \cup {None}] /\ used \subseteq DOMAIN cell
           /\ walk = "none"
           /\ \A i \in 1 .. nQueued : Linked[i] \in used
           /\ \A h \in Handler : hand[h] # None => hand[h] \in used
<1>1. QueueAt(Linked, nQueued, head, tail, next, hand, lost, used, nItems)
    BY DEF QueueInv
<1>2. nItems \in Nat
    BY FS_CardinalityType DEF VectorInv, UsedOK
<1>3. /\ nQueued \in Nat /\ Linked \in [1 .. nQueued -> Nat]
      /\ hand \in [Handler -> Nat \cup {None}]
    BY <1>1 DEF QueueAt, Path
<1>4. \A i \in 1 .. nQueued : Linked[i] \in used
    BY <1>1, <1>3 DEF QueueAt, Shares, Slots
<1>5. \A h \in Handler : hand[h] # None => hand[h] \in used
    BY <1>1, <1>3 DEF QueueAt, Shares
<1> QED  BY <1>1, <1>2, <1>3, <1>4, <1>5 DEF QueueInv

\* push() appends its value.
LEMMA PushStep ==
    ASSUME VectorInv, QueueInv, NEW v, Push(v)
    PROVE  VectorInv' /\ QueueInv' /\ Promise!APush(v)
<1> DEFINE p == FirstFree
           n == nQueued
           M == Longer(Linked, n, p)
<1>1. /\ VectorInv' /\ walk' = "none" /\ p \in Nat /\ p \notin used
      /\ used' = used \cup {p} /\ nItems' = nItems + 1
      /\ cell' = [q \in DOMAIN cell \cup {p} |-> IF q = p THEN v ELSE cell[q]]
    BY QueueFacts, PushVector DEF Push
<1>2. /\ head' = IF tail = None THEN p ELSE head
      /\ tail' = p /\ nQueued' = n + 1 /\ hand' = hand /\ lost' = lost
      /\ next' = LinksWith(next, tail, p)
    BY DEF Push, Link, LinksWith
<1> HIDE DEF p
<1>3. QueueAt(M, nQueued', head', tail', next', hand', lost', used', nItems')
    <2>1. QueueAt(M, n + 1, IF tail = None THEN p ELSE head, p, next', hand, lost,
                  used \cup {p}, nItems + 1)
        BY <1>1, <1>2, QueueFacts, PushQueue
    <2> QED  BY <1>1, <1>2, <2>1
<1>4. Linked' = M /\ QueueInv'
    <2>1. used' \subseteq DOMAIN cell'
        BY <1>1, QueueFacts
    <2> QED  BY <1>1, <1>3, <2>1, Relinked DEF QueueInv
<1>5. Queued(Linked', cell') = Append(Queued(Linked, cell), v)
    <2> DEFINE S == {cell[q] : q \in used} \cup {v}
               X == Queued(Linked, cell)
               Y == Queued(M, cell')
    <2>1. n \in Nat /\ Linked \in [1 .. n -> Nat] /\ \A i \in 1 .. n : Linked[i] \in used
        BY QueueFacts
    <2>2. \A i \in 1 .. n : cell[Linked[i]] \in S
        BY <2>1
    <2>3. /\ M \in [1 .. n + 1 -> Nat] /\ M[n + 1] = p
          /\ \A i \in 1 .. n : M[i] = Linked[i]
        BY <1>1, <2>1 DEF Longer
    <2>4. cell'[p] = v /\ \A q \in used : cell'[q] = cell[q]
        BY <1>1, QueueFacts
    <2>5. \A i \in 1 .. n + 1 : cell'[M[i]] = IF i = n + 1 THEN v ELSE cell[Linked[i]]
        BY <2>1, <2>3, <2>4
    <2>6. \A i \in 1 .. n + 1 : cell'[M[i]] \in S
        BY <2>1, <2>2, <2>5
    <2> HIDE DEF S, M
    <2>7. /\ X \in Seq(S) /\ Len(X) = n /\ \A i \in 1 .. n : X[i] = cell[Linked[i]]
        BY <2>1, <2>2, QueuedSeq
    <2>8. /\ Y \in Seq(S) /\ Len(Y) = n + 1
          /\ \A i \in 1 .. n + 1 : Y[i] = cell'[M[i]]
        <3>1. n + 1 \in Nat
            BY <2>1
        <3> HIDE DEF n
        <3> QED  BY <2>3, <2>6, <3>1, QueuedSeq
    <2>9. v \in S
        BY DEF S
    <2> HIDE DEF X, Y, n
    <2>10. /\ Append(X, v) \in Seq(S) /\ Len(Append(X, v)) = n + 1
           /\ \A i \in 1 .. n : Append(X, v)[i] = X[i]
           /\ Append(X, v)[n + 1] = v
        BY <2>7, <2>9, AppendProperties
    <2>11. \A i \in 1 .. n + 1 : Y[i] = Append(X, v)[i]
        BY <2>1, <2>5, <2>7, <2>8, <2>10
    <2>12. Y = Append(X, v)
        BY <2>8, <2>10, <2>11, SeqEqual
    <2> QED  BY <1>4, <2>12 DEF X, Y
<1>6. InHands(hand', cell') = InHands(hand, cell)
    <2>1. \A h \in Handler : hand[h] # None => cell'[hand[h]] = cell[hand[h]]
        BY <1>1, QueueFacts
    <2> QED  BY <1>2, <2>1 DEF InHands
<1> QED  BY <1>1, <1>4, <1>5, <1>6 DEF Promise!APush, Queued, InHands

\* pop() gives the first value to the handler: the error path is never taken.
LEMMA PopStep ==
    ASSUME VectorInv, QueueInv, NEW h \in Handler, Pop(h)
    PROVE  VectorInv' /\ QueueInv' /\ Promise!APop(h)
<1> DEFINE n == nQueued
           M == Shorter(Linked, n)
<1>1. head # None
    BY DEF Pop
<1>2. /\ n > 0 /\ head = Linked[1] /\ (head = tail <=> n = 1)
      /\ head = tail \/ next[head] \in used
      /\ QueueAt(M, n - 1, IF head = tail THEN None ELSE next[head],
                 IF head = tail THEN None ELSE tail, next, [hand EXCEPT ![h] = head],
                 lost, used \ {hand[h]}, IF hand[h] = None THEN nItems ELSE nItems - 1)
    <2>1. QueueAt(Linked, nQueued, head, tail, next, hand, lost, used, nItems)
        BY QueueFacts
    <2>2. nItems \in Nat
        BY QueueFacts
    <2> QED  BY <1>1, <2>1, <2>2, PopQueue
<1>3. /\ head' = IF head = tail THEN None ELSE next[head]
      /\ tail' = IF head = tail THEN None ELSE tail
      /\ nQueued' = n - 1 /\ hand' = [hand EXCEPT ![h] = head]
      /\ Drop(h) /\ next' = next /\ lost' = lost
    BY <1>2 DEF Pop
<1>4. /\ VectorInv' /\ walk' = "none" /\ cell' = cell
      /\ used' = used \ {hand[h]}
      /\ nItems' = IF hand[h] = None THEN nItems ELSE nItems - 1
    BY <1>3, DropVector
<1>5. QueueAt(M, nQueued', head', tail', next', hand', lost', used', nItems')
    BY <1>2, <1>3, <1>4
<1>6. Linked' = M /\ QueueInv'
    <2>1. used' \subseteq DOMAIN cell'
        BY <1>4, QueueFacts
    <2> QED  BY <1>4, <1>5, <2>1, Relinked DEF QueueInv
<1>7. n \in Nat /\ Linked \in [1 .. n -> Nat] /\ hand \in [Handler -> Nat \cup {None}]
    BY QueueFacts
<1>8. /\ Queued(Linked, cell) # <<>> /\ Head(Queued(Linked, cell)) = cell[head]
      /\ Queued(Linked', cell') = Tail(Queued(Linked, cell))
    <2> DEFINE S == {cell[Linked[i]] : i \in 1 .. n}
               X == Queued(Linked, cell)
               Y == Queued(M, cell)
    <2>1. \A i \in 1 .. n : cell[Linked[i]] \in S
        OBVIOUS
    <2>2. M \in [1 .. n - 1 -> Nat] /\ n - 1 \in Nat
          /\ \A i \in 1 .. n - 1 : M[i] = Linked[i + 1] /\ i + 1 \in 1 .. n
        BY <1>2, <1>7 DEF Shorter
    <2>3. \A i \in 1 .. n - 1 : cell[M[i]] \in S
        BY <2>1, <2>2
    <2> HIDE DEF S, M
    <2>4. /\ X \in Seq(S) /\ Len(X) = n /\ \A i \in 1 .. n : X[i] = cell[Linked[i]]
        BY <1>7, <2>1, QueuedSeq
    <2>5. /\ Y \in Seq(S) /\ Len(Y) = n - 1
          /\ \A i \in 1 .. n - 1 : Y[i] = cell[M[i]]
        <3> DEFINE m == n - 1
        <3>1. m \in Nat /\ M \in [1 .. m -> Nat] /\ \A i \in 1 .. m : cell[M[i]] \in S
            BY <2>2, <2>3
        <3> HIDE DEF m
        <3>2. /\ Queued(M, cell) \in Seq(S) /\ Len(Queued(M, cell)) = m
              /\ \A i \in 1 .. m : Queued(M, cell)[i] = cell[M[i]]
            BY <3>1, QueuedSeq
        <3> QED  BY <3>2 DEF m
    <2> HIDE DEF X, Y, n
    <2>6. X # <<>> /\ 1 \in 1 .. n
        BY <1>2, <1>7, <2>4
    <2>7. Head(X) = X[1]
        BY <2>4, <2>6
    <2>8. /\ Tail(X) \in Seq(S) /\ Len(Tail(X)) = n - 1
          /\ \A i \in 1 .. n - 1 : Tail(X)[i] = X[i + 1]
        BY <2>4, <2>6, HeadTailProperties
    <2>9. \A i \in 1 .. n - 1 : Y[i] = Tail(X)[i]
        BY <2>2, <2>4, <2>5, <2>8
    <2>10. Y = Tail(X)
        BY <2>5, <2>8, <2>9, SeqEqual
    <2> QED  BY <1>2, <1>4, <1>6, <2>4, <2>6, <2>7, <2>10 DEF X, Y
<1>9. InHands(hand', cell') = [InHands(hand, cell) EXCEPT ![h] = cell[head]]
    <2>1. \A g \in Handler : hand'[g] = IF g = h THEN head ELSE hand[g]
        BY <1>3, <1>7
    <2> QED  BY <1>1, <1>4, <2>1 DEF InHands
<1> QED  BY <1>4, <1>6, <1>8, <1>9 DEF Promise!APop, Queued, InHands

\* reset() empties the handler and leaves the queue alone.
LEMMA ReleaseStep ==
    ASSUME VectorInv, QueueInv, NEW h \in Handler, Release(h)
    PROVE  VectorInv' /\ QueueInv' /\ Promise!ARelease(h)
<1>1. /\ hand[h] # None /\ Drop(h) /\ hand' = [hand EXCEPT ![h] = None]
      /\ next' = next /\ head' = head /\ tail' = tail /\ nQueued' = nQueued
      /\ lost' = lost
    BY DEF Release
<1>2. /\ VectorInv' /\ walk' = "none" /\ cell' = cell
      /\ used' = used \ {hand[h]} /\ nItems' = nItems - 1
    BY <1>1, DropVector
<1>3. QueueAt(Linked, nQueued', head', tail', next', hand', lost', used', nItems')
    <2>1. QueueAt(Linked, nQueued, head, tail, next, [hand EXCEPT ![h] = None], lost,
                  used \ {hand[h]}, nItems - 1)
        BY <1>1, QueueFacts, ReleaseQueue
    <2> QED  BY <1>1, <1>2, <2>1
<1>4. Linked' = Linked /\ QueueInv'
    <2>1. used' \subseteq DOMAIN cell'
        BY <1>2, QueueFacts
    <2> QED  BY <1>2, <1>3, <2>1, Relinked DEF QueueInv
<1>5. Queued(Linked', cell') = Queued(Linked, cell)
    BY <1>2, <1>4
<1>6. InHands(hand', cell') = [InHands(hand, cell) EXCEPT ![h] = None]
    <2>1. \A g \in Handler : hand'[g] = IF g = h THEN None ELSE hand[g]
        BY <1>1, QueueFacts
    <2> QED  BY <1>2, <2>1 DEF InHands
<1> QED  BY <1>2, <1>4, <1>5, <1>6 DEF Promise!ARelease, Queued, InHands

\* An assignment between handlers passes the value on.
LEMMA PassStep ==
    ASSUME VectorInv, QueueInv, NEW h \in Handler, NEW g \in Handler, Pass(h, g)
    PROVE  VectorInv' /\ QueueInv' /\ Promise!APass(h, g)
<1>1. /\ hand' = [hand EXCEPT ![h] = hand[g], ![g] = None]
      /\ lost' = (lost \cup {hand[h]}) \ {None}
      /\ ends' = ends /\ used' = used /\ cell' = cell /\ nItems' = nItems
      /\ walk' = walk /\ it' = it /\ seen' = seen
      /\ next' = next /\ head' = head /\ tail' = tail /\ nQueued' = nQueued
    BY DEF Pass, vec, walking
<1>2. VectorInv' /\ walk' = "none"
    <2>1. walk = "none"
        BY QueueFacts
    <2> QED  BY <1>1, <2>1 DEF VectorInv, ChunksOK, UsedOK, WalkOK, Start, Size
<1>3. QueueAt(Linked, nQueued', head', tail', next', hand', lost', used', nItems')
    <2>1. QueueAt(Linked, nQueued, head, tail, next,
                  [hand EXCEPT ![h] = hand[g], ![g] = None],
                  (lost \cup {hand[h]}) \ {None}, used, nItems)
        BY QueueFacts, PassQueue
    <2> QED  BY <1>1, <2>1
<1>4. Linked' = Linked /\ QueueInv'
    <2>1. used' \subseteq DOMAIN cell'
        BY <1>1, QueueFacts
    <2> QED  BY <1>2, <1>3, <2>1, Relinked DEF QueueInv
<1>5. Queued(Linked', cell') = Queued(Linked, cell)
    BY <1>1, <1>4
<1>6. InHands(hand', cell')
        = [InHands(hand, cell) EXCEPT ![h] = InHands(hand, cell)[g], ![g] = None]
    <2>1. \A f \in Handler : hand'[f] = IF f = g THEN None
                                        ELSE IF f = h THEN hand[g] ELSE hand[f]
        BY <1>1, QueueFacts
    <2> DEFINE X == InHands(hand, cell)
               Y == InHands(hand', cell')
    <2>2. Y \in [Handler -> {Y[f] : f \in Handler}] /\ X = [f \in Handler |-> X[f]]
        BY DEF InHands
    <2>3. \A f \in Handler : Y[f] = IF f = g THEN None ELSE IF f = h THEN X[g] ELSE X[f]
        <3>1. \A f \in Handler : X[f] = IF hand[f] = None THEN None ELSE cell[hand[f]]
            BY DEF InHands
        <3>2. \A f \in Handler : Y[f] = IF hand'[f] = None THEN None ELSE cell[hand'[f]]
            BY <1>1 DEF InHands
        <3> HIDE DEF X, Y
        <3> QED  BY <2>1, <3>1, <3>2
    <2> HIDE DEF X, Y
    <2>4. Y = [X EXCEPT ![h] = X[g], ![g] = None]
        BY <2>2, <2>3
    <2> QED  BY <2>4 DEF X, Y
<1> QED  BY <1>2, <1>4, <1>5, <1>6 DEF Promise!APass, Queued, InHands

LEMMA QueueStep ==
    ASSUME VectorInv, QueueInv, QNext
    PROVE  VectorInv' /\ QueueInv' /\ Promise!ANext
<1>1. CASE \E v \in Item : Push(v)
    BY <1>1, PushStep DEF Promise!ANext
<1>2. CASE \E h \in Handler : Pop(h) \/ Release(h)
    BY <1>2, PopStep, ReleaseStep DEF Promise!ANext
<1>3. CASE \E h, g \in Handler : Pass(h, g)
    BY <1>3, PassStep DEF Promise!ANext
<1> QED  BY <1>1, <1>2, <1>3 DEF QNext

-----------------------------------------------------------------------------
(* All three together.                                                     *)

LEMMA Initial == MCInit => Inv
<1> SUFFICES ASSUME MCInit PROVE Inv
    OBVIOUS
<1>1. VectorInv
    <2>1. ends = <<Width>> /\ used = {} /\ nItems = 0 /\ walk = "none"
        BY DEF MCInit, QInit, VInit
    <2>2. ChunksOK
        BY <2>1, VectorAssumption DEF ChunksOK, Start
    <2>3. UsedOK
        BY <2>1, FS_EmptySet DEF UsedOK
    <2> QED  BY <2>1, <2>2, <2>3 DEF VectorInv, WalkOK
<1>2. QueueUntouched
    BY DEF MCInit, QInit, QueueUntouched
<1>3. QueueInv
    <2>1. /\ nQueued = 0 /\ head = None /\ tail = None /\ next = <<>> /\ used = {}
          /\ hand = [h \in Handler |-> None] /\ lost = {} /\ nItems = 0 /\ walk = "none"
        BY DEF MCInit, QInit, VInit
    <2> DEFINE E == [i \in 1 .. 0 |-> 0]
    <2>2. Path(E, 0, None, <<>>)
        BY DEF Path
    <2>3. Linked = E
        BY <2>1, <2>2, OnePath, LinkedFollows
    <2>4. Slots(E, 0) = {}
        BY DEF Slots
    <2>5. Shares(E, 0, hand, {}, {})
        BY <2>1, <2>4, QueueAssumption DEF Shares
    <2>6. Holding(hand) = {}
        BY <2>1 DEF Holding
    <2>7. next \in [DOMAIN next -> Nat]
        BY <2>1
    <2>8. hand \in [Handler -> Nat \cup {None}]
        BY <2>1
    <2>9. 0 = 0 + Cardinality(Holding(hand)) + Cardinality({}) /\ IsFiniteSet({})
        BY <2>6, FS_EmptySet
    <2> HIDE DEF E
    <2>10. QueueAt(E, 0, None, None, <<>>, hand, {}, {}, 0)
        BY <2>1, <2>2, <2>5, <2>7, <2>8, <2>9 DEF QueueAt
    <2> QED  BY <2>1, <2>3, <2>10 DEF QueueInv
<1>4. BfdGood
    <2>1. /\ buf = EmptyBuf /\ reading = FALSE /\ amount = 0 /\ grant = 0 /\ want = 0
          /\ count = 0 /\ arrived = 0 /\ given = <<>>
        BY DEF MCInit, Init
    <2>2. /\ EmptyBuf \in BlockType /\ EmptyBuf.start = 0 /\ EmptyBuf.len = 0
          /\ EmptyBuf.size = 0 /\ EmptyBuf.room = Prealloc
        BY RdBufAssumption DEF EmptyBuf, BlockType, Blank
    <2>3. BlockOK(buf)
        BY <2>1, <2>2, RdBufAssumption DEF BlockOK, BlockType
    <2>4. Stream(0) = <<>> /\ Holds(buf, 0, 0)
        BY DEF Stream, Holds
    <2> QED  BY <2>1, <2>2, <2>3, <2>4 DEF BfdGood
<1> QED  BY <1>1, <1>2, <1>3, <1>4 DEF MCInit, Inv, BfdInv

\* An empty queue is mapped to the empty queue, whatever the vector holds.
LEMMA EmptyIsEmpty ==
    ASSUME NEW h, NEW nx, NEW c
    PROVE  /\ Queued(Follow(0, h, nx), c) = <<>>
           /\ InHands([g \in Handler |-> None], c) = [g \in Handler |-> None]
<1> DEFINE E == [i \in 1 .. 0 |-> 0]
<1>1. Path(E, 0, h, nx)
    BY DEF Path
<1>2. Follow(0, h, nx) = E
    BY <1>1, OnePath
<1>3. DOMAIN Follow(0, h, nx) = {}
    BY <1>2
<1> QED  BY <1>3 DEF Queued, InHands

\* One step of whichever container it is: the invariant is kept, and the queue does
\* what HandedQueue does or nothing that it can see.
LEMMA Step ==
    ASSUME Inv, [MCNext]_<<vec, walking, queueVars, vars, object>>
    PROVE  /\ Inv'
           /\ Promise!ANext \/ UNCHANGED <<Queued(Linked, cell), InHands(hand, cell)>>
<1>1. /\ VectorInv /\ BfdInv /\ object \in {"vector", "queue", "bfd"}
      /\ object = "queue" => QueueInv
      /\ object # "queue" => QueueUntouched
    BY DEF Inv
<1>2. ASSUME UNCHANGED vars PROVE BfdInv'
    BY <1>1, <1>2, BfdSame DEF vars
<1>3. ASSUME UNCHANGED queueVars, QueueUntouched
      PROVE  /\ QueueUntouched'
             /\ UNCHANGED <<Queued(Linked, cell), InHands(hand, cell)>>
    <2>1. QueueUntouched'
        BY <1>3 DEF queueVars, QueueUntouched
    <2>2. /\ Linked = Follow(0, head, next) /\ Linked' = Follow(0, head', next')
          /\ hand = [h \in Handler |-> None] /\ hand' = [h \in Handler |-> None]
        BY <1>3, <2>1 DEF Linked, Follow, QueueUntouched
    <2>3. Queued(Linked, cell) = <<>> /\ Queued(Linked', cell') = <<>>
        BY <2>2, EmptyIsEmpty
    <2>4. InHands(hand, cell) = InHands(hand', cell')
        BY <2>2, EmptyIsEmpty
    <2> QED  BY <2>1, <2>3, <2>4
<1>4. ASSUME UNCHANGED <<vec, walking>> PROVE VectorInv'
    <2>1. /\ ends' = ends /\ used' = used /\ nItems' = nItems /\ walk' = walk
          /\ it' = it /\ seen' = seen
        BY <1>4 DEF vec, walking
    <2> QED  BY <1>1, <2>1 DEF VectorInv, ChunksOK, UsedOK, WalkOK, IterOK, At, Start, Size
<1>5. CASE object = "vector" /\ VNext /\ UNCHANGED <<queueVars, vars, object>>
    <2>1. VectorInv'
        BY <1>1, <1>5, VectorStep
    <2>2. QueueUntouched' /\ UNCHANGED <<Queued(Linked, cell), InHands(hand, cell)>>
        BY <1>1, <1>3, <1>5
    <2>3. object' = object /\ BfdInv'
        BY <1>2, <1>5
    <2> QED  BY <1>5, <2>1, <2>2, <2>3 DEF Inv
<1>6. CASE object = "queue" /\ QNext /\ UNCHANGED <<vars, object>>
    <2>1. VectorInv' /\ QueueInv' /\ Promise!ANext
        BY <1>1, <1>6, QueueStep
    <2>2. object' = object /\ BfdInv'
        BY <1>2, <1>6
    <2> QED  BY <1>6, <2>1, <2>2 DEF Inv
<1>7. CASE object = "bfd" /\ Next /\ UNCHANGED <<vec, walking, queueVars, object>>
    <2>1. VectorInv'
        BY <1>4, <1>7
    <2>2. QueueUntouched' /\ UNCHANGED <<Queued(Linked, cell), InHands(hand, cell)>>
        BY <1>1, <1>3, <1>7
    <2>3. object' = object /\ BfdInv'
        BY <1>1, <1>7, BfdStep
    <2> QED  BY <1>7, <2>1, <2>2, <2>3 DEF Inv
<1>8. CASE UNCHANGED <<vec, walking, queueVars, vars, object>>
    <2>1. VectorInv' /\ BfdInv' /\ object' = object
        BY <1>2, <1>4, <1>8
    <2>2. Linked' = Linked
        BY <1>8 DEF Linked, queueVars
    <2>3. QueueInv => QueueInv'
        BY <1>8, <2>2 DEF QueueInv, vec, walking, queueVars
    <2>4. QueueUntouched => QueueUntouched'
        BY <1>3, <1>8
    <2>5. UNCHANGED <<Queued(Linked, cell), InHands(hand, cell)>>
        BY <1>8, <2>2 DEF Queued, InHands, vec, queueVars
    <2> QED  BY <1>1, <2>1, <2>3, <2>4, <2>5 DEF Inv
<1> QED  BY <1>5, <1>6, <1>7, <1>8 DEF MCNext

\* The invariant holds in every state of a vector, a queue or a descriptor.
THEOREM ContainersInvariant == MCSpec => []Inv
<1>1. Inv /\ [MCNext]_<<vec, walking, queueVars, vars, object>> => Inv'
    BY Step
<1> QED  BY <1>1, Initial, PTL DEF MCSpec

\* A loop over an inpvec with operator++ visits every item that is there, for any
\* width of the bitmap's words, any number of chunks and any positions, also when
\* it frees the items it visits.
THEOREM VectorIncVisitsAll == MCSpec => []IncVisitsAll
<1>1. Inv => IncVisitsAll
    BY DEF Inv, VectorInv, WalkOK, IncVisitsAll
<1> QED  BY <1>1, ContainersInvariant, PTL

\* Every slot of a queue is in its list, with one handler, or was lost by an
\* assignment between handlers.
THEOREM QueueSlotsAccounted == MCSpec => []QueueSlots
<1>1. ASSUME Inv PROVE QueueSlots
    <2> SUFFICES ASSUME object = "queue" PROVE SlotsAccounted
        BY DEF QueueSlots
    <2>1. QueueAt(Linked, nQueued, head, tail, next, hand, lost, used, nItems)
        BY <1>1 DEF Inv, QueueInv
    <2>2. /\ Linked \in [1 .. nQueued -> Nat] /\ used \in SUBSET Nat
          /\ hand \in [Handler -> Nat \cup {None}] /\ lost \in SUBSET Nat
          /\ Shares(Linked, nQueued, hand, lost, used)
          /\ nItems = nQueued + Cardinality(Holding(hand)) + Cardinality(lost)
        BY <2>1 DEF QueueAt, Path
    <2>3. Slots(Linked, nQueued) = {Linked[i] : i \in DOMAIN Linked}
          /\ Slots(Linked, nQueued) \in SUBSET Nat
        BY <2>2 DEF Slots
    <2> DEFINE A == (Slots(Linked, nQueued) \cup {hand[h] : h \in Handler} \cup lost)
                        \ {None}
    <2>4. A \in SUBSET Nat
        BY <2>2, <2>3
    <2>5. \A p \in Nat : p # None
        BY QueueAssumption
    <2>6. \A p \in Nat : p \in used <=> p \in A
        BY <2>2, <2>5 DEF Shares
    <2> HIDE DEF A
    <2>7. used = A
        BY <2>2, <2>4, <2>6
    <2> QED  BY <2>2, <2>3, <2>7 DEF SlotsAccounted, Holding, A
<1> QED  BY <1>1, ContainersInvariant, PTL

\* A caller who empties the buffer before he reads more gets every byte of the
\* stream once and in order, for any size of the block, any limit and any reads.
THEOREM BfdStreamIntact == MCSpec => []StreamIntact
<1>1. Inv => StreamIntact
    BY GoodIsIntact DEF Inv, BfdInv, StreamIntact
<1> QED  BY <1>1, ContainersInvariant, PTL

\* The queue, a list linked by positions of a vector, implements a first-in
\* first-out queue whose handlers keep what they popped.
THEOREM QueueImplementsHandedQueue == MCSpec => ImplementsHandedQueue
<1>1. MCInit => Promise!AInit
    <2> SUFFICES ASSUME MCInit PROVE Promise!AInit
        OBVIOUS
    <2>1. nQueued = 0 /\ hand = [h \in Handler |-> None]
        BY DEF MCInit, QInit
    <2>2. Linked = Follow(0, head, next)
        BY <2>1, LinkedFollows
    <2>3. Queued(Linked, cell) = <<>>
        BY <2>2, EmptyIsEmpty
    <2>4. InHands(hand, cell) = [h \in Handler |-> None]
        BY <2>1, EmptyIsEmpty
    <2> QED  BY <2>3, <2>4 DEF Promise!AInit, Queued, InHands
<1>2. Inv /\ [MCNext]_<<vec, walking, queueVars, vars, object>>
        => [Promise!ANext]_<<[i \in DOMAIN Linked |-> cell[Linked[i]]],
                             [h \in Handler |-> IF hand[h] = None THEN None
                                                ELSE cell[hand[h]]]>>
    BY Step DEF Queued, InHands
<1> QED  BY <1>1, <1>2, ContainersInvariant, PTL
         DEF MCSpec, ImplementsHandedQueue, Promise!ASpec
=============================================================================
