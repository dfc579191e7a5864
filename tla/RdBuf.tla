-------------------------------- MODULE RdBuf --------------------------------
(***************************************************************************)
(* The read buffer (common/rdbuf.hh) on its block of memory, a tbuf        *)
(* (common/tbuf_impl.hh): len_ bytes of data from start_ on, where new     *)
(* bytes are put behind the data.  A block first is the preallocated one   *)
(* and then comes from malloc(), with a copy of the size_ bytes that the   *)
(* old block was said to have.  The buffer is one record, so that its      *)
(* operations can be composed.                                             *)
(***************************************************************************)
EXTENDS Naturals, Sequences

CONSTANTS Prealloc,   \* Preallocated, the bytes in the object itself (512)
          MaxSize,    \* MaxSize (256k)
          Junk        \* what memory holds where no byte was written

ASSUME RdBufAssumption ==
    /\ Prealloc \in Nat \ {0}
    /\ MaxSize \in Nat \ {0}
    /\ Prealloc <= MaxSize
    /\ Junk \notin Nat

Offset == 0 .. MaxSize - 1
Blank == [o \in Offset |-> Junk]

\* start_, len_ and the tbuf: size_, the bytes it really has (room), whether it
\* comes from malloc() (grown), and its contents.
EmptyBuf == [start |-> 0, len |-> 0, size |-> 0,
             room |-> Prealloc, grown |-> FALSE, mem |-> Blank]

\* tbuf::allocate(); malloc() does not fail here.
Allocate(b, sz) ==
    IF sz = 0
    THEN [b EXCEPT !.size = 0, !.room = Prealloc, !.grown = FALSE,
                   !.mem = IF b.grown THEN Blank ELSE @]
    ELSE IF sz <= b.size \/ (sz <= Prealloc /\ ~b.grown)
    THEN [b EXCEPT !.size = sz]
    ELSE [b EXCEPT !.size = sz, !.room = sz, !.grown = TRUE,
                   !.mem = [o \in Offset |-> IF o < b.size THEN b.mem[o] ELSE Junk]]

\* get(): how many bytes it returns, the bytes, and the buffer after it.
GetSize(b, sz) == IF b.len > sz THEN sz ELSE b.len

Bytes(b, n) == [i \in 1 .. n |-> b.mem[b.start + i - 1]]

Get(b, sz) ==
    LET n == GetSize(b, sz)
    IN  [b EXCEPT !.start = IF b.len = n THEN 0 ELSE @ + n, !.len = @ - n]

\* reserve(): what it grants of the sz bytes, and the buffer after it.  The block
\* is asked for without the start_ bytes in front of the data.
Grant(b, sz) ==
    IF b.start + b.len + sz <= MaxSize THEN sz
    ELSE IF b.start + b.len < MaxSize THEN MaxSize - b.start - b.len ELSE 0

Reserve(b, sz) ==
    LET n == Grant(b, sz)
    IN  IF n = 0 THEN b
        ELSE [Allocate(b, IF n < sz THEN MaxSize ELSE b.len + sz)
                 EXCEPT !.len = @ + n]

\* adjust(): of the reserved bytes, unused ones are given back.
Adjust(b, unused) ==
    IF b.len = unused
    THEN [Allocate(b, 0) EXCEPT !.start = 0, !.len = 0]
    ELSE IF unused = 0 THEN b
    ELSE [Allocate(b, b.start + b.len - unused) EXCEPT !.len = @ - unused]

\* The data in the buffer.
Buffered(b) == Bytes(b, b.len)
=============================================================================
