--------------------------------- MODULE Bfd ---------------------------------
(***************************************************************************)
(* The buffered file descriptor (comm/bfd.cc) that connections are read    *)
(* through: one thread uses it at a time.  internal_read() reads as long   *)
(* as a read fills what it reserved, and reserves twice as much for the    *)
(* next one.  The bytes of the stream are numbered in the order in which   *)
(* they are sent; how many of them a read returns is up to the network.    *)
(* read() and recv() are the same on a stream; the datagrams of recvfrom() *)
(* are not modelled.                                                       *)
(***************************************************************************)
EXTENDS RdBuf

CONSTANTS MaxByte,    \* bound on the bytes of the stream
          Sizes       \* the sizes a caller asks for

ASSUME BfdAssumption == MaxByte \in Nat /\ Sizes \subseteq Nat \ {0}

VARIABLES buf,        \* buf_
          fd,         \* fd_: "open", or why it is not: "closed", "error"
          reading,    \* inside internal_read()
          amount,     \* its read_amount
          grant,      \* bytes() of its reservation, the last thing in buf_
          want,       \* what read() will take from the buffer, 0 in read_some()
          count,      \* ret, the bytes this call has read
          arrived,    \* history: bytes taken from the network so far
          given,      \* history: the bytes handed to the caller
          refilled    \* history: it has read behind data partly taken out

vars == <<buf, fd, reading, amount, grant, want, count, arrived, given, refilled>>

Init ==
    /\ buf = EmptyBuf /\ fd = "open"
    /\ reading = FALSE /\ amount = 0 /\ grant = 0 /\ want = 0 /\ count = 0
    /\ arrived = 0 /\ given = <<>> /\ refilled = FALSE

\* read_amount: up to the preallocated size, then more than the buffer has.
FirstAmount ==
    IF buf.size < Prealloc THEN Prealloc - buf.size
                           ELSE (buf.size \div Prealloc + 4) * Prealloc

\* internal_read() for a caller that wants sz bytes, or 0, up to its first read.
Enter(sz) ==
    /\ reading' = TRUE
    /\ amount' = FirstAmount
    /\ grant' = Grant(buf, FirstAmount)
    /\ buf' = Reserve(buf, FirstAmount)
    /\ want' = sz /\ count' = 0
    /\ refilled' = (refilled \/ buf.start > 0)
    /\ UNCHANGED <<fd, arrived, given>>

\* buf_.get(): also read_buf(), and read() while there is data.
Take(sz) ==
    /\ ~reading /\ buf.len > 0
    /\ given' = given \o Bytes(buf, GetSize(buf, sz))
    /\ buf' = Get(buf, sz)
    /\ UNCHANGED <<fd, reading, amount, grant, want, count, arrived, refilled>>

\* read(), recv() with an empty buffer.
Read(sz) ==
    /\ ~reading /\ buf.len = 0 /\ fd = "open"
    /\ Enter(sz)

\* read_some(), recv_some()
ReadSome ==
    /\ ~reading /\ fd = "open"
    /\ Enter(0)

\* internal_read() returns; read() takes from the buffer if it read anything.
Leave(b, n) ==
    LET k == IF want > 0 /\ n > 0 THEN GetSize(b, want) ELSE 0
    IN  /\ given' = given \o Bytes(b, k)
        /\ buf' = IF k > 0 THEN Get(b, want) ELSE b
        /\ reading' = FALSE
        /\ amount' = 0 /\ grant' = 0 /\ want' = 0 /\ count' = 0

\* The memory after n bytes were read to where the reservation begins.  Behind
\* the end of the block a byte may or may not be found again.
Filled(b, n, kept) ==
    LET at == b.start + b.len - grant
    IN  [b EXCEPT !.mem = [o \in Offset |->
            IF o \notin at .. at + n - 1 THEN b.mem[o]
            ELSE IF o < b.room \/ kept THEN arrived + o - at + 1 ELSE Junk]]

Outside(b, n) == b.start + b.len - grant + n > b.room

\* ::read() returns some of the bytes that were reserved for.
ReadPart(n, kept) ==
    /\ reading /\ n < grant
    /\ kept \/ Outside(buf, n)
    /\ arrived' = arrived + n
    /\ Leave(Adjust(Filled(buf, n, kept), grant - n), count + n)
    /\ UNCHANGED <<fd, refilled>>

\* Mutant: the next reservation replaces the block without the bytes just read.
ReadFullFresh(kept) ==
    /\ reading /\ grant > 0
    /\ kept \/ Outside(buf, grant)
    /\ arrived' = arrived + grant
    /\ amount' = 2 * amount
    /\ count' = count + grant
    /\ grant' = Grant(buf, 2 * amount)
    /\ buf' = Reserve([Filled(buf, grant, kept) EXCEPT !.size = @ - grant], 2 * amount)
    /\ UNCHANGED <<fd, reading, want, given, refilled>>

\* ::read() fills the reservation: twice as much is reserved for the next one.
ReadFull(kept) ==
    /\ reading /\ grant > 0
    /\ kept \/ Outside(buf, grant)
    /\ arrived' = arrived + grant
    /\ amount' = 2 * amount
    /\ count' = count + grant
    /\ grant' = Grant(buf, 2 * amount)
    /\ buf' = Reserve(Filled(buf, grant, kept), 2 * amount)
    /\ UNCHANGED <<fd, reading, want, given, refilled>>

\* "cannot allocate more space"
BufferFull ==
    /\ reading /\ grant = 0
    /\ Leave(buf, count)
    /\ UNCHANGED <<fd, arrived, refilled>>

\* Nothing is read: the time is over, the peer closed, select() or read() failed.
ReadNothing(state) ==
    /\ reading /\ grant > 0
    /\ fd' = state
    /\ Leave(Adjust(buf, grant), count)
    /\ UNCHANGED <<arrived, refilled>>

\* close(), init() and a write that fails: they leave the buffer as it is.
SetFd(state) ==
    /\ ~reading /\ fd # state
    /\ state = "error" => fd = "open"
    /\ fd' = state
    /\ UNCHANGED <<buf, reading, amount, grant, want, count, arrived, given, refilled>>

FdState == {"open", "closed", "error"}

Next ==
    \/ \E sz \in Sizes : Take(sz) \/ Read(sz)
    \/ ReadSome
    \/ \E n \in 1 .. MaxByte - arrived, kept \in BOOLEAN : ReadPart(n, kept)
    \/ \E kept \in BOOLEAN : arrived + grant <= MaxByte /\ ReadFull(kept)
    \/ BufferFull
    \/ \E state \in FdState : ReadNothing(state) \/ SetFd(state)

Spec == Init /\ [][Next]_vars

-----------------------------------------------------------------------------
Settled == IF reading THEN Bytes(buf, buf.len - grant) ELSE Buffered(buf)

\* What has been handed out and what is still in the buffer, one behind the other,
\* are the bytes that came from the network.
Intact == given \o Settled = [i \in 1 .. arrived |-> i]

\* No byte is lost, doubled or out of order, however the reads grow the block, stop
\* at its limit, time out or meet the end of the stream, for a caller that empties
\* the buffer before it reads more, as read() and recv() do.
StreamIntact == ~refilled => Intact

\* rdbuf.hh: "data is always allocated at the end of the buffer. even if space is
\* available at the beginning of the buffer".  The stream would be intact also when
\* read_some() adds to data partly taken out.  This does not hold.
RefillIntact == Intact
=============================================================================
