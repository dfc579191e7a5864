----------------------------- MODULE LossyQueue ------------------------------
(***************************************************************************)
(* What common::circbuf promises: a first-in first-out queue of at most    *)
(* Capacity messages that makes room by dropping its oldest message, and   *)
(* only when it is full.                                                   *)
(***************************************************************************)
EXTENDS Naturals, Sequences

CONSTANTS Capacity,   \* messages the queue can hold
          Message     \* messages

VARIABLES queue,      \* oldest first
          taken       \* the message taken last (0 before the first)

LInit == queue = <<>> /\ taken = 0

\* A message is stored; a full queue loses its oldest in the same step.
Put(m) ==
    /\ queue' = IF Len(queue) = Capacity
                THEN Append(Tail(queue), m)
                ELSE Append(queue, m)
    /\ UNCHANGED taken

\* A full queue drops its oldest message ahead of the next one.
Drop ==
    /\ Len(queue) = Capacity
    /\ queue' = Tail(queue)
    /\ UNCHANGED taken

Get ==
    /\ queue # <<>>
    /\ taken' = Head(queue)
    /\ queue' = Tail(queue)

LNext == (\E m \in Message : Put(m)) \/ Drop \/ Get

LSpec == LInit /\ [][LNext]_<<queue, taken>>
=============================================================================
