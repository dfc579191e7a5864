----------------------------- MODULE HandedQueue -----------------------------
(***************************************************************************)
(* What common::queue promises: values leave in the order in which they    *)
(* came, and a handler that popped one holds that value, unchanged, until  *)
(* it is reset, pops again or passes it on.                                *)
(***************************************************************************)
EXTENDS Sequences

CONSTANTS Val, Handler, Nothing

VARIABLES queue,    \* the values in the queue
          holds     \* the value of each handler, or Nothing

AInit == queue = <<>> /\ holds = [h \in Handler |-> Nothing]

APush(v) == queue' = Append(queue, v) /\ UNCHANGED holds

APop(h) ==
    /\ queue # <<>>
    /\ holds' = [holds EXCEPT ![h] = Head(queue)]
    /\ queue' = Tail(queue)

ARelease(h) ==
    /\ holds' = [holds EXCEPT ![h] = Nothing]
    /\ UNCHANGED queue

APass(h, g) ==
    /\ holds' = [holds EXCEPT ![h] = holds[g], ![g] = Nothing]
    /\ UNCHANGED queue

ANext ==
    \/ \E v \in Val : APush(v)
    \/ \E h \in Handler : APop(h) \/ ARelease(h)
    \/ \E h, g \in Handler : APass(h, g)

ASpec == AInit /\ [][ANext]_<<queue, holds>>
=============================================================================
