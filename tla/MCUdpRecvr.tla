------------------------------ MODULE MCUdpRecvr -----------------------------
(***************************************************************************)
(* Model checking of CircBuf and of UdpRecvr on top of it.  Who uses the   *)
(* buffer is chosen in the initial state: the "server" of UdpRecvr, a      *)
(* two-phase producer and its handlers; or, without threads around it,     *)
(* clients of push() and checked pop(), and clients who call anything in   *)
(* any order.                                                              *)
(***************************************************************************)
EXTENDS UdpRecvr

VARIABLE client

mcVars == <<rvars, client>>

\* The other clients have neither a receiver thread nor handlers.
MCInit ==
    \/ RInit /\ client = "server"
    \/ /\ Init
       /\ inbox = <<>> /\ recv = "done"
       /\ work = [w \in Worker |-> "gone"]
       /\ reading = [w \in Worker |-> NoSlot]
       /\ mtx = Nobody /\ pending = 0 /\ stopMe = TRUE
       /\ client \in {"push", "any"}

MCNext ==
    /\ \/ client = "server" /\ RNext
       \/ client = "push" /\ OneStepNext /\ UNCHANGED <<inbox, Threads, pending, stopMe>>
       \/ client = "any" /\ AnyNext /\ UNCHANGED <<inbox, Threads, pending, stopMe>>
    /\ UNCHANGED client

MCSpec == MCInit /\ [][MCNext]_mcVars /\ RFairness

-----------------------------------------------------------------------------
(* Properties.                                                             *)

\* No client gets the same slot as another one, whatever it does, also after the
\* error paths.  n_items() is "the number of active items" (circbuf.hh) for
\* clients of push(), and a server loses no slot and forgets no message.
SlotsKept ==
    /\ NoDoubleLink
    /\ client = "push" => CountExact
    /\ client = "server" => SlotsPartitioned /\ NothingForgotten

\* No message of a server waits for the next one to arrive.
NoneStranded == client = "server" => NothingStranded

\* circbuf.hh: "use n_items() to check if there is any item available in the
\* active list".  This does not hold for a server.
CheckedPopSucceeds == client = "server" => fault # "empty"

\* For clients of push() and for a server circbuf is a bounded queue that drops
\* its oldest message, when it is full.  (A client of the third kind is mapped to an idle queue.)
Abstract == INSTANCE LossyQueue WITH
                queue <- IF client = "any" THEN <<>> ELSE Stored,
                taken <- IF client = "any" THEN 0 ELSE popped,
                Capacity <- MaxItems, Message <- 1..MaxMessages

ImplementsLossyQueue == Abstract!LSpec
=============================================================================
