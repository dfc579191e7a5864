----------------------------- MODULE MCUdpSession ----------------------------
(***************************************************************************)
(* Model checking of UdpSession: the plans of the run.                     *)
(***************************************************************************)
EXTENDS UdpSession

MCPlan(lose, dups, fail, wait, serving, bound) ==
    [loss |-> lose, dup |-> dups, fails |-> fail, patient |-> wait,
     workers |-> serving, limit |-> bound]

OneWorker == {CHOOSE w \in Worker : TRUE}

\* Packets are duplicated; calls fail; packets are lost; one worker sees
\* duplicated packets; one worker, and nothing goes wrong.
MCPlans == {MCPlan(FALSE, {"auth", "data"}, FALSE, FALSE, Worker, 3),
            MCPlan(FALSE, {}, TRUE, FALSE, Worker, MaxFresh),
            MCPlan(TRUE, {}, FALSE, FALSE, Worker, MaxFresh),
            MCPlan(FALSE, {"data"}, FALSE, FALSE, OneWorker, MaxFresh),
            MCPlan(FALSE, {}, FALSE, TRUE, OneWorker, MaxFresh)}

\* Two workers, and nothing goes wrong.
FinePlans == {MCPlan(FALSE, {}, FALSE, TRUE, Worker, MaxFresh)}
=============================================================================
