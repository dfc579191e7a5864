----------------------------- MODULE MCTcpLstnr -----------------------------
(***************************************************************************)
(* Model checking of TcpLstnr: the plans of the runs.                      *)
(***************************************************************************)
EXTENDS TcpLstnr

MCPlan(n, m, stop) == [clients |-> n, sends |-> m, stops |-> stop]

\* Two clients that send twice, and a listener that is stopped while two clients
\* or a single one are served.
MCPlans == {MCPlan(2, 2, FALSE), MCPlan(2, 1, TRUE), MCPlan(1, 2, TRUE)}
=============================================================================
