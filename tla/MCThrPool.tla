------------------------------ MODULE MCThrPool ------------------------------
(***************************************************************************)
(* Model checking of ThrPool: the plans of the runs.  The names of threads *)
(* are interchangeable in runs that check invariants only.                 *)
(***************************************************************************)
EXTENDS ThrPool, TLC

MCPlan(lo, hi, stop, calls, work) ==
    [min |-> lo, max |-> hi, stops |-> stop, inits |-> calls, pending |-> work]

\* A pool that grows and shrinks, one that is stopped as well, and one that is
\* initialised again while it runs.
SafetyPlans == {MCPlan(1, 3, FALSE, 1, 4), MCPlan(1, 2, TRUE, 1, 4),
                MCPlan(1, 1, TRUE, 3, 1)}

\* A pool that grows while it is stopped, and one of a fixed size.
LivenessPlans == {MCPlan(1, 2, TRUE, 1, 3), MCPlan(2, 2, FALSE, 1, 4)}

\* A pool that grows and shrinks, in the least size.
ShrinkPlans == {MCPlan(1, 2, FALSE, 1, 4)}

Symmetry == Permutations(Worker)
=============================================================================
