----------------------------- MODULE MCSlt3Tran ------------------------------
(***************************************************************************)
(* Model checking of Slt3Tran: the plans.  The contents of the database    *)
(* matter for the nested client only, who gets more writes and savepoints. *)
(***************************************************************************)
EXTENDS Slt3Tran

MCPlan(kind, exceptions, objs, work, trouble, nesting) ==
    [client |-> kind, useExc |-> exceptions, trans |-> objs, writes |-> work,
     faults |-> trouble, depth |-> nesting]

\* Three nested scopes that write, fail to commit and try again; three objects in
\* any order; two that are used again and again, with errors thrown or not.
MCPlans == {MCPlan("nested", TRUE, 3, 3, 1, 3),
            MCPlan("any", TRUE, 3, 0, 0, 1),
            MCPlan("any", TRUE, 2, 1, 1, 2),
            MCPlan("any", FALSE, 2, 1, 1, 2)}
=============================================================================
