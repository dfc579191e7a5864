------------------------------- MODULE MCThread ------------------------------
(***************************************************************************)
(* Model checking of pevent and of thread, which tells of its start and    *)
(* its end by two of them.  Which one it is, is chosen in the initial      *)
(* state; the other then stays as it is.  Thread has its events as flags.  *)
(***************************************************************************)
EXTENDS PEvent, Thread

VARIABLE class

MCInit ==
    /\ PInit /\ TInit
    /\ class \in {"pevent", "thread"}
    /\ class = "pevent" => patient

MCNext ==
    /\ \/ class = "pevent" /\ PNext /\ UNCHANGED tvars
       \/ class = "thread" /\ TNext /\ UNCHANGED pvars
    /\ UNCHANGED class

\* Where a class stays as it is, no action of its fairness is enabled.
MCSpec ==
    /\ MCInit /\ [][MCNext]_<<pvars, tvars, class>>
    /\ PFairness /\ TFairness
=============================================================================
