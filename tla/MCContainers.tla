---------------------------- MODULE MCContainers -----------------------------
(***************************************************************************)
(* Model checking of the sequential containers that the servers are built  *)
(* on: a vector, a queue, which is kept in a vector, and the read buffer   *)
(* of a connection.  Which one it is, is chosen in the initial state; the  *)
(* others then stay as they are.                                           *)
(***************************************************************************)
EXTENDS Queue, Bfd

VARIABLE object

MCInit == QInit /\ Init /\ object \in {"vector", "queue", "bfd"}

MCNext ==
    /\ \/ object = "vector" /\ VNext /\ UNCHANGED <<queueVars, vars>>
       \/ object = "queue" /\ QNext /\ UNCHANGED vars
       \/ object = "bfd" /\ Next /\ UNCHANGED <<vec, walking, queueVars>>
    /\ UNCHANGED object

MCSpec == MCInit /\ [][MCNext]_<<vec, walking, queueVars, vars, object>>

\* The accounts of the queue are about vectors that only the queue uses.
QueueSlots == object = "queue" => SlotsAccounted
=============================================================================
