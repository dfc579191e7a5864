----------------------------- MODULE NestedStore -----------------------------
(***************************************************************************)
(* What nested transactions promise: the innermost one is committed or     *)
(* rolled back as a whole.  A rollback undoes everything done since that   *)
(* transaction began, nested ones that were committed included, and what   *)
(* is on disk changes only when the outermost one commits.                 *)
(***************************************************************************)
EXTENDS Naturals, Sequences, SequencesExt

VARIABLES disk,     \* what is stored
          now,      \* what the transactions see
          frames    \* what each open transaction saw when it began, outermost first

AInit == disk = {} /\ now = {} /\ frames = <<>>

ABegin == frames' = Append(frames, now) /\ UNCHANGED <<disk, now>>

\* A write of an open transaction, which may begin with it.
AWrite ==
    /\ frames' \in {frames, Append(frames, now)}
    /\ frames' # <<>>
    /\ now \subseteq now' /\ now' # now
    /\ UNCHANGED disk

ACommit ==
    /\ frames # <<>>
    /\ frames' = Front(frames)
    /\ disk' = IF Len(frames) = 1 THEN now ELSE disk
    /\ UNCHANGED now

ARollback ==
    /\ frames # <<>>
    /\ frames' = Front(frames)
    /\ now' = Last(frames)
    /\ UNCHANGED disk

ANext == ABegin \/ AWrite \/ ACommit \/ ARollback

ASpec == AInit /\ [][ANext]_<<disk, now, frames>>
=============================================================================
