------------------------------ MODULE QueueView ------------------------------
(***************************************************************************)
(* What the queue protocol promises a listener (docs/spec-v1.md 4.1): the   *)
(* queue on display is, as a whole, one of the versions the room's queue    *)
(* went through, and while the listener stays it only moves to later ones.  *)
(***************************************************************************)
EXTENDS Naturals, Sequences

VARIABLES
  versions,   \* the contents of the room's queue, revision after revision
  shown,      \* which of them is on display, 0 when none is
  display     \* the queue on display

vars == <<versions, shown, display>>

Init == Len(versions) = 1 /\ shown = 0 /\ display = <<>>

\* The room changes its queue.
Change ==
  /\ Len(versions') = Len(versions) + 1
  /\ SubSeq(versions', 1, Len(versions)) = versions
  /\ UNCHANGED <<shown, display>>

\* The listener catches up, with one version or with several at a time.
Show ==
  /\ shown' \in shown..Len(versions) /\ shown' # 0
  /\ display' = versions[shown']
  /\ UNCHANGED versions

\* The listener leaves.
Reset == shown' = 0 /\ display' = <<>> /\ UNCHANGED versions

Next == Change \/ Show \/ Reset

Spec == Init /\ [][Next]_vars
=============================================================================
