----------------------------- MODULE MCQueueSync -----------------------------
(* Instances of QueueSync for TLC. *)
EXTENDS QueueSync

\* The items are interchangeable; for safety only.
Symmetry == Permutations(Items)
=============================================================================
