----------------------------- MODULE MCCommands -----------------------------
(* An instance of Commands: interchangeable requests, bodies and subjects.  *)
EXTENDS Commands, TLC

Symmetry ==
  Permutations(Requests) \cup Permutations(Bodies) \cup Permutations(Subjects)
=============================================================================
