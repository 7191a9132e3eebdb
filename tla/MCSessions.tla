----------------------------- MODULE MCSessions -----------------------------
(* An instance of Sessions whose requests and tokens are interchangeable.  *)
EXTENDS Sessions, TLC

Symmetry ==
  Permutations(Requests) \cup Permutations(Logins) \cup Permutations(Actors)
=============================================================================
