------------------------------ MODULE MCPlayers -----------------------------
EXTENDS Players, TLC

Symmetric == Permutations(Conns) \cup Permutations(Tasks) \cup Permutations(Rooms)
=============================================================================
