----------------------------- MODULE MCPlaylists -----------------------------
(* One remote playlist that changes once, and one that can no longer be read  *)
(* at some time.                                                              *)
EXTENDS Playlists

CONSTANTS r1, r2

MCContent == [r \in Remotes |-> IF r = r1 THEN <<<<"t1", "t2">>, <<"t2">>>> ELSE <<<<"t3", "t1">>>>]
=============================================================================
