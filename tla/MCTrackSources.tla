--------------------------- MODULE MCTrackSources ---------------------------
(* Instances of TrackSources for TLC. *)
EXTENDS TrackSources

FewWindows == {<<0, 2>>, <<1, 1>>, <<1, 2>>, <<2, 3>>}
=============================================================================
