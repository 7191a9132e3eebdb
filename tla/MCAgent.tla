------------------------------- MODULE MCAgent -------------------------------
(* Instances of Agent for TLC. *)
EXTENDS Agent

\* The last two entries are of one track.
Tracks == <<4, 2, 2>>
TrackRefs == <<1, 2, 2>>
Targets == {9}
=============================================================================
