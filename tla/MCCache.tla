------------------------------- MODULE MCCache -------------------------------
(* Two workloads: a stream and a prefetch of tracks of which the cache can     *)
(* hold one, or streams and ranges of one of them and of the track big of two  *)
(* chunks, which exceeds the limit for an object.                              *)
EXTENDS Cache, TLC

CONSTANTS a, b, big

MCSize == [r \in Refs |-> IF r = big THEN 2 ELSE 1]
MCWorkloads == {{<<a, "stream">>, <<b, "prefetch">>},
                {<<a, "stream">>, <<a, "range">>, <<big, "range">>}}

Symmetric == Permutations(Readers)
=============================================================================
