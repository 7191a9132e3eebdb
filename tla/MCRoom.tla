------------------------------- MODULE MCRoom -------------------------------
(* Instances of Room for TLC. *)
EXTENDS Room

CONSTANTS a1, a2, a3, a4, r1, r2, p1, alice, dj

\* Requested tracks a1 to a4 and radio tracks r1, r2, p1.  a1 and r1 are the
\* same track, and p1 and a3 have no duration.
MCOwner == [e \in Entries |-> IF e \in {a1, a2, a3, a4} THEN alice ELSE dj]
MCRefOf == [e \in Entries |-> IF e \in {a1, r1} THEN "x" ELSE "y"]
MCPoison == Entries \cap {p1, a3}
MCKeysOf == [u \in {alice} |-> {"guest", "requester"}]
NoLimits == [k \in {} |-> 0]

\* A policy that grants alice two pending entries (the larger of two limits),
\* and a tighter one that may replace it while entries are pending.
MCPolicies == {[maxQueue |-> 2, limits |-> [k \in {"guest", "requester"} |-> IF k = "guest" THEN 1 ELSE 2]],
               [maxQueue |-> 1, limits |-> [k \in {"guest"} |-> 1]]}
MCWide == {[maxQueue |-> 0, limits |-> NoLimits]}
MCTwo == {[maxQueue |-> 2, limits |-> NoLimits]}
=============================================================================
