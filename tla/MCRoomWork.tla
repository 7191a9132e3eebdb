----------------------------- MODULE MCRoomWork -----------------------------
(* The room under one of two workloads: users who fill, edit and play the    *)
(* queue, or radio commands next to one requested track.  Queues that cannot *)
(* be read are met in the first one.                                         *)
EXTENDS MCRoom, TLC

VARIABLE workload

EntriesOf == [queue |-> {a1, a2, a3, a4}, radio |-> {a1, r1, p1}]
PoliciesOf == [queue |-> MCPolicies, radio |-> MCTwo]
MCAllPolicies == MCPolicies \cup MCTwo

Within ==
  /\ added' \subseteq EntriesOf[workload]
  /\ policy' \in PoliciesOf[workload]
  /\ workload = "queue" => sourceSeq' = 0
  /\ workload = "radio" => loaded'

WorkSpec ==
  /\ Init /\ workload \in DOMAIN EntriesOf /\ policy \in PoliciesOf[workload]
  /\ [][Next /\ Within /\ UNCHANGED workload]_<<vars, workload>>

\* Two requested tracks that no definition tells apart.
Alike == Permutations({a2, a4})
=============================================================================
