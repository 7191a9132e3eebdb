SPECIFICATION Spec
CONSTANTS
  Requests = {r1, r2}
  Bodies = {b1, b2}
  Owners = {p1}
  Scenarios = {{"codes", "rebind"}, {"rebind", "control"}, {"grant", "control"}, {"grant", "radio"}, {"add"}, {"grant", "remove"}}
  Subjects = {s1, s2}
  Principals = {p1, p2}
  NoOne = none
  CodeTTL = 1
  PendingTTL = 1
  CompleteTTL = 2
  MaxTime = 2
  MaxCodes = 2
  MaxWrites = 2
  MaxFaults = 2
  MaxCrashes = 1
SYMMETRY Symmetry
CHECK_DEADLOCK FALSE
INVARIANTS CodeServesOne RunsOnce OnlyEntitled
