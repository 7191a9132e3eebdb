SPECIFICATION Spec
CONSTANTS
  a = a
  b = b
  big = big
  Refs = {a, b, big}
  Readers = {c1, c2}
  Workloads <- MCWorkloads
  NoRef = NoRef
  Size <- MCSize
  MaxObjectBytes = 1
  MaxBytes = 1
  Attempts = 2
  MaxFaults = 2
SYMMETRY Symmetric
INVARIANTS OnlyWholeFiles CapacityRestored DisconnectsHarmless
