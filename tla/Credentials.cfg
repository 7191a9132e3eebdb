SPECIFICATION FirstSpec
CONSTANTS
  a1 = a1
  x = x
  Admins = {a1, a2}
  Accounts = {x, y}
  Kinds <- AllKinds
  MaxGen = 3
  MaxSets = 2
  MaxRestarts = 1
  MaxOutages = 1
  MaxFaults = 1
  MaxWrites = 1
  None = None
CHECK_DEADLOCK FALSE
INVARIANTS DelegationStands
PROPERTIES StatusSettles
