SPECIFICATION WorkSpec
SYMMETRY Alike
CONSTANTS
  a1 = a1  a2 = a2  a3 = a3  a4 = a4  r1 = r1  r2 = r2  p1 = p1
  alice = alice  dj = dj  None = None
  Entries = {a1, a2, a3, a4, r1, p1}
  Users = {alice}
  Radio = dj
  Owner <- MCOwner
  RefOf <- MCRefOf
  Poison <- MCPoison
  KeysOf <- MCKeysOf
  Policies <- MCAllPolicies
  DefaultMaxQueue = 3
  BatchSize = 2
  LowWater = 1
  DropCap = 2
  MaxAdd = 2
  MaxPlays = 2
  StoreFails = TRUE
  LoadFails = TRUE
INVARIANTS DurableQueue EntriesUnique HistoryOnce EndOfCurrent AnsweredOnce LastCommandWins
PROPERTIES QueueBounded EndKept
