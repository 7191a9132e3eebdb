SPECIFICATION FairSpec
CONSTANTS
  Items = {x, y}
  Rooms = {lobby}
  NoRoom = NoRoom
  MaxRevision = 2
  MaxCalls = 3
  MaxSyncs = 2
CHECK_DEADLOCK FALSE
PROPERTIES ImplementsView Converges
