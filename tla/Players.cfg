SPECIFICATION Spec
CONSTANTS
  Conns = {c1, c2}
  Tasks = {t1, t2}
  Rooms = {r1, r2}
  None = None
  MaxKeys = 2
  MaxVolumes = 2
  MaxTasks = 2
SYMMETRY Symmetric
CHECK_DEADLOCK FALSE
INVARIANTS RegistryExact RevokedOffline PresentInRoom
