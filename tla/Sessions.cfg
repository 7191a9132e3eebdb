SPECIFICATION Spec
CONSTANTS
  Requests = {r1, r2}
  Logins = {l1, l2}
  Actors = {a1}
  Batches = {{l1, l2}, {a1}}
  SessionTTL = 3
  ActorTTL = 2
  PersistLag = 1
  MaxTime = 5
  MaxCredentials = 2
  MaxCrashes = 1
  MaxFaults = 1
SYMMETRY Symmetry
CHECK_DEADLOCK FALSE
INVARIANTS EndedIsGone SlidingSession GuestsStayGuests
