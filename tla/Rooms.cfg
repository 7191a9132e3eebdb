SPECIFICATION EntrySpec
CONSTANTS
  Requests = {r1, r2}
  Clients = {c1, c2}
  Trusted = {c1}
  Passwords = {pw1, pw2}
  Periods = {1, 2}
  Policies = {strict}
  NoOne = none
  Omit = omit
  Empty = empty
  Wrong = wrong
  MinPeriod = 2
  DefaultPeriod = 3
  Grace = 1
  Limit = 2
  Window = 2
  Scenarios = {{"create", "update", "delete", "policy", "password"}, {"update", "password", "trusted"}, {"update", "mode", "period"}, {"create", "delete", "password", "join"}, {"update", "mode", "password", "join"}, {"update", "trusted", "mode", "join"}, {"trusted", "password", "join", "grant"}, {"mode", "period", "update", "time", "read"}, {"mode", "time", "read", "join"}, {"password", "join", "time"}}
  MaxTime = 4
  MaxRooms = 3
  MaxActors = 4
  MaxRequests = 4
  MaxJoins = 5
  MaxFaults = 1
  MaxCrashes = 1
SYMMETRY Symmetry
CHECK_DEADLOCK FALSE
INVARIANTS RoomHasItsActor AdmittedWereEntitled CodesLiveTheirPeriod
PROPERTIES OmittedKept
