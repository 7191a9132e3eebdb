SPECIFICATION FairSpec
CONSTANTS
  r1 = r1
  r2 = r2
  Requests = {q1, q2}
  Remotes = {r1, r2}
  Content <- MCContent
  Tracks = {"t4"}
  None = None
  Scenarios = {{"bind", "sync", "change", "fault"}, {"bind", "periodic", "change"}, {"bind", "detach", "add", "remove", "crash"}, {"create", "add", "remove", "move", "delete", "fault"}, {"import", "move", "delete", "fault"}, {"bind", "sync", "detach", "move"}, {"create", "cover", "uncover", "delete", "crash", "fault"}, {"bind", "sync", "delete", "crash"}, {"bind", "detach", "cover", "uncover", "fault"}, {"bind", "periodic", "fault", "crash"}}
  MaxPlaylists = 2
  MaxItems = 3
  MaxRequests = 4
  MaxFaults = 1
  MaxCrashes = 1
CHECK_DEADLOCK FALSE
INVARIANTS Contiguous RowsAreTrue
PROPERTY Converges
