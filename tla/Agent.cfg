SPECIFICATION Spec
CONSTANTS
  Durations <- Tracks
  Refs <- TrackRefs
  Lead = 1
  ScrobbleCap = 3
  SeekTargets <- Targets
  MaxTime = 7
  MaxInbound = 2
  MaxTimers = 4
  Debounce = 2
  Threshold = 1
  Bias = 2
  Lags = {1}
  MaxHeard = 3
  MaxListen = 2
  MaxEvents = 1
  MaxSessions = 2
  MaxFaults = 1
  None = None
CHECK_DEADLOCK FALSE
INVARIANTS TimerMatchesTimeline NewestRendered SilentBeforeStart
PROPERTIES ScrobbleHeard
