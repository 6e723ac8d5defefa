SPECIFICATION Spec
CONSTANTS
  Channels <- MCChannels
  Groups = {g1}
  Forcers = {f1, f2}
  Stoppers = {s1, s2}
  CacheEnabled = TRUE
  Day = 3
  StartTime = 0
  IntervalDay = 1
  Late = 2
  RetryAfter = 1
  Looks = 1
  Troubles = {"no_tuner", "not_tuned", "no_service", "no_channels", "crash"}
  MaxTime = 2
  MaxAsks = 2
SYMMETRY Alike
INVARIANTS
  LeavesNothing
  StopNotLost
  BusyHasEnd
  CallersNotStuck
CHECK_DEADLOCK FALSE
