SPECIFICATION FairSpec
CONSTANTS
  ServiceFreqs = {1}
  ConsoleFreqs = {2}
  StopFibers = {s1, s2}
  StartPolls = 1
  ConsoleCommands = {"tune", "tune_stop"}
  EndsIn = {"tuned"}
  ThreadMayStall = TRUE
  LookMayMiss = TRUE
INVARIANT TunerIsUsable
PROPERTY ServiceIsAnswered
CHECK_DEADLOCK FALSE
