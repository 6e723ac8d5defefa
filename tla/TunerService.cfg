SPECIFICATION FairSpec
CONSTANTS
  c1 = c1
  c2 = c2
  rec = rec
  Clients = {c1, c2}
  Modules = {rec}
  ModuleOf <- SameModule
  Scanners = {c2}
  NumTuners = 2
  Retries = 1
  Polls = 1
  StopMayFail = {0}
INVARIANTS
  TableIsTrue
  ExclusiveUse
  HolderIsOwner
PROPERTIES
  PoolSpec
  TuneIsAnswered
CHECK_DEADLOCK FALSE
