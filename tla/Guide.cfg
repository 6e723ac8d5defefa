SPECIFICATION FairSpec
CHECK_DEADLOCK FALSE
CONSTANTS
  ReserveMax = 2
  ResultMax = 1
  Services <- MCServices
  NumSections = 2
  Versions = 3
  Schedule <- MCSchedule
  Carries <- MCCarries
  Wanted <- MCWanted
  Asked <- MCAsked
  MaxFound = 2
  Troubles = {"cut", "not_tuned", "missed", "no_tuner", "no_name", "crash"}
  MaxTime = 2
  MaxRuns = 1
  MaxChanges = 1
  MaxAsks = 1
  MaxScans = 1
INVARIANTS
  GuideIsWhole
  RunHasItsName
PROPERTIES
  SearchRenews
  AddIsAnswered
