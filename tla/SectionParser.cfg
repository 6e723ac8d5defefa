SPECIFICATION Spec
CONSTANTS
  Sections = {"a", "b", "c", "x"}
  Length <- MCLength
  Started = {"a", "b", "c"}
  Kept = {"a", "b"}
  PoolSize = 10
  FifoNum = 2
  Payload = 5
  ShortHeader = 2
  LongHeader = 3
INVARIANTS
  PoolIsSound
  WholeIsDelivered
  ReportIsTrue
  PacketsGetThrough
  SectionsAreRead
CHECK_DEADLOCK FALSE
