SPECIFICATION FairSpec
CONSTANTS
  Channels = {"c1", "c2"}
  Troubles = {"silent", "closed", "error"}
  MaxTunes = 2
INVARIANTS
  ReadyIsCurrent
  InfosAreCurrent
  ValuesAreRead
PROPERTIES
  GetsReady
  LossIsAnnounced
CHECK_DEADLOCK FALSE
