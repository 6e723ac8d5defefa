SPECIFICATION FairSpec
CONSTANTS
  Users = {u1}
  EventTries = 1
  Troubles = {"child_dies", "stream_dries", "auto_stop", "other_client", "pat_lost"}
  MaxAsks = 2
INVARIANTS
  ViewingIsWhole
  EndIsClean
PROPERTIES
  EndsAndAnswers
CHECK_DEADLOCK FALSE
