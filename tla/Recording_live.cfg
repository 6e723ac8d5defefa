SPECIFICATION FairSpec
CONSTANTS
  ReserveMax = 2
  ResultMax = 1
  Groups = {g1}
  Programs <- MCPrograms
  EpgTimes <- MCEpgTimes
  EventTries = 0
  Troubles = {"stream_dries", "other_client", "missed", "epg"}
  MaxTime = 4
  MaxAdds = 1
INVARIANTS
  DataIsWhole
PROPERTIES
  ReservesEnd
CHECK_DEADLOCK FALSE
