SPECIFICATION Spec
CONSTANTS
  ReserveMax = 2
  ResultMax = 1
  Groups = {g1}
  Programs <- MCPrograms
  EpgTimes <- MCEpgTimes
  EventTries = 1
  Troubles = {"remove", "stop", "disk_low", "stream_dries", "other_client", "crash", "no_channel", "no_tune", "missed"}
  MaxTime = 3
  MaxAdds = 2
INVARIANTS
  TableIsKept
  RecordingIsWhole
  Accounted
  TunerAccounted
CHECK_DEADLOCK FALSE
