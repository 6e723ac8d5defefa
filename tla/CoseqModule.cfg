SPECIFICATION Spec
CONSTANTS
  Fibers = {f1, f2, f3}
  MaxReq = 2
INVARIANTS
  PendingIsSound
PROPERTY LockIsSound
CHECK_DEADLOCK FALSE
