CONSTANTS
  IPs = {i1, i2}
  PauseRetries = 1
  MaxActivations = 2
  MaxLines = 1
  Limit = 1
SPECIFICATION MCSpec
CHECK_DEADLOCK FALSE
INVARIANTS
  NotPausedInUse
  HandshakePaired
  IPNotReused
  LogsExact
  NoSendOnClosed
PROPERTIES
  UnpauseReturns
  NeverStuck
