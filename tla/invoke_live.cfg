CONSTANTS
  Workers = {w1}
  Handlers = {h1}
  Topic <- OneMessage
  Requests = {"h", "big", "bad"}
  Blocking = {"k1"}
  Stored = {}
  Namespace <- OneNamespace
  Namespaces = {}
  Malformed = {"bad"}
  Oversize = {"big"}
  MaxCrashes = 0
SPECIFICATION FairSpec
CHECK_DEADLOCK FALSE
INVARIANTS
  NothingInFlight
PROPERTIES
  ShutdownEnds
  EventuallyAnswered
