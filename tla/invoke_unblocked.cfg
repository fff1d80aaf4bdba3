CONSTANTS
  Workers = {w1, w2}
  Handlers = {}
  Topic <- TwoMessages
  Requests = {}
  Blocking = {"k2"}
  Stored = {"k1"}
  Namespace <- OneNamespace
  Namespaces = {"n1"}
  Malformed = {}
  Oversize = {}
  MaxCrashes = 0
SPECIFICATION Spec
CHECK_DEADLOCK FALSE
PROPERTIES
  StaysBlocked
