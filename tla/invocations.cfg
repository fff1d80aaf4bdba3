CONSTANTS
  Workers = {w1, w2}
  Handlers = {}
  Topic <- TwoMessages
  Requests = {}
  Blocking = {"k2"}
  Stored = {"k1"}
  Namespace <- OneNamespace
  Namespaces = {"n1"}
  Malformed = {}
  Oversize = {}
  MaxCrashes = 1
SYMMETRY WorkerSymmetry
SPECIFICATION Spec
CHECK_DEADLOCK FALSE
INVARIANTS
  NoMessageForgotten
  RerunOnlyIfRewound
  AnswerHonest
  RecordFinal
  KeptContainersSound
  OffsetCurrent
