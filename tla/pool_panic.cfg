CONSTANTS
  Callers = {p1}
  Keys <- SmallKeys
  PrewarmKeys <- OneKind
  IPs = {i1, i2}
  NoKey = NoKey
  NoCtr = NoCtr
  PrewarmKey <- MCPrewarmKey
  Memory <- MCMemory
  Stemcells <- OneStemcell
  MaxMemory = 2
  DeleteBuffer = 1
  FirewallAnswers <- NoRules
  Reaping = FALSE
  ShuttingDown = TRUE
  MaxFaults = 1
SPECIFICATION Spec
SYMMETRY Symmetry
CHECK_DEADLOCK FALSE
INVARIANTS
  NoSendOnClosed
