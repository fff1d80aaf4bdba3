CONSTANTS
  Callers = {p1, p2}
  Keys <- SmallKeys
  PrewarmKeys <- OneKind
  IPs = {i1, i2}
  NoKey = NoKey
  NoCtr = NoCtr
  PrewarmKey <- MCPrewarmKey
  Memory <- MCMemory
  Stemcells <- OneStemcell
  MaxMemory = 1
  DeleteBuffer = 1
  FirewallAnswers <- NoRules
  Reaping = TRUE
  ShuttingDown = TRUE
  MaxFaults = 1
SPECIFICATION FairSpec
CHECK_DEADLOCK FALSE
INVARIANTS
  NoLostPoke
PROPERTIES
  ShutdownEnds
  GetReturns
  PrewarmSettles
