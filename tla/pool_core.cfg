CONSTANTS
  Callers = {p1, p2}
  Keys <- MixedKeys
  PrewarmKeys <- Kinds
  IPs = {i1, i2, i3}
  NoKey = NoKey
  NoCtr = NoCtr
  PrewarmKey <- MCPrewarmKey
  Memory <- MCMemory
  Stemcells <- OneStemcell
  MaxMemory = 2
  DeleteBuffer = 1
  FirewallAnswers <- RulesForA
  Reaping = TRUE
  ShuttingDown = FALSE
  MaxFaults = 1
SPECIFICATION Spec
SYMMETRY Symmetry
INVARIANTS
  AccountsExact
  SpaceCanBeMade
  SoleOwner
  PauseMatched
  MemoryBound
  RulesBlockIP
PROPERTIES
  ImplementsLease
