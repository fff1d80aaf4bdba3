CONSTANTS
  Callers = {p1, p2}
  Keys <- SmallKeys
  PrewarmKeys <- OneKind
  IPs = {i1, i2, i3}
  NoKey = NoKey
  NoCtr = NoCtr
  PrewarmKey <- MCPrewarmKey
  Memory <- MCMemory
  Stemcells <- NoStemcells
  MaxMemory = 2
  DeleteBuffer = 1
  FirewallAnswers <- NoRules
  Reaping = FALSE
  ShuttingDown = FALSE
  MaxFaults = 0
SPECIFICATION Spec
SYMMETRY Symmetry
INVARIANTS
  MemoryNotExceeded
