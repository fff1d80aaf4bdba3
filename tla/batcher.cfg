CONSTANTS
  Activations <- Three
  Size <- MCSize
  Workers = 2
  FlushBytes = 2
  MaxAttempts = 1
SPECIFICATION FairSpec
CHECK_DEADLOCK FALSE
INVARIANTS
  Accounted
PROPERTIES
  ImplementsWriter
  EventuallyFlushed
