CONSTANTS
  Callers = {p1, p2}
  Names = {f}
  Revisions = {1, 2}
  Attached <- MCAttached
  Size = 1
  Entries = {e1, e2, e3}
  None = None
  MaxExpired = 1
SPECIFICATION LiveReaderSpec
INVARIANTS
  SingleFlight
  NoFailureCached
PROPERTIES
  GetReturns
  RenewedOnlyWhenOld
