CONSTANTS
  Names = {"n", "__OW_API_KEY"}
  KeyNames = {k, lost}
  Known = {k}
  OwnNames = {"__OW_DEADLINE"}
  APIKeyName = "__OW_API_KEY"
  Absent = Absent
  None = None
  Factor = 4
  Width = 256
  Quantum = 2
  MaxTicks = 2
  Memory = 2
  Calls <- AllCalls
  Configurations <- AllConfigurations
  Requests <- SomeRequests
SPECIFICATION Spec
CHECK_DEADLOCK FALSE
INVARIANTS
  PayloadExact
  ManifestsAsConfigured
  ActivationRendered
