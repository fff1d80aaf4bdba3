CONSTANTS
  Address <- MCAddress
  ClusterNetwork <- InCluster
  ContainerSubnet <- OnNode
  LinkLocal <- Metadata
  Values <- MCValues
  Synced <- MCSynced
  Missing = Missing
  MaxChanges = 2
  MaxFaults = 1
  MaxDisturbed = 1
SPECIFICATION FairSpec
CHECK_DEADLOCK FALSE
INVARIANTS
  EnforcedWhenQuiet
  Idempotent
PROPERTIES
  EventuallyEnforced
