SPECIFICATION Spec
CONSTANTS
  Devices = {"gpuA", "gpuA2", "gpuB", "nic"}
  DriverOf <- MCDriverOf
  NameOf <- MCNameOf
  Names = {"a", "b", "n"}
  Drivers = {"gpu"}
  Pods = {1, 2, 3, 4, 5}
  Claims = {0, 3, 4, 5}
  PodClaims <- MCPodClaims
  Settings <- MCSettings
INVARIANTS
  TypeOK
  PassInv
  RulesInv
  HeldInv
  SettledInv
PROPERTIES
  DeletesAsAsked
  ReplacementAvoids
  OnlyHeldQuarantined
  SettledStays
  DryRunWritesNothing
CHECK_DEADLOCK FALSE
