SPECIFICATION Spec
CONSTANTS
  Devices = {"gpuA", "gpuA2", "gpuB", "nic"}
  DriverOf <- MCDriverOf
  NameOf <- MCNameOf
  Names = {"a", "b", "n"}
  Drivers = {"gpu"}
  Pods = {1, 2, 3, 4, 5}
  Claims = {0, 3, 4, 5}
  PodClaims <- MCPodClaims
  Settings <- OneSetting
PROPERTIES
  RequestsConclude
  StatusFollows
CHECK_DEADLOCK FALSE
