SPECIFICATION Spec
CONSTANTS
  Requests = {}
  NoRequest = ""
  Nodes = {"n1"}
  Conditions = {"c1", "c2"}
  NodeOf <- OnOneNode
  CheckOf <- CheckPerSignal
  Want <- ThenReplace
  Order <- ByName
  ControlPlane = {}
  DryRuns = {FALSE}
  ReleaseTries = 2
  Modes = {"NodeCondition"}
  Coverages <- Templates
  Fallbacks = {"Report"}
  ClusterStates = {"ready"}
  Lag = {"machines"}
  Rejected = {}
  Lost = {}
  Disturbances = {"faults"}
  Inherited = {}
  MaxBoot = 2
  MaxCrashes = 0
PROPERTY ReplacementIsFinal
