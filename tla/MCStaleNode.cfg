SPECIFICATION Spec
CONSTANTS
  Requests = {"r1"}
  NoRequest = ""
  Nodes = {"n1"}
  Conditions = {}
  NodeOf <- OnOneNode
  CheckOf <- CheckPerSignal
  Want <- AllRestart
  Order <- ByName
  ControlPlane = {}
  DryRuns = {FALSE}
  ReleaseTries = 2
  Modes = {"ExternalRemediationRequest"}
  Coverages <- Templates
  Fallbacks = {"Report"}
  ClusterStates = {"ready"}
  Lag = {"nodes"}
  Rejected = {}
  Lost = {}
  Disturbances = {"restart"}
  Inherited = {}
  MaxBoot = 2
  MaxCrashes = 0
INVARIANT RestartedForReal
