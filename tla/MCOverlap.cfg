SPECIFICATION SpecOverlap
CONSTANTS
  Requests = {"r1", "r2"}
  NoRequest = ""
  Nodes = {"n1"}
  Conditions = {}
  NodeOf <- OnOneNode
  CheckOf <- CheckPerSignal
  Want <- AllRestart
  Order <- ByName
  ControlPlane = {}
  DryRuns = {FALSE}
  ReleaseTries = 2
  Modes = {"ExternalRemediationRequest"}
  Coverages <- Templates
  Fallbacks = {"Report"}
  ClusterStates = {"ready"}
  Lag = {"requests"}
  Rejected = {"read"}
  Lost = {"answer"}
  Disturbances = {"overlap", "mark", "restart"}
  Inherited = {}
  MaxBoot = 2
  MaxCrashes = 0
INVARIANT
  RestartedForReal OverlapInv
PROPERTY
  MarksSurviveOverlap
