SPECIFICATION FairSpec
CONSTANTS
  Requests = {"r1", "r2"}
  NoRequest = ""
  Nodes = {"n1"}
  Conditions = {}
  NodeOf <- OnOneNode
  CheckOf <- CheckPerSignal
  Want <- AllRestart
  Order <- ByName
  ControlPlane = {}
  DryRuns = {FALSE}
  ReleaseTries = 2
  Modes = {"ExternalRemediationRequest"}
  Coverages <- Templates
  Fallbacks = {"Report"}
  ClusterStates = {"ready"}
  Lag = {"requests", "nodes"}
  Rejected = {}
  Lost = {"answer", "release"}
  Disturbances = {"overlap", "look", "close"}
  Inherited = {}
  MaxBoot = 3
  MaxCrashes = 1
PROPERTIES
  RequestsSettle
  LeftoverMarksGo
