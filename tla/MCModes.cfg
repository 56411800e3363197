SPECIFICATION Spec
CONSTANTS
  Requests = {"r2"}
  NoRequest = ""
  Nodes = {"n1"}
  Conditions = {"c1"}
  NodeOf <- OnOneNode
  CheckOf <- CheckPerSignal
  Want <- ThenReplace
  Order <- ByName
  ControlPlane = {}
  DryRuns = {FALSE, TRUE}
  ReleaseTries = 2
  Modes = {"ExternalRemediationRequest", "ReportOnly", "NodeCondition"}
  Coverages <- Templates
  Fallbacks = {"Report"}
  ClusterStates = {"ready", "paused"}
  Lag = {}
  Rejected = {"read", "release"}
  Lost = {}
  Disturbances = {"faults", "optOut", "pause"}
  Inherited = {"Restart"}
  MaxBoot = 2
  MaxCrashes = 0
INVARIANTS
  TypeOK
  HoldInv
PROPERTIES
  FaultHoldsMark
  ReplacementIsFinal
  DryRunWritesNothing
