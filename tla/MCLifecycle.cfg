SPECIFICATION Spec
CONSTANTS
  Requests = {"r1", "r2"}
  NoRequest = ""
  Nodes = {"n1"}
  Conditions = {}
  NodeOf <- OnOneNode
  CheckOf <- CheckPerSignal
  Want <- ThenReplace
  Order <- ByName
  ControlPlane = {}
  DryRuns = {FALSE}
  ReleaseTries = 2
  Modes = {"ExternalRemediationRequest"}
  Coverages <- Changing
  Fallbacks = {"Report", "Replace"}
  ClusterStates = {"ready"}
  Lag = {}
  Rejected = {"read", "mark"}
  Lost = {"mark", "escalate", "answer"}
  Disturbances = {"overlap", "delete"}
  Inherited = {}
  MaxBoot = 2
  MaxCrashes = 1
INVARIANTS
  CreditInv
  DeclinedNotMarked
  DeclinedInv
  MarksInv
PROPERTIES
  ImplementsLifecycle
  ReplacementHoldsMark
