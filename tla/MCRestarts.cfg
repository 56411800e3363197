SPECIFICATION Spec
CONSTANTS
  Requests = {"r1", "r2"}
  NoRequest = ""
  Nodes = {"n1"}
  Conditions = {}
  NodeOf <- OnOneNode
  CheckOf <- OneCheck
  Want <- AllRestart
  Order <- ByName
  ControlPlane = {}
  DryRuns = {FALSE}
  ReleaseTries = 2
  Modes = {"ExternalRemediationRequest"}
  Coverages <- Templates
  Fallbacks = {"Report"}
  ClusterStates = {"ready"}
  Lag = {"machines", "requests"}
  Rejected = {"read", "mark", "release", "answer"}
  Lost = {"mark", "release", "answer"}
  Disturbances = {"restart", "mark", "unmark", "overlap"}
  Inherited = {}
  MaxBoot = 3
  MaxCrashes = 1
INVARIANTS
  RestartedForReal
  PassInv
  PendingInv
PROPERTIES
  PendingKeepsItsMark
  AnsweredNeverMarked
  ForeignMarkKept
