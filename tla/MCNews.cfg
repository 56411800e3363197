SPECIFICATION Spec
CONSTANTS
  Requests = {"r1", "r2"}
  Conditions = {"c1"}
  Conclusions = {"paused", "unavailable"}
  Modes = {"ExternalRemediationRequest", "NodeCondition"}
  ClusterStates = {"ready", "paused", "gone"}
  Settings <- MCSettings
  MaxCrashes = 1
INVARIANTS
  NewsInv
PROPERTIES
  ToldOnce
  ConclusionsTold
