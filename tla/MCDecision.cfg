SPECIFICATION Spec
CHECK_DEADLOCK FALSE
CONSTANTS
  Names <- SomeNames
  Overrides <- SomeOverrides
  Lists <- ShortLists
  NoAction = "no action"
INVARIANTS
  MostDisruptiveWins
  FirstKnownIsNamed
  TruncationNeverEscalates
