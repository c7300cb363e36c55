CONSTANTS
  MaxAttempts = 4
  MaxHelpers = 2
  NonPdGrace = 3
  EmptySvidGrace = 2
  StaleSvidGrace = 2
  DataWaits = 2
  CompletionWaits = 2
  MaxAttaches = 2
SPECIFICATION Spec
INVARIANTS NoHelperOnDataLink
CHECK_DEADLOCK FALSE
