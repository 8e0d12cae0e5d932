SPECIFICATION Spec
CONSTANTS
  MaxTasks = 2
  MaxCheckpoints = 2
  MaxEpochs = 3
  MaxIntents = 4
  Approaches = {1}
  Budgets = {1, 2}
  MaxAttempts = 2
  Loads <- SmallLoads
INVARIANTS RecoveryWithinLimit ApproachWithinFirstBudget OwnerKept
CHECK_DEADLOCK FALSE
