SPECIFICATION Spec
CONSTANTS
    MaxInvocations = 1
    Loads <- MCLoads
CHECK_DEADLOCK FALSE
INVARIANT SlotOwned
PROPERTIES NoActionWhileDead ToldIsOver PlanHearsBack LifeTurns
