SPECIFICATION Spec
CONSTANTS
    MaxInvocations = 1
    Loads <- ReplayLoads
CHECK_DEADLOCK FALSE
PROPERTY NoReplay
