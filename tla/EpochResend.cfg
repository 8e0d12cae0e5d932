CONSTANTS
    Actions = {"mine", "drop", "decide"}
    Kind <- Kinds
    MaxEpochs = 2
    MaxStrays = 0
SPECIFICATION RconSpec
INVARIANT ResentInEpoch
CHECK_DEADLOCK FALSE
