CONSTANTS
    None = None
    StableTicks = 2
    MaxMutations = 1
    Ids = {1, 2}
    Loads <- MCLoads
    Actions = {"mine", "drop", "decide"}
    Kind <- Kinds
    MaxEpochs = 2
    MaxStrays = 1
    Jobs = {"j1", "j2"}
    MaxDrops = 2
    Places = {"a", "b", "stone"}
    Type <- Blocks
    Natural = {"a"}
    Protected = {}
    Level <- Risks
    Contexts = {"direct", "travel"}
    Region <- Around
    MaxUnique <- One
    TTL = 1
    MaxNow = 1
    MaxConf = 1
    MaxChallenges = 2
SPECIFICATION BodiesSpec
CONSTRAINT OneTrouble
INVARIANTS NothingLeftBehind ActsForItsHolder EdgesTold AppliedOnce ToldIsTrue ConfirmedOnly EndsToldTruly
PROPERTIES StoppedIsQuiet ClientFreed
