CONSTANTS
    Asked = 2
    MaxStrays = 0
    MaxPolls = 2
    MaxDepth = 18
    Wanted = {"wooden_pickaxe", "cobblestone", "raw_iron", "iron_pickaxe", "furnace"}
SPECIFICATION Spec
INVARIANT PlansCarryThrough
PROPERTIES CompositionIsReal WorkstationsComeBack CompositionsEnd
