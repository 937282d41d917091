SPECIFICATION Spec
CONSTANTS
    Items <- MCItems
    Lanes <- MCLanes
    Plans <- MCPlans
    Assertions = {"a1", "a2"}
    MaxEdits = 1
    None = "none"
INVARIANTS NeverStuck PassIsEarned
PROPERTY EveryItemEnds
CHECK_DEADLOCK FALSE
