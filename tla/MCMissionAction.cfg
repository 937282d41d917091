SPECIFICATION Spec
CONSTANTS
    ArtifactIds = {"a@1", "b@1", "c@1"}
    InitialBacking <- MCBacking
    ChangingIds = {"a@1"}
    Tenancies <- MCTenancies
    PlanShapes <- MCShapes
    Budget = 3
    MaxItems = 3
    MaxViews = 2
    MaxHash = 1
    MissionTenancy <- MCTenancy
    Capabilities <- MCCapabilities
    Situations <- MCSituations
    Constraints <- MCConstraints
    Places <- MCPlaces
    Backends <- MCBackends
    Profiles = {"isolated", "hardened"}
    Verifiers <- MCVerifiers
    Requirement <- MCRequirement
    Scorecard <- MCScorecard
INVARIANTS NothingEscapes SameViewSameBytes NoGateOverridden RanAsChosen RanWhereAllowed PromotedTrulyHolds
CONSTRAINT AThirdOfOne
CHECK_DEADLOCK FALSE
