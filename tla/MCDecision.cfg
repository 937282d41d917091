SPECIFICATION DecisionSpec
CONSTANTS
    Contents <- MCContents
    Providers <- MCProviders
    Needs <- MCNeeds
    Money = {0, 1, 2}
    Retryable = {"no_match"}
    Final = {"not_entitled", "budget_exceeded"}
    NoFailure = NoFailure
    MaxChanges = 1
INVARIANTS SealedIsClosed RoundTripIsLossless RestoredAsksTheSame EverySpendIsAccounted CheapestFirst CallsRespectTheNeed
CONSTRAINT OneStored
CHECK_DEADLOCK FALSE
