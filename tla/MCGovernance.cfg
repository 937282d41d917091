SPECIFICATION FairGovSpec
CONSTANTS
    None = "none"
    Planned <- MCPlanned
    Events <- MCEvents
    MaxExternalRecords = 1
    MaxFanout = 1
    MaxEvents = 3
    MaxHistory = 4
INVARIANTS NeverHalfContained DeniedNeverRuns
PROPERTIES ContractHolds DeniedIsContained
