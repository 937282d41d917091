SPECIFICATION Spec
CONSTANTS
    None = None
    Missing = Missing
    Empty = Empty
    Values = {v1, v2}
    Wildcard = "*"
    Refs <- MCRefs
    Requests <- MCRequests
    Authorities <- MCAuthorities
    Assurance = "development"
    DefaultTTL = 1
    MaxClock = 1
    MaxGrants = 2
    MaxLives = 2
INVARIANTS ReleaseIsCovered DeadNeverRedeems
