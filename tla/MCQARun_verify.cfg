SPECIFICATION Spec
CONSTANTS
    Specs <- MCSpecs
    Payloads <- MCPayloads
    CandidateLimit = 2
    k1 = k1
    k2 = k2
    Keys = {k1, k2}
    Endings <- MCEndings
    Claims <- MCClaims
    MaxVersions = 2
    Assertions = {"a1", "a2"}
INVARIANT WrittenVerifies
CONSTRAINT Followed
SYMMETRY KeySymmetry
CHECK_DEADLOCK FALSE
