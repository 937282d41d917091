SPECIFICATION Spec
CONSTANTS
    Permissions = {"read", "write", "*"}
    Wildcard = "*"
    Constraints = {"no_egress"}
    Principals <- MCPrincipals
    Costs = {0, 1}
    NoLimit = NoLimit
    Expiries = {"2026-09-01T01:00:00Z", "2026-09-01T02:00:00Z"}
    Never = Never
    TextRank <- MCTextRank
    Instant <- MCInstant
    Terms <- MCTerms
    Keep = Keep
    MaxChain = 3
    MaxClock = 2
INVARIANTS NothingWidens NarrowedVerifies UseIsWithinEveryAuthority
CHECK_DEADLOCK FALSE
