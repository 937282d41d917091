SPECIFICATION HistorySpec
CONSTANTS
    None = "none"
    Program <- INVESTIGATION_PROGRAM
    Handover <- MCHandover
    Altered <- MCAltered
    MaxEvents = 5
    Ids = {1, 2, 3}
    MaxSequence = 1
    MaxHistory = 3
    p1 = p1
    p2 = p2
    Openers <- MCOpeners
    Artifacts <- MCArtifacts
    Supplied <- MCNoStamps
    Remnants = {"none", "part", "all"}
    MaxClock = 2
    MaxRows = 2
    Reader = p1
INVARIANTS CompleteLedgerReplays ReadersAgree AcceptedIsLegalLife ParentsFirst RaisesOnlyOnCycle OnlyATornLineLosesRows FeedLosesOnlyTies
PROPERTIES ConclusionIsLearned OpenSeesEverythingAcknowledged AnswersStay LogIsAppendOnly
CHECK_DEADLOCK FALSE
