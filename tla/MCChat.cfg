\* Four runs in three stages; every run comes to an end, so the behaviour does too.
SPECIFICATION StagedSpec
CONSTANTS
    u1 = u1
    u2 = u2
    Users = {u1, u2}
    Questions <- OneQuestion
    Answers <- SmallAnswers
    Tools = {"search"}
    InvalidArgs = {}
    Providers = {"anthropic", "openai"}
    MaxIterations = 2
    HistoryLimit = 5
    MaxRuns = 4
CHECK_DEADLOCK FALSE
INVARIANTS
    ExchangeAtomic
    WireWellFormed
    StreamEqualsWhole
    FailureStatus
PROPERTIES
    FollowUpSeesAnswered
    RunEnds
