\* A ledger with commits between the SELECTs, and series of charges.
SPECIFICATION Spec
CONSTANTS
    Today <- SmallToday
    Scenarios <- SmallScenarios
    MaxCommits = 2
INVARIANTS
    AggregatesConserve
    SummaryAddsUp
    CompareAddsUp
    MonthsCovered
    PagesPartition
    RecurringRight
