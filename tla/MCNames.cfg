\* Two overlapping requests.
SPECIFICATION FairSpec
CONSTANTS
    Ids = {"i1", "i2"}
    RawNames <- SmallRawNames
    Transactions <- SmallTransactions
    Categories <- SmallCategories
    Windows <- SmallWindows
    Sessions = {1, 2}
INVARIANTS
    TablesSound
PROPERTIES
    ErrorOnlyWhenOverlapped
    AnswerTrue
    SyncEnds
