\* Two exchanges of one tab, three requests, one of them a retry.
CONSTANTS
    Tools = {a}
    MaxRuns = 3
    MaxExchanges = 2
    MaxEvents = 3
    MaxInFlight = 2
SPECIFICATION FairSpec
INVARIANTS StreamingHasRequest ShownIsStored CaughtUp
PROPERTIES BubbleSettles
CONSTRAINT NeverOvertaken
CHECK_DEADLOCK FALSE
