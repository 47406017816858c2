CONSTANTS
    Targets = 2
    Polls = 2
    Sub = {1, 2, 3}
    Timeout = 2
    Percentage = 34
    LastMinute = 3
CHECK_DEADLOCK FALSE
SPECIFICATION MCSpec
INVARIANTS
    PrintedIsMeasured
    OkMeansDone
    FuzzyIsThin
PROPERTIES
    PlayEnds
    CancelledOnlyWhenStuck
    JobIsGivenUp
