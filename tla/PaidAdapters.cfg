SPECIFICATION FairPaidSpec
CONSTANT
    MaxPolls <- MCMaxPolls
INVARIANTS
    PaidTypeOK
    ResultOfFinishedJob
    FailureIsNoAnswer
PROPERTIES
    FinalStateEndsPolling
    CallEnds
CHECK_DEADLOCK FALSE
