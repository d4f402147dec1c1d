CONSTANTS
    Dispatch = {dispatch}
    Foreign = {command}
    Slot = {r1, r2}
    MaxRetries = 2
    MaxFailures = 2
SPECIFICATION FairSpec
INVARIANTS TypeOK AnsweredOrUnderWay RetriesAreBounded ArchivedIsAnswered OneAnswerPerFailure
PROPERTIES Drains EveryDispatchAnswered
\* When every copy is consumed or archived nothing is left to do.
CHECK_DEADLOCK FALSE
