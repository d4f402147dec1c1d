CONSTANTS
    Step = {1, 2, 3}
    Stage <- StageOfRows
    AskStage = 0
    Compensatable = {1, 2, 3}
    MaxFailures = 1
SPECIFICATION FairSpec
INVARIANTS TypeOK ConfirmedIsComplete OfferIsSettled
PROPERTIES PollsToTheEnd
\* A page that shows a settled booking has nothing left to do.
CHECK_DEADLOCK FALSE
