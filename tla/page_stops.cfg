CONSTANTS
    Step = {1, 2, 3}
    Stage <- StageOfRows
    AskStage = 0
    Compensatable = {1, 2, 3}
    MaxFailures = 0
SPECIFICATION FairSpec
PROPERTIES ReleaseIsWatched
\* A page that shows a settled booking has nothing left to do.
CHECK_DEADLOCK FALSE
