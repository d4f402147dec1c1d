CONSTANTS
    publisher = publisher
    c1 = c1
    w1 = w1
    Flights = 1
    Hotels = 1
    Step = {1, 2, 3, 4, 5, 6, 7}
    Stage <- StageTwo
    AskStage = 2
    Compensatable = {4, 5, 6}
    Publisher = publisher
    Client = {c1}
    Sweep = {w1}
    Faults = {}
    MaxFailures = 0
SPECIFICATION Spec
INVARIANTS RejectedIsUndone
\* The saga stops when its booking is final and every handler returned.
CHECK_DEADLOCK FALSE
