CONSTANTS
    publisher = publisher
    c1 = c1
    c2 = c2
    w1 = w1
    w2 = w2
    Flights = 1
    Hotels = 1
    Step = {1, 2, 3, 4, 5, 6, 7}
    Stage <- StageTwo
    AskStage = 2
    Compensatable = {4, 5, 6}
    Publisher = publisher
    Client = {c1, c2}
    Sweep = {w1, w2}
    Faults = {"redeliver"}
    MaxFailures = 1
SPECIFICATION SpecAskedOnce
SYMMETRY Symmetry
INVARIANTS RejectedIsUndone NeverStranded
\* The saga stops when its booking is final and every handler returned.
CHECK_DEADLOCK FALSE
