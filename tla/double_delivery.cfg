CONSTANTS
    a = a
    b = b
    c = c
    Item <- MCItem
    Demand <- MCDemand
    Units = 3
    Marked = {}
    Faults = {"redelivery"}
    MaxFailures = 1
SPECIFICATION Spec
INVARIANTS Idempotent
\* When no item is waiting for its answer nothing is left to do.
CHECK_DEADLOCK FALSE
