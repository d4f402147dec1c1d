CONSTANTS
    a = a
    b = b
    c = c
    Item <- MCItem
    Demand <- MCDemand
    Units = 3
    Marked = {a}
    Faults = {"redelivery", "giveup", "loss", "crash"}
    MaxFailures = 2
SPECIFICATION Spec
INVARIANTS TypeOK NoOversell SuccessIsHeld InventoryMatchesRows MarkedItemsFail
\* When no item is waiting for its answer nothing is left to do.
CHECK_DEADLOCK FALSE
