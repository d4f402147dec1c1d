CONSTANTS
    Initial <- Edited
    Editions <- Edited
    MaxItems = 1
    MaxFollowed = 7
    MaxRestarts = 1
SPECIFICATION Spec
PROPERTIES EditsAffectNewBookingsOnly
\* A booking that is final, stranded or not followed has nothing left to do.
CHECK_DEADLOCK FALSE
