CONSTANTS
    Initial <- FiledOrEdited
    Editions <- Edited
    MaxItems = 3
    MaxFollowed = 7
    MaxRestarts = 1
SPECIFICATION Spec
INVARIANTS OneRowPerStepAndItem RowsAsExpected IndexFollowsStages StrandedOnlyByEdits EndsAsGenerated
PROPERTIES HarmlessEditsChangeNothing
\* A booking that is final, stranded or not followed has nothing left to do.
CHECK_DEADLOCK FALSE
