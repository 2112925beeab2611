SPECIFICATION Spec
CONSTANTS
    Outputs <- MCPartial
    MaxJob = 0
INVARIANTS FinishedCommandIsAnswered
CHECK_DEADLOCK FALSE
