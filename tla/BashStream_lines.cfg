SPECIFICATION Spec
CONSTANTS
    Outputs <- MCLines
    MaxJob = 1
INVARIANTS OutputIsExact StdoutBeginsAtStart FinishedCommandIsAnswered
CHECK_DEADLOCK FALSE
