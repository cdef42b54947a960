\* A check with two different messages that reports up to three times.
CONSTANTS
    Messages = {m1, m2}
    MaxReports = 3
SPECIFICATION Spec
INVARIANTS
    LineIsComplete
    LastVerdictCounts
PROPERTY Terminates
CHECK_DEADLOCK FALSE
