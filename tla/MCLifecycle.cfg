SPECIFICATION Spec
CHECK_DEADLOCK FALSE
CONSTANTS
    a = a
    b = b
    Files = {a, b}
    View <- MCView
    MaxRuns = 2
    MaxEdition = 3
    MaxEdits = 1
INVARIANTS OneLiveRun SettledIsReconfigured
PROPERTY ShutdownEndsRuns
