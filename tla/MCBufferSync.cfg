SPECIFICATION Spec
CONSTANTS
    URIs = {w}
    NoURI = NoURI
    Tasks = {t1, t2}
    Handler = handler
    MaxEdits = 3
    MaxWrites = 2
INVARIANTS TypeOK OpenOccurrences ClosedOccurrences
PROPERTY JobsFinish
CHECK_DEADLOCK FALSE
