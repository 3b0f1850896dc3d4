SPECIFICATION Spec
CONSTANTS
    URIs = {w}
    NoURI = NoURI
    Tasks = {t1}
    Handler = handler
    MaxEdits = 3
    MaxWrites = 0
INVARIANT OpenBufferAuthoritative
CHECK_DEADLOCK FALSE
