SPECIFICATION Spec
CHECK_DEADLOCK FALSE
CONSTANTS
    Dirs <- MCDirs
    Names <- MCNames
    Here = "here"
    Link <- MCLink
    Gone = Gone
    Editions <- MCEditions
    Configured <- MCConfigured
    MaxCalls = 3
INVARIANTS NoFileTwice ResultExact CapturedWhole
PROPERTY CallsReturn
