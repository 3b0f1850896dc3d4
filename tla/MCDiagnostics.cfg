SPECIFICATION Spec
CONSTANTS
    URIs = {file, header, cmdline}
    FileURIs = {file, header}
    NoURI = NoURI
    Publishers = {p1, p2}
    Lists = {clean, bad}
    Clean = clean
    MaxScans = 3
INVARIANTS EditorShowsIndex NoRepeats
PROPERTY EventuallyShown
CHECK_DEADLOCK FALSE
