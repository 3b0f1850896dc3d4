SPECIFICATION Spec
CONSTANTS
    w = w
    h = h
    Files = {w, h}
    Filelist = filelist
    HeadersOf <- MCHeadersOf
    MaxChanges = 3
INVARIANT BatchReachesBuffers
