SPECIFICATION Spec
CONSTANTS
    w = w
    h = h
    Files = {w, h}
    Filelist = filelist
    HeadersOf <- MCHeadersOf
    MaxChanges = 3
INVARIANTS TypeOK FreshWhenSettled DeletedIsDropped HeaderEffects ViewFollowsFilelists
PROPERTY AlwaysSettles
