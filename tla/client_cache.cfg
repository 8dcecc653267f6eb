SPECIFICATION Spec
CONSTANTS
    c1 = c1  c2 = c2  f1 = f1  f2 = f2  n1 = n1  n2 = n2
    Client = {c1, c2}
    File = {f1, f2}
    Input = {}
    Existing = {f1, f2}
    Listing <- NoListing
    Number = {n1, n2}
    HomeOf <- MCHomeOf
    maxCacheEntries = 1
    MaxOpenFiles = 2
    MaxPrimaries = 2
    MaxCalls = 3
    MaxFaults = 1
    Careful = TRUE
    None = None
SYMMETRY Symmetry
INVARIANTS TypeOK CacheListed UnsavedKept NoDirtyRead NumbersStayHome OpenIsRegistered
CHECK_DEADLOCK FALSE
