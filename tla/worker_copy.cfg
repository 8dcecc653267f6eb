SPECIFICATION WorkersSpec
CONSTANTS
    c1 = c1  c2 = c2  in1 = in1  in2 = in2  out = out
    Client = {c1, c2}
    ProgramOf <- MCProgramOf
    InputOf <- MCInputOf
    File = {in1, in2, out}
    Input = {in1, in2}
    Output = out
    Existing = {in1, in2}
    Listing <- MCListing
    Number <- MCNumber
    HomeOf <- MCHomeOf
    WordBits = 11
    maxCacheEntries = 2
    MaxOpenFiles = 7
    MaxPrimaries = 1
    MaxCalls = 11
    MaxFaults = 0
    Careful = FALSE
    None = None
INVARIANT CopyIsCurrent
CHECK_DEADLOCK FALSE
