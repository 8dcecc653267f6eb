SPECIFICATION ClusterSpec
CONSTANTS
    f1 = f1  r1 = r1  r2 = r2
    Server <- ThreeServers
    File = {f1}
    Request = {r1, r2}
    Write = {}
    Alive = {}
    FileOf <- OneFile
    ServedBy <- OneEach
    CanCrash = {}
    MaxCrashes = 0
    PersistFails = {}
    FullSync = FALSE
    Flagged <- AsShipped
    MaxLate = 0
    Timely = TRUE
INVARIANTS AckedDurable
CHECK_DEADLOCK FALSE
