SPECIFICATION Spec
CONSTANTS
    s1 = s1  s2 = s2  s3 = s3  f1 = f1  f2 = f2  r1 = r1  r2 = r2  r3 = r3
    Server = {s1, s2, s3}
    File = {f1, f2}
    Request = {r1, r2}
    Write = {}
    Alive = {s1, s2, s3}
    FileOf <- OwnFile
    ServedBy <- OnePrimary
    CanCrash = {}
    MaxCrashes = 0
    PersistFails = {}
    FullSync = FALSE
INVARIANTS PrimaryIndexIsPosition
CHECK_DEADLOCK FALSE
