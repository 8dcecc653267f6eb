SPECIFICATION Spec
CONSTANTS
    s1 = s1  s2 = s2  s3 = s3  f1 = f1  f2 = f2  r1 = r1  r2 = r2  r3 = r3
    Server = {s1, s2, s3}
    File = {f1}
    Request = {r1, r3}
    Write = {r3}
    Alive = {s1, s2, s3}
    FileOf <- OneFile
    ServedBy <- OnePrimary
    CanCrash = {s1, s2, s3}
    MaxCrashes = 3
    PersistFails = {}
    FullSync = FALSE
SYMMETRY Symmetry
INVARIANTS TypeOK AckedDurable OneEntryPerIndex
CHECK_DEADLOCK FALSE
