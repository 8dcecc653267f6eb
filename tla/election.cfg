SPECIFICATION FairSpec
CONSTANTS
    Server <- ThreeServers
    Flagged <- AnyMap
    MaxCrashes = 1
    MaxLate = 0
    Timely = TRUE
INVARIANTS TypeOK FollowsLower LowestServes
PROPERTIES Agreement
CHECK_DEADLOCK TRUE
