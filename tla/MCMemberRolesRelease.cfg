SPECIFICATION Spec
CONSTANTS
    Role = {r1, r2}
    Jailer = {j1}
    Granter = {g1}
    TempRoleBatch = 1
    MaxRows = 1
    MaxTime = 1
    MaxFaults = 0
    MaxMoves = 1
INVARIANTS UnjailReleases
CHECK_DEADLOCK FALSE
