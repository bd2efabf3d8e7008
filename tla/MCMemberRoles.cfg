SPECIFICATION Spec
CONSTANTS
    Role = {r1, r2}
    Jailer = {j1}
    Granter = {g1}
    TempRoleBatch = 1
    MaxRows = 2
    MaxTime = 1
    MaxFaults = 1
    MaxMoves = 2
SYMMETRY AnyRole
INVARIANTS TypeOK RolesSurvive JailHasBackup TempRoleEnds
PROPERTIES RefinesDeadlineJobs
\* The bot may idle, with the clock and the rows at their bounds.
CHECK_DEADLOCK FALSE
