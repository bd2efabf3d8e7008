SPECIFICATION Spec
CONSTANTS
    Never = Never
    Proc = {p1, p2}
    MaxTime = 4
    MaxCalls = 4
    MaxFaults = 1
    Columns <- MCColumns
    Low <- MCLow
    High <- MCHigh
    Default <- MCDefault
    Values = {0, 9}
    StartRows <- MCStartRows
    NoRow = NoRow
    ConsoleDeeds = {"ban", "kick"}
    ConfirmTTL = 1
    LockThreshold = 2
    LockWindow = 2
    LockDuration = 2
    IdleEvict = 3
    User = {"root", "mod"}
    Seed = {"root"}
    NoSession = NoSession
    StartAdmins <- MCStartAdmins
INVARIANTS TypeOK ConfigKept ConfirmOnce LockHolds RevokedIsOut
SYMMETRY AnyProc
CHECK_DEADLOCK FALSE
