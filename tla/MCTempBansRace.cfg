SPECIFICATION TempBanSpec
CONSTANTS
    User = {alice, bob}
    Cmd = {c1, c2}
    TempBanBatch = 25
    MaxCases = 3
    MaxTime = 2
    MaxFaults = 0
    MaxCrashes = 0
INVARIANTS AutoUnbanScheduled
