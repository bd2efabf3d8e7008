SPECIFICATION Spec
CONSTANTS
    LogQueueCap = 2
    WriterBatch = 2
    MaxLogs = 4
    MaxFailures = 2
    User = {alice, bob}
    Cmd = {c1, c2}
    TempBanBatch = 1
    MaxCases = 2
    MaxTime = 2
    MaxFaults = 1
    MaxCrashes = 1
    Member = {alice, bob}
    Reroller = {r1}
    GiveawayBatch = 1
    MaxPlaces = 2
    MaxGiveaways = 1
    MaxRestarts = 1
INVARIANTS LogTypeOK NoSilentLoss StoredInOrder TempBanTypeOK OneLiveTempBan TempBanHasCase GiveawayTypeOK NobodyWinsEarly
PROPERTIES QueuedIsSettled NoEarlyLift RefinesDeadlineJobs RefinesRaffle
\* The process that writes the log really ends, and the bot may idle: nothing
\* is due, nobody presses a button, and the clock and the rows are bounded.
CHECK_DEADLOCK FALSE
