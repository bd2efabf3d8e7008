SPECIFICATION GiveawaySpec
CONSTANTS
    Member = {alice, bob}
    Reroller = {r1}
    GiveawayBatch = 10
    MaxPlaces = 1
    MaxGiveaways = 1
    MaxTime = 1
    MaxFaults = 0
    MaxRestarts = 0
INVARIANTS RerollExcludesPrevious
CHECK_DEADLOCK FALSE
