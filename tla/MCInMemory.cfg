SPECIFICATION Spec
CONSTANTS
    Key = {k1, k2}
    Accessor = {p1, p2}
    PosTTL = 1
    NegTTL = 0
    Cap = 1
    Lag = 1
    MaxTime = 3
    MaxWrites = 2
    MaxFailures = 1
    Proc = {p1, p2}
    MaxTracks = 2
    MaxPlayers = 2
    MaxVoice = 2
    MaxCalls = 1
    MaxFaults = 1
SYMMETRY AnyOrder
INVARIANTS CacheTypeOK BoundedStaleness AloneIsExact CacheBounded MusicTypeOK OnePlace SweptIsEmpty InStep NothingWaits VoiceReaches
\* Everybody may be at rest with the clock, the writes and the calls at their
\* bounds and the tracks played.
CHECK_DEADLOCK FALSE
