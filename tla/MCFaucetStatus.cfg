SPECIFICATION FairStatus
CONSTANTS
    Readers = {r1, r2}
    Unknown = Unknown
    Failure = Failure
    CacheTime = 2
    MaxPayouts = 2
    LastTick = 4
CHECK_DEADLOCK FALSE
INVARIANTS FreshAfterQuietClaim
PROPERTIES ReadersAnswered
