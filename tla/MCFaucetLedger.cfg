SPECIFICATION FairSpec
CONSTANTS
    Requests = {r1, r2}
    Addresses = {a1}
    Ids = {i1, i2}
    None = None
    DAY = 2
    CHALLENGE_TTL = 1
    CHALLENGE_GAP = 1
    MaxChallenges = 2
    Windows <- TwoWindows
    WindowStart <- LongDays
    PayoutLimit <- Limits
    MaxTime = 2
INVARIANTS TypeOK OnePayoutOpen LedgerMatchesChain PaidOncePerDay WithinPayoutLimit
PROPERTIES ExecutedIsSettled
