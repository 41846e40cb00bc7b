SPECIFICATION Spec
CONSTANTS
    None = None
    Wallets = {alice}
    Reviews = {review}
    Natives = {native}
    MaxPosts = 2
    Cooldown = 1
    Hour = 1
    HourLimit = 2
    MaxRequests = 2
    MaxDrafts = 1
    MaxCopies = 2
    MaxOpen = 2
    MaxFailures = 1
CONSTRAINTS IndexedTogether OneMeasure QuietPages OverlapAlone
ACTION_CONSTRAINT FoundOnce
CHECK_DEADLOCK FALSE
INVARIANTS TypeOK RepliesStayTogether PostedOnce
PROPERTIES LockHolds
