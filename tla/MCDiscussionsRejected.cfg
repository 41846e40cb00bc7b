SPECIFICATION Spec
CONSTANTS
    None = None
    Wallets = {alice}
    Reviews = {review}
    Natives = {native}
    MaxPosts = 2
    Cooldown = 1
    Hour = 1
    HourLimit = 2
    MaxRequests = 2
    MaxDrafts = 1
    MaxCopies = 2
    MaxOpen = 1
    MaxFailures = 1
CHECK_DEADLOCK FALSE
INVARIANTS RejectedUnwritten
