SPECIFICATION FairSpec
CONSTANTS
    A = A
    B = B
    Browsers = {A}
    Messages = {1}
    None = None
    MaxGeneration = 2
    MaxTries = 2
    MaxInbox = 1
    MaxRevision = 60
    MaxFailures = 2
CHECK_DEADLOCK FALSE
INVARIANTS InboxExact
PROPERTIES SentIsArchived
