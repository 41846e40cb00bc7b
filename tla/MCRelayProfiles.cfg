SPECIFICATION Spec
CONSTANTS
    A = A
    B = B
    Browsers = {A, B}
    Messages = {1, 2}
    None = None
    MaxGeneration = 2
    MaxTries = 1
    MaxInbox = 1
    MaxRevision = 30
    MaxFailures = 1
SYMMETRY Symmetry
CONSTRAINTS InboxAlone SecondAlone
CHECK_DEADLOCK FALSE
INVARIANTS TypeOK NoKeyReuse BackedUp EvidenceTrue
PROPERTIES BackupNeverForgets
