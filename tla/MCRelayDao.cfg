SPECIFICATION Spec
CONSTANTS
    alice = alice
    bob = bob
    Contacts <- Correspondents
    Policies <- OneReader
    Accounts = {alice, bob}
    Authority = authority
    MessageIds = {m1, m2}
    None = None
    Mainnet = FALSE
    Cooldown = 1
    MaxPrekeys = 1
    TopPrekey = 2
    MaxGeneration = 2
    MaxSequence = 2
    MaxTime = 1
    MaxReaders = 2
    MaxRevision = 3
    MaxThread = 2
SYMMETRY Symmetry
CONSTRAINTS OneException OneRotation SetUpFirst
CHECK_DEADLOCK FALSE
INVARIANTS PrekeysSpentOnce OneInitialEach SessionsFounded ReceiptsTrue ThreadsFollow
PROPERTIES PolicyVersioned
