SPECIFICATION Spec
CONSTANTS
    alice = alice
    bob = bob
    body = body
    broken = broken
    Accounts = {alice, bob}
    FirstOwner = alice
    None = None
    Contents = {body, broken}
    ChunkCount <- Bodies
    Sound = {body}
    Community = FALSE
    MinNeta = 1
    MinNative = 1
    MinComment = 1
    Cooldown = 2
    Holdings <- Varying
    Nominees = {bob}
    Suspects = {bob}
    MaxProposals = 1
    MaxVersions = 2
    MaxComments = 2
    MaxTime = 1
CHECK_DEADLOCK FALSE
CONSTRAINTS QuietAdministration FirstBodyOnly
PROPERTIES ClosedStaysClosed
INVARIANTS FinalizedComplete
