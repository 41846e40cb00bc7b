SPECIFICATION Spec
CONSTANTS
    None = None
    Names = {n1, n2}
    Addresses = {alice, bob}
    GRACE = 1
    Horizon = 1
    Mainnet = {m}
    Testnet = {t1, t2}
    MAX_PROOF_AGE = 1
    MaxTime = 2
    MaxVersion = 2
    MaxRevision = 3
    MaxSigned = 4
SYMMETRY Symmetry
CONSTRAINTS OneHandOver SignedInTurn
CHECK_DEADLOCK FALSE
INVARIANTS TypeOK LinksProven ProofsSpent
PROPERTIES LinksStand
