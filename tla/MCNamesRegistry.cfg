SPECIFICATION Spec
CONSTANTS
    Names = {n1, n2}
    Addresses = {alice, bob}
    Admins = {gov}
    Nonces = {q1, q2}
    Salts = {s1}
    None = None
    YEAR = 2
    GRACE = 1
    COMMIT_TTL = 2
    OFFER_TTL = 1
    MaxYears = 1
    BlockSteps = {1}
    MaxHeight = 4
    MaxOffers = 2
    MaxVersion = 2
SYMMETRY Symmetry
CONSTRAINTS OwnCommitments ReconfiguredUnused
CHECK_DEADLOCK FALSE
INVARIANTS TypeOK OneActiveName
PROPERTIES ImplementsLease OfferIdsNeverReturn
