SPECIFICATION Spec
CONSTANTS
    Tabs = {t1, t2}
    None = None
    MaxTxs = 3
    MaxSequence = 2
    AnteFailures = TRUE
SYMMETRY Symmetry
CHECK_DEADLOCK FALSE
INVARIANTS TypeOK OneAttemptExecutes NoRivalAttempts ExecutedReportIsFinal ReplacementFollowed
