SPECIFICATION Spec
CONSTANTS
    Tabs = {t1}
    None = None
    MaxTxs = 2
    MaxSequence = 2
    AnteFailures = TRUE
SYMMETRY Symmetry
CHECK_DEADLOCK FALSE
INVARIANTS ReportIsFinal
