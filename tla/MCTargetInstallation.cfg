CONSTANTS
    Targets = {t1, t2, t3}
    MaxDraws = 3
    Absent = Absent
SPECIFICATION InstallationSpec
INVARIANTS
    OneIdentity
    LedgerKnowsDatabases
    ServedIsNeverReplaced
SYMMETRY MCSymmetry
CHECK_DEADLOCK FALSE
