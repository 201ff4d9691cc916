CONSTANTS
    Jobs = {j1, j2}
    FirstPosition = 8
    MaxEvents = 2
    EventRows = 2
    MaxRevision = 1
    None = None
SPECIFICATION Spec
INVARIANT
    NextStartIsAdmitted
SYMMETRY MCSymmetry
CHECK_DEADLOCK FALSE
