SPECIFICATION Spec
CONSTANTS
    Keys = {1, 2, 3, 4, 5}
    MaxProofs = 2
INVARIANTS
    AbsenceIsTrue
CHECK_DEADLOCK FALSE
