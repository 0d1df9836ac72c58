SPECIFICATION Spec
CONSTANTS
    r1 = r1
    r2 = r2
    i1 = i1
    Receipts = {r1, r2}
    Issuer <- OneIssuer
    Place <- Sorted
    Second = 2
    ValidTo = 5
    MaxAge = 0
    MaxCheckpointAge = 1
    MaxDrift = 1
    Drifts <- Skews
    MaxTime = 6
    MaxPublished = 3
INVARIANTS
    ExposureIsBounded
    CheckpointsBoundExposure
    RevokedIsGrounded
CHECK_DEADLOCK FALSE
