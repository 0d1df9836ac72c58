SPECIFICATION Spec
CONSTANTS
    runner = runner
    neighbour = neighbour
    Absent = Absent
    Bad = Bad
    Uncanonical = Uncanonical
    Zeros = Zeros
    Runner = runner
    Evaluated <- EveryVector
    Scenarios <- EveryScenario
    Threads = {runner, neighbour}
    OtherChecks <- Checked
    Checks <- AllChecks
    KeyOf <- Signer
    Keys <- Signers
    ParsedKeys <- PointsOfCurve
    WellFormed <- Signatures
    Genuine <- Signed
    PUB_CACHE_MAX = 1
    SIG_CACHE_MAX = 2
INVARIANTS
    CachesAreSound
    VectorsGetTheirCodes
    PublishedVectorsReplay
CHECK_DEADLOCK FALSE
