SPECIFICATION Spec
CONSTANTS
    Scripts <- AllScripts
    Passing <- Sound
    VectorsOf <- Written
    MaxWork = 3
    MaxKills = 1
INVARIANTS
    AcceptedIsOneInstant
    BoundIsCommitted
    PassedIsConsistent
CHECK_DEADLOCK FALSE
