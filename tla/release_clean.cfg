SPECIFICATION Spec
CONSTANTS
    Scripts <- OnlyCertified
    Passing <- Sound
    VectorsOf <- Written
    MaxWork = 3
    MaxKills = 1
INVARIANTS
    CleanScriptsPass
CHECK_DEADLOCK FALSE
