SPECIFICATION Spec
CONSTANTS
    t1 = t1
    t2 = t2
    Other = Other
    Absent = Absent
    Bad = Bad
    Uncanonical = Uncanonical
    Threads = {t1, t2}
    Inputs <- Submitted
    Variants <- Deviations
    Boundaries = {"retrieval", "egress", "ext_authz", "kms"}
    GatewayId = "gw"
    Records = {"record"}
INVARIANTS
    VerdictIsExact
    EffectsAreSingleUse
    UsedMeansServed
CHECK_DEADLOCK FALSE
