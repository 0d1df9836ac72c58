SPECIFICATION FairSpec
CONSTANTS
    o1 = o1
    o2 = o2
    o3 = o3
    n1 = n1
    n2 = n2
    Nobody = Nobody
    Openers = {o1, o2, o3}
    Nonces = {n1, n2}
    MaxFailures = 1
INVARIANTS
    ReadyIsUpgraded
    AcceptedOnce
    CommittedMeansUsed
PROPERTIES
    EveryoneOpens
CHECK_DEADLOCK FALSE
