SPECIFICATION DurableFairSpec
CONSTANTS
    c1 = c1
    c2 = c2
    c3 = c3
    p1 = p1
    p2 = p2
    sql = sql
    mem1 = mem1
    r1 = r1
    k1 = k1
    dr = dr
    dk = dk
    NoToken = NoToken
    Calls = {c1, c2, c3}
    Stores = {sql, mem1}
    Domains = {dr, dk}
    Nonces = {r1, k1}
    Plan <- MixedPlan
    Standalone = {c3}
    ListStores = {}
    FaultyStores = {sql}
    Processes = {p1, p2}
    Host <- Hosts
    Memory <- Memories
    MaxCrashes = 2
INVARIANTS
    DurableSingleUse
    AllowSurvives
    OrphansHaveACause
    TokenDiscipline
    NoReservationLeaks
    BurnIsProperPrefix
    RefusalConsumesNothing
PROPERTIES
    EveryCallEnds
    OrphansAreForever
CHECK_DEADLOCK FALSE
