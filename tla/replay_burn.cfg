SPECIFICATION Spec
CONSTANTS
    c1 = c1
    c2 = c2
    c3 = c3
    mem = mem
    lst = lst
    sql = sql
    r1 = r1
    r2 = r2
    k1 = k1
    k2 = k2
    dr = dr
    dk = dk
    dr2 = dr2
    NoToken = NoToken
    Free = Free
    Prior = Prior
    Calls = {c1}
    Stores = {mem, lst, sql}
    Domains = {dr, dk, dr2}
    Nonces = {r1, r2, k1, k2}
    Plan <- SQLitePlan
    Standalone = {}
    ListStores = {}
    FaultyStores = {sql}
INVARIANTS
    DenialConsumesNothing
CHECK_DEADLOCK FALSE
