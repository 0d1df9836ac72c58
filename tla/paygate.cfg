SPECIFICATION Spec
CONSTANTS
    book = book
    game = game
    gift = gift
    agent = agent
    wallet = wallet
    rogue = rogue
    active = active
    old = old
    MaxRecords = 4
    MaxFaults = 1
    Cuts = {"none", "part", "bare"}
    Actions = {book, game, gift}
    Agent <- AgentOf
    WithinLimits = {book, game, gift}
    Providers = {wallet, rogue}
    Trusted = {wallet}
    Serves <- Merchants
    Separated = {gift}
    Policies = {active, old}
    ActivePolicy = active
    MaxCounter = 2
    MaxPermits = 2
    MaxTime = 1
    MaxDirect = 1
    PermitTTL = 0
    TokenTTL = 0
INVARIANTS
    OneChargePerCounter
    ChargesArePermitted
    AuditedBeforeCharged
    EveryUseIsRecorded
    AllowIsHonoured
    FileVerifies
    KeptStays
    UnreadableByPayment
CHECK_DEADLOCK FALSE
