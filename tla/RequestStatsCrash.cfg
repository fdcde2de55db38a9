SPECIFICATION EventSpec
CONSTANTS
    Records = {r1, r2, r3}
    Transactions = {t1, t2}
    Events = {e1, e2}
    ConfiguredCounts <- Counts
    kRequestsCountMax = 2
    FailureStates = {"sent", "received"}
    MaxRestarts = 1
INVARIANTS
    TypeOK
    HeldOnce
    NoEmptyTransaction
    Durable
    EventsAccounted
PROPERTIES
    ImplementsLedger
