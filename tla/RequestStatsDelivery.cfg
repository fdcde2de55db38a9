SPECIFICATION FairSpec
CONSTANTS
    r1 = r1
    r2 = r2
    r3 = r3
    t1 = t1
    t2 = t2
    t3 = t3
    Records <- ThreeRecords
    Transactions <- ThreeTransactions
    ConfiguredCounts <- Counts
    kRequestsCountMax = 2
    FailureStates = {"sent"}
    MaxRestarts = 0
PROPERTIES
    AtMostOnce
    EventuallyDelivered
    ReportEnds
