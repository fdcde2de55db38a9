SPECIFICATION FairSpec
CONSTANTS
    q1 = q1
    q2 = q2
    Requests <- TwoRequests
    MaxChunks = 2
    MaxQueue = 3
INVARIANTS
    TypeOK
    CallsWellFormed
    NothingHeldBack
    DelegatesAlive
    NeverForgotten
PROPERTIES
    ImplementsContract
    StreamsEnd
