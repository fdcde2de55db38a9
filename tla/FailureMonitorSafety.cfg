CONSTANTS
    Requests = {r1, r2, r3}
    Protocols = {quic}
    Interval = 1
    Threshold = 60
    MaxTime = 2
    MaxClears = 1
    None = None
SYMMETRY RequestSymmetry
SPECIFICATION Spec
INVARIANTS
    TypeOK
    UndefinedOnlyWhenLate
    NotifyJustified
    QuietMeansSomeSurvived
CHECK_DEADLOCK FALSE
