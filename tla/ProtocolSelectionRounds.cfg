SPECIFICATION FairSpec
CONSTANTS
    None = None
    SilentProbes = {"quic", "standard"}
    MaxDoubles = 1
    Configurations <- ServedConfigurations
    MaxCompletions = 2
INVARIANTS
    TypeOK
    QuietBetweenRounds
    ResultsAttributed
PROPERTIES
    PicksFirstAvailable
    PickIsConfigured
    OffUntilConfigured
    RoundsEnd
    Recovers
