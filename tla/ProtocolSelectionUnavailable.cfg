SPECIFICATION Spec
CONSTANTS
    None = None
    SilentProbes = {}
    MaxDoubles = 0
    Configurations <- UsableConfigurations
    MaxCompletions = 1
INVARIANTS
    BestIsAvailable
