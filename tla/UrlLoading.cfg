SPECIFICATION FairSpec
CONSTANTS
    Requests = {r1, r2}
    Domains = {"a", "b"}
    Configurations <- MCConfigurations
    MaxFrames = 2
    None = None
INVARIANTS
    TypeOK
    ClientStory
    EndIsTrue
    HolderAccounted
PROPERTIES
    ImplementsContract
    RoutedAsConfigured
    LoadsEnd
