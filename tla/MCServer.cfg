\* Every method of authentication, a module that imports another, two changes in the daemon, two starts. The process may end for good.
SPECIFICATION FairSpec
CONSTANTS
    a = a
    b = b
    Module = {a, b}
    Imports <- BImportsA
    MaxChanges = 2
    File <- Readable
    Value <- Values
    CommandLine <- CommandLines
    Client <- AllClients
    Presents <- PresentedBy
    NoLevel <- Levels
    MaxStarts = 2
INVARIANTS
    TypeOK
    ContextFollowsDaemon
    FeaturesAsListed
    SchemasInUseStay
    
PROPERTIES
    StartupEnds
    OfferedBecomesUsable
CHECK_DEADLOCK FALSE
