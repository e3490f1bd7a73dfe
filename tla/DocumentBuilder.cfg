SPECIFICATION Spec
CONSTANTS
    a = a
    b = b
    x = x
    NoDoc = NoDoc
    Docs <- WithExcluded
    Refs <- WithExcludedRefs
    Excluded = {x}
    MaxEdits = 1
    MaxSaves = 1
    MaxDeletes = 1
    MaxCommands = 0
    MaxHovers = 0
    MaxFailures = 1
    MaxEvents = 2
INVARIANTS
    TypeOK
    QuiescentBuilt
    StaleLinksAreKnown
PROPERTIES
    LinksAreCoherent
    ReadyMeansBuilt
\* The server is idle, not stuck, when no write is left.
CHECK_DEADLOCK FALSE
