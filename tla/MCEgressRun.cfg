SPECIFICATION Spec
CONSTANTS
    hall = hall
    room = room
    annex = annex
    pump = pump
    sensor = sensor
    Record <- Graph
    typeOf <- Kinds
    ownersOf <- Containment
    anchorOf <- Anchors
    Edges <- Feeds
    Worlds <- Storage
    DocsFor <- Documents
    Receiver <- Either
    MaxRuns = 2
    MaxFailures = 1
    MaxEvents = 1
    MaxTries = 2
INVARIANTS
    CleanRunIsWhole
    ReportNotLost
    BindingsServed
PROPERTIES
    ReferencesKept
    Converges
CHECK_DEADLOCK FALSE
