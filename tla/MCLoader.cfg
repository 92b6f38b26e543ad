SPECIFICATION Spec
CONSTANTS
    l1 = l1
    l2 = l2
    Load <- TwoLoads
    Requests <- Mixed
    Factories = {"none", "commit", "noClient", "custom"}
    MaxPasses = 2
    MaxRecords = 1
INVARIANTS
    AnswerIsTruthful
    ArtifactIsWholeLoad
    NothingLeftBehind
CHECK_DEADLOCK FALSE
