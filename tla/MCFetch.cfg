SPECIFICATION FetchSpec
CONSTANTS
    p1 = p1
    p2 = p2
    Process <- TwoProcesses
    Caps = {1, 2}
    Bodies = {1, 2}
    MaxInt = 2
    MaxAttempts = 2
    Timeout = 1
    StaleAge = 2
    MaxSpools = 2
    MaxClock = 2
SYMMETRY Symmetric
INVARIANTS
    ArtifactIsWhole
    NoSpoolLeaked
    LiveSurvivesSweep
CHECK_DEADLOCK FALSE
