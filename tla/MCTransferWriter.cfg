SPECIFICATION Spec
CONSTANTS
    Record <- MCRecord
    Invalid <- MCInvalid
    Unmarshalable <- MCUnmarshalable
    Header = "header"
    LineLen <- MCLineLen
    InlineBodyLimit = 3
    MaxLines = 6
INVARIANTS
    ArtifactIsWhatWasAcked
    BodyReleased
PROPERTIES
    CloseReturns
    KeepsPromise
CHECK_DEADLOCK FALSE
