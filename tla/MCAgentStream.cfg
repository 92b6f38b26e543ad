SPECIFICATION StreamSpec
CONSTANTS
    MaxLines = 5
    Cap = 1
INVARIANTS
    EventsFramed
PROPERTIES
    ReaderEnds
CHECK_DEADLOCK FALSE
