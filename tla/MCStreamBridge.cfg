SPECIFICATION Spec
CONSTANTS
    Capacity = 2
    MaxEvents = 5
INVARIANTS
    NoGoroutineLeft
    DeliveredInOrder
    ErrorReported
PROPERTY BridgeReturns
CHECK_DEADLOCK FALSE
