SPECIFICATION Spec
CONSTANTS
    d1 = d1
    d2 = d2
    b1 = b1
    Delivery <- TwoDeliveries
    Binding <- OneBinding
    Pages = 2
    WebhookQueueDepth = 1
INVARIANTS
    AckedIsKept
    QueueClosedLast
    CursorCovered
PROPERTIES
    AckedIsProcessed
    ShutdownEnds
    DrainEnds
CHECK_DEADLOCK FALSE
