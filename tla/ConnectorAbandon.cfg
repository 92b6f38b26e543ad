SPECIFICATION Spec
CONSTANTS
    d1 = d1
    d2 = d2
    b1 = b1
    Delivery <- TwoDeliveries
    Binding <- NoBinding
    Pages = 0
    WebhookQueueDepth = 1
INVARIANT NoAckedAbandoned
CHECK_DEADLOCK FALSE
