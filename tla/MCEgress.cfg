SPECIFICATION Spec
CONSTANTS
    d1 = d1
    d2 = d2
    id1 = id1
    id2 = id2
    NoId = NoId
    Delivery <- TwoDeliveries
    Requests <- EarlierAndLater
    Implements = {"withdraw", "relationship"}
    Id <- TwoIds
    History <- Lived
    MaxAttempts <- RetriedAndOnce
    MaxSlips = 1
    MaxStarts = 2
INVARIANTS
    ReplyIsAcceptable
    AcceptedIsHeld
    DeadIsUnservable
PROPERTIES
    StampNeverRegresses
    ReplayIsExact
CHECK_DEADLOCK FALSE
