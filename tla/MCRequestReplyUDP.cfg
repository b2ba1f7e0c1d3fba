CONSTANTS
    Client = {c1, c2}
    SockKind = "UDP"
    Requests <- ShortRequests
    ReqSize = 2
    RepSize = 2
    Callback = {2, 3}
    Apply <- MCApply
    MaxCalls = 2
    Ordered = TRUE
    Lossy = TRUE
    Duplicating = FALSE
    MayTimeOut = TRUE
SPECIFICATION FairSpec
CHECK_DEADLOCK FALSE
INVARIANTS
    TypeOK
    OwnReply
    LagBound
    Matched
PROPERTIES
    ImplementsRemoteCall
    TimedCallReturns
