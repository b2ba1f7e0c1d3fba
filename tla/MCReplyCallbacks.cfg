CONSTANTS
    Client = {c1}
    SockKind = "UDP"
    Requests <- ShortRequests
    ReqSize = 2
    RepSize = 2
    Callback = {2, 3}
    Apply <- MCApply
    MaxCalls = 2
    Ordered = TRUE
    Lossy = FALSE
    Duplicating = FALSE
    MayTimeOut = FALSE
SPECIFICATION FairSpec
CHECK_DEADLOCK FALSE
PROPERTY
    CallbacksKept
