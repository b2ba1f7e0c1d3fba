CONSTANTS
    Client = {c1}
    SockKind = "Unix"
    Requests <- ShortRequests
    ReqSize = 2
    RepSize = 2
    Callback = {2}
    Apply <- MCApply
    MaxCalls = 2
    Ordered = TRUE
    Lossy = FALSE
    Duplicating = FALSE
    MayTimeOut = FALSE
SPECIFICATION Spec
CHECK_DEADLOCK FALSE
INVARIANT
    SendFailureThrows
