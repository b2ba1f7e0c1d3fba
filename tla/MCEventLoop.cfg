CONSTANTS
    Waiter = {w1}
    Classes = {"Reply", "Subscriber"}
    SockKinds = {"UDP", "Unix"}
    Signal = {SIGINT, SIGTERM, SIGKILL}
    Uncatchable = {SIGKILL}
    MaxCallbacks = 2
    MaxChanges = 3
    MaxData = 3
SPECIFICATION FairSpec
CHECK_DEADLOCK FALSE
INVARIANTS
    TypeOK
    
PROPERTIES
    ClearStopsLoop
