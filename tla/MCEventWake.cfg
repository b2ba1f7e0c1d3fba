CONSTANTS
    Waiter = {w1}
    Classes = {"Reply", "Subscriber"}
    SockKinds = {"UDP", "Unix"}
    Signal = {SIGKILL}
    Uncatchable = {SIGKILL}
    MaxCallbacks = 1
    MaxChanges = 1
    MaxData = 0
SPECIFICATION FairSpec
CHECK_DEADLOCK FALSE
PROPERTY
    SetWakesWaiter
