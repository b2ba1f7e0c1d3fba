CONSTANTS
    Sub = {s1, s2}
    SockKinds = {"UDP", "Unix"}
    Data <- MCData
    DataSize = 1
    QLen = 2
    Nets <- MCNets
    MaxInbox = 2
    MaxAddrs = 2
    MaxPublish = 2
    MaxCallbacks <- MCMaxCallbacks
    Listener = s1
SPECIFICATION FairSpec
CHECK_DEADLOCK FALSE
INVARIANTS
    TypeOK
    InOrderOnce
    ReliableUnix
    EveryCallback
PROPERTIES
    PublishReturns
    UnixArrives
    ImplementsTopic
