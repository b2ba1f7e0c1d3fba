CONSTANTS
    Recv = {r1, r2}
    Send = {s1, s2}
    Programs <- MCPrograms
    Loop = 2
    Lossy = TRUE
SPECIFICATION FairSpec
CHECK_DEADLOCK FALSE
INVARIANTS
    TypeOK
    ResponsesMatch
    HangMeansLoss
    DescriptorsReturned
PROPERTIES
    SendersFinish
    MainReturns
