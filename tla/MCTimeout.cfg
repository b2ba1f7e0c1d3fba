CONSTANTS
    Timeouts <- MCTimeouts
    Structs <- MCStructs
    BufSizes = {1, 2, 3, 4}
    Garbage = {0, 2, 7}
    Strings <- MCStrings
    TokenLists <- MCTokenLists
    Sep = "|"
    Addresses <- MCAddresses
    SunPath = 3
    IntMax = 100000
    Datagrams <- MCDatagrams
    Sockets <- MCSockets
SPECIFICATION Spec
INVARIANT
    TimeoutExact
