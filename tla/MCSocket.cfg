CONSTANTS
    Obj = {o1, o2}
    Fd = {3, 4}
    Path = {pa}
    Port = {pt}
    Millis <- MCMillis
    Free = Free
    Absent = Absent
    Stale = Stale
    NoName = NoName
SPECIFICATION Spec
SYMMETRY ObjSymmetry
INVARIANTS
    TypeOK
    FdOwnership
    ThrewMeansClosed
    RestartBinds
PROPERTIES
    NoForeignClose
    PathKept
