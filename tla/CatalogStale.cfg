CONSTANTS
    a = a
    b = b
    Node = {a, b}
    File = {f1}
    Path = {p}
    NoPath = NoPath
    Conn <- MCConn
    Worker = {w1}
    Shared <- MCShared
    NoConn = NoConn
    MaxChanges = 1
    MaxFaults = 1
SPECIFICATION Spec
CHECK_DEADLOCK FALSE
INVARIANT
    SettledViewIsCurrent
