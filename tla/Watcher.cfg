CONSTANTS
    p1 = p1
    p2 = p2
    f1 = f1
    f2 = f2
    r1 = r1
    r2 = r2
    Self = Self
    Node = {Self}
    File = {f1, f2}
    Path = {p1, p2}
    NoPath = NoPath
    Absent = Absent
    Run = {r1, r2}
    Scanner = Scanner
    MaxChanges = 3
    MaxRestarts = 1
SPECIFICATION Spec
INVARIANTS
    TypeOK
    PresentFileIsShared
    RemovedFileIsForgotten
    ChangesAreAnnounced
SYMMETRY Symmetry
CHECK_DEADLOCK FALSE
