CONSTANTS
    c1 = c1
    c2 = c2
    Caster = {c1, c2}
    Sub = {s1, s2}
    Stalled = {s2}
    MaxEvents <- Budget
    SockCap = 1
    ChanCap = 1
SPECIFICATION FairSpec
INVARIANTS
    TypeOK
    ForgottenIsClosed
PROPERTIES
    FeedIsImplemented
    BroadcastEnds
CHECK_DEADLOCK FALSE
