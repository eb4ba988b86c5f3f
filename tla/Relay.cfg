CONSTANTS
    a = a
    b = b
    Node = {a, b}
    Link <- Calls
    NoLink = NoLink
    NoNode = NoNode
    IncomingCap = 1
    MaxFaults = 1
SPECIFICATION FairSpec
INVARIANTS
    TypeOK
    RegistryIsServed
    ClosedHasNoWaiter
    LeftOpenIsRead
PROPERTIES
    RequestIsAnswered
    ClosedLinkLeavesRegistry
CHECK_DEADLOCK FALSE
