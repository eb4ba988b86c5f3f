CONSTANTS
    a = a
    b = b
    Node = {a, b}
    Link <- Presence
    NoLink = NoLink
    NoNode = NoNode
    IncomingCap = 1
    MaxFaults = 0
SPECIFICATION Spec
INVARIANT
    ServingNodeIsRegistered
CHECK_DEADLOCK FALSE
