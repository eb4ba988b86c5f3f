CONSTANTS
    d1 = d1
    d2 = d2
    j1 = j1
    j2 = j2
    t1 = t1
    t2 = t2
    node = node
    direct = direct
    relay = relay
    Daemon = {d1, d2}
    Join = {j1, j2}
    Token = {t1, t2}
    Inviter <- MCInviter
    Endpoints <- MCEndpoints
    None = None
    MaxCrashes = 1
SPECIFICATION Spec
INVARIANTS
    TypeOK
    OneListener
    CatalogUnderPeers
    PeersHaveSpentInvites
PROPERTIES
    SocketLostOnlyToOldClose
    SpentTokenIsRefused
    StoreOnlyGrows
SYMMETRY Symmetry
CHECK_DEADLOCK FALSE
