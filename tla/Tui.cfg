CONSTANTS
    l1 = l1
    l2 = l2
    Row = {1, 2}
    FileOf <- MCFile
    NameOf <- MCName
    LocalRow <- MCLocal
    Peer = {1, 2}
    Link = {l1, l2}
    PeerOf <- MCPeerOf
    Watch = watch
    MaxChanges = 2
    Plan <- MCPlan
SPECIFICATION FairSpec
INVARIANTS
    TypeOK
    CatalogCurrentUnlessOvertaken
    ShownOnlineIsBacked
    WaitingIsAnswered
PROPERTY
    FeedIsDrained
CHECK_DEADLOCK FALSE
