CONSTANTS
    o1 = o1
    o2 = o2
    n1 = n1
    n2 = n2
    Owner = {o1, o2}
    Self = Self
    Download = {d1}
    Content <- Contents
    Original = {n1, n2}
    EntryName <- PlainNames
    Folder <- Folders
    NoName = NoName
    NoOwner = NoOwner
    Absent = Absent
    Linked = Linked
    MaxChanges = 1
    MaxFaults = 1
SPECIFICATION FairSpec
INVARIANTS
    TypeOK
    DirectoryIsVerified
    FailsOnlyWithReason
PROPERTIES
    DownloadEnds
CHECK_DEADLOCK FALSE
