CONSTANTS
    o1 = o1
    o2 = o2
    n1 = n1
    n2 = n2
    Owner = {o1, o2}
    Self = Self
    Download = {d1, d2}
    Content <- Contents
    Original = {n1, n2}
    EntryName <- HashLikeNames
    Folder <- Folders
    NoName = NoName
    NoOwner = NoOwner
    Absent = Absent
    Linked = Linked
    MaxChanges = 0
    MaxFaults = 0
SPECIFICATION Spec
INVARIANTS
    TakenNamesAreKept
    DownloadedFileIsServed
    ReturnedPathHoldsFile
CHECK_DEADLOCK FALSE
