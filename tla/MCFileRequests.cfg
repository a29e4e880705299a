CONSTANTS
    File1 = f1
    File2 = f2
    Files <- TwoFiles
    NoFile = NoFile
    Requests <- TwoRequests
    NoRequest = NoRequest
    OpenWays <- Ways
    Assignments <- Pairs
    Sizes = {2}
SPECIFICATION Spec
CHECK_DEADLOCK FALSE
INVARIANTS TypeOK ReferencesAccounted WriteQueueExact FileValidWhileUsed OwnDescriptor
