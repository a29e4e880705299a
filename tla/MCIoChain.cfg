CONSTANTS
    Kinds = {"stream", "udp", "file"}
    Threads = {loop}
    Loop = loop
    NoThread = NoThread
    Droppers = {}
    CallbackCmds = {"stop", "pause"}
    OutsideCmds = {"start", "resume"}
    Restarts = FALSE
    Offsets <- AnyOffset
    Failures = FALSE
    MaxReads = 4
    MaxInflight = 2
SPECIFICATION FairSpec
CHECK_DEADLOCK FALSE
INVARIANTS OffsetExact SingleChain NoUseAfterFree
PROPERTIES KeepsReading
