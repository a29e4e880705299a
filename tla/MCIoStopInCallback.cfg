CONSTANTS
    Kinds = {"file"}
    Threads = {loop}
    Loop = loop
    NoThread = NoThread
    Droppers = {loop}
    CallbackCmds = {"stop"}
    OutsideCmds = {"start"}
    Restarts = FALSE
    Offsets <- NoOffset
    Failures = FALSE
    MaxReads = 2
    MaxInflight = 2
SPECIFICATION Spec
CHECK_DEADLOCK FALSE
INVARIANTS NoUseAfterFree
