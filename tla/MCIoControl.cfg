CONSTANTS
    Kinds = {"stream", "udp", "file"}
    Threads = {loop, t1}
    Loop = loop
    NoThread = NoThread
    Droppers = {loop, t1}
    CallbackCmds = {"start", "stop", "pause", "resume"}
    OutsideCmds = {"start", "stop", "pause", "resume"}
    Restarts = TRUE
    Offsets <- NoOffset
    Failures = TRUE
    MaxReads = 2
    MaxInflight = 2
SPECIFICATION Spec
CHECK_DEADLOCK FALSE
INVARIANTS ReferencesAccounted
  
