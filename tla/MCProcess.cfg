CONSTANTS
    Handles = {h1, h2}
    Vars = {v1, v2}
    NoHandle = NoHandle
    Opened = {"tcp", "pipe", "tty", "udp", "file"}
    Passed = {"tcp"}
    MaxFd = 2
SYMMETRY Symmetry
SPECIFICATION Spec
CHECK_DEADLOCK FALSE
INVARIANTS ReferencesAccounted StdioAlive
