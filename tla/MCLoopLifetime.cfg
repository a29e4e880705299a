CONSTANTS
    Handles = {h1, h2}
    NoHandle = NoHandle
    Requests = {r1, r2}
    NoRequest = NoRequest
    Classes = {"connect", "write", "write2", "shutdown", "udp_send", "work", "getaddrinfo", "getnameinfo"}
    MaxLoopVars = 2
SPECIFICATION FairSpec
CHECK_DEADLOCK FALSE
INVARIANTS TypeOK ReferencesAccounted NoOpenHandleAtDestroy HandleRequestsKeepLoop NothingLeftAtFree
PROPERTIES LoopReclaimed
