CONSTANTS
    Handles = {h1, h2}
    NoHandle = NoHandle
    Requests = {r1}
    NoRequest = NoRequest
    Classes = {"work", "getaddrinfo", "getnameinfo"}
    MaxLoopVars = 2
SPECIFICATION Spec
CHECK_DEADLOCK FALSE
INVARIANTS LoopValidInCallback
