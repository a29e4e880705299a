CONSTANTS
    Classes = {"idle", "prepare", "check", "poll", "fs_event", "signal", "timer"}
    OneShot = TRUE
    Repeats = {0, 1}
    Reuse = FALSE
    Failures = TRUE
    MaxVars = 2
SPECIFICATION FairSpec
CHECK_DEADLOCK FALSE
INVARIANTS TypeOK ReferencesAccounted WatchedHandleExists
PROPERTIES ExpiredTimerGoes
