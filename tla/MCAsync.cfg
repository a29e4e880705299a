CONSTANTS
    Threads = {"loop", "a", "b"}
    Loop = "loop"
    Slots = {1, 2}
    MaxMerged = 4
SPECIFICATION FairSpec
CHECK_DEADLOCK FALSE
INVARIANTS TypeOK ReferencesAccounted WakeupKeepsHandle
PROPERTIES SendAnswered
