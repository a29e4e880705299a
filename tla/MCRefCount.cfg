CONSTANTS
    Slots = {s1, s2, s3}
    Objects = {o1, o2}
    NoObject = NoObject
    NoSlot = NoSlot
SPECIFICATION FairSpec
CHECK_DEADLOCK FALSE
INVARIANTS TypeOK CountMatchesReferences NoDanglingReference DestroyedOnce NoUseAfterFree
PROPERTIES NoResurrection EventuallyDestroyed AbstractSpec
