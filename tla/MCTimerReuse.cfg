CONSTANTS
    Classes = {"timer"}
    OneShot = FALSE
    Repeats = {0, 1}
    Reuse = TRUE
    Failures = TRUE
    MaxVars = 2
SPECIFICATION Spec
CHECK_DEADLOCK FALSE
INVARIANTS ReferencesAccounted
