SPECIFICATION Spec
INVARIANT RevertRejects
CHECK_DEADLOCK FALSE
