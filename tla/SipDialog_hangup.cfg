SPECIFICATION Spec
CONSTANT MaxIncoming = 1
INVARIANT HangupCloses
CHECK_DEADLOCK FALSE
