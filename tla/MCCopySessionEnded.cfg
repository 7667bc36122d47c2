SPECIFICATION Spec
CONSTANT MaxSession = 2
CHECK_DEADLOCK FALSE
INVARIANT EndedSessionGone
