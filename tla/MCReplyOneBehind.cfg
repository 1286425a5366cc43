SPECIFICATION OnlyAbortGivesUp
CONSTANT MaxSent = 5
INVARIANT NeverOneBehind
CHECK_DEADLOCK FALSE
