\* Start pressed twice.
SPECIFICATION PageSpec
CONSTANT MaxSessions = 2
PROPERTY
    StartsTheWidget
CHECK_DEADLOCK FALSE
