\* The page, its stream and its own answers, while two requests write events.
SPECIFICATION PageSpec
CONSTANTS
    Reconnects = FALSE
    Own = {"answer"}
    Writers = {w1, w2}
    MaxEvents = 3
    MaxClock = 2
    MaxBreaks = 1
CHECK_DEADLOCK FALSE
INVARIANTS PageFollows NothingSkipped
