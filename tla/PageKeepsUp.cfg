\* A page that only looks on and opens the stream again, with everything served.
SPECIFICATION FairPage
CONSTANTS
    Reconnects = TRUE
    Own = {}
    Writers = {w1}
    MaxEvents = 4
    MaxClock = 1
    MaxBreaks = 1
PROPERTIES EveryEventArrives PageCatchesUp
CHECK_DEADLOCK FALSE
