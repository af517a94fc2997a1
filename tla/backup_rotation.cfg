SPECIFICATION Spec
CONSTANTS
    MaxId = 2
    Requests = {q1}
    Retention = 3
    Interval = 2
    HistoryDepth = 10
    SqlRows <- MCSqlRows
    AutoRestore = TRUE
    Restorers = {"monitor"}
    MaxNow = 3
    MaxEvents = 2
PROPERTY
    RotationKeepsRetention
CHECK_DEADLOCK FALSE
