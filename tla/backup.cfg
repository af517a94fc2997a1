SPECIFICATION Spec
CONSTANTS
    MaxId = 2
    Requests = {q1}
    Retention = 2
    Interval = 3
    HistoryDepth = 10
    SqlRows <- MCSqlRows
    AutoRestore = TRUE
    Restorers = {"monitor"}
    MaxNow = 3
    MaxEvents = 2
INVARIANTS
    TypeOK
    NewestDumpIsCurrent
    SequencesAhead
PROPERTY
    LossRepaired
CHECK_DEADLOCK FALSE
