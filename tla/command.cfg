SPECIFICATION Spec
CONSTANTS
    Reqs = {q1, q2}
    Commands = {"arm", "rtl", "unknown"}
    MaxRetries = 2
    HistoryLimit = 1
    None = None
INVARIANT TypeOK
INVARIANT PendingIsAwaited
INVARIANT AcceptanceIsBacked
PROPERTY SendReturns
