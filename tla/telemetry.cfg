SPECIFICATION Spec
CONSTANTS
    Sessions = {s1, s2}
    Neighbours = {n}
    Fences = {"none", "enforced", "advisory"}
    Readings = {"ok", "urgent", "none"}
    BrokerMayFail = TRUE
    MaxEvents = 1
    None = None
SYMMETRY Symmetry
INVARIANT TypeOK
INVARIANT OneRowPerEdge
INVARIANT BlackBoxAgrees
INVARIANT ShownBreachClears
INVARIANT BreachAnnounced
CHECK_DEADLOCK FALSE
VIEW View
