SPECIFICATION StationSpec
CONSTANTS
    Callers = {c1, c2}
    MaxUnplugs = 1
    RecDrones = {r1, r2}
    Readings = {a, b}
    MaxHistory = 2
    MaxRecords = 3
    MaxEnds = 1
    t1 = t1
    t2 = t2
    d1 = d1
    d2 = d2
    v1 = v1
    p1 = p1
    h1 = h1
    q1 = q1
    q2 = q2
    u1 = u1
    x1 = x1
    x2 = x2
    TypeIds = {t1, t2}
    DroneIds = {d1, d2}
    VesselIds = {v1}
    PayloadIds = {p1}
    ThreatIds = {h1}
    TemplateIds = {k1}
    MissionIds = {m1}
    Fleet <- MCFleet
    Slots = {1, 2}
    NoRow = NoRow
    MaxCommits = 2
    Calls = {x1, x2}
    Asked = {q1, q2}
    Users = {u1}
    UserOf <- MCUserOf
    Nobody = Nobody
    MaxFailures = 1
    MaxFleet = 3
    MaxQubits = 4
    Distances = {0, 1, 2}
    Budgets = {1, 3}
    Places = {0, 2}
    MaxSpeed = 1
    Ttl = 2
    Poll = 1
    MaxBurst = 1
    Ingests = {i1, i2}
    MaxDelay = 1
    HomeDrones = {hd1}
    Nowhere = Nowhere
    Browsers = {b1}
    QueueSize = 2
    MaxLives = 2
    MaxReports = 1
    Viewers = {w1, w2}
    CaptureIds = {1, 2}
    Urls = 2
    QueuedFrames = 1
INVARIANTS
    StationTypeOK
    RecorderLosesNothing
    FleetReferences
    ChainVerifies
    ReviewsAgree
    AssignmentIsBest
PROPERTIES
    BridgeRecovers
    HomeFollowsVessel
    BrowserShowsDrone
    ViewerIsServed
CHECK_DEADLOCK FALSE
