SPECIFICATION FlightSpec
CONSTANTS
    Drones = {1, 2}
    Far = 3
    Launch <- MCLaunch
    Route <- MCRoute
    Fence = {0, 1}
    Enforce = TRUE
    Broker = TRUE
    Aside = 3
    Orders = {"arm", "disarm", "takeoff", "auto", "guided", "loiter", "rtl", "retrace", "land", "velocity", "profile", "goto", "emergency_stop"}
    GcsOrders = {"arm", "disarm", "set_home"}
    MaxEvents = 4
    MaxInbox = 1
INVARIANTS
    FlightTypeOK
    BreachTurnsHome
PROPERTY
    ReturnsHome
CHECK_DEADLOCK FALSE
