SPECIFICATION Spec
CONSTANTS
    Transfers = {t1, t2}
    MaxItems = 3
    MaxWire = 3
    None = None
PROPERTY ImplementsStore
PROPERTY OnlyRealRefusals
SYMMETRY Interchangeable
CHECK_DEADLOCK FALSE
