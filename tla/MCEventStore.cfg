SPECIFICATION Spec
CONSTANTS
    Threads = {t1, t2}
    None = None
    Limit = 2
    MaxEvents = 3
    MaxTears = 2
SYMMETRY ThreadSymmetry
INVARIANTS
    TypeOK
    OneLossPerTear
    RatingsStick
PROPERTIES
    ImplementsLog
    RetainsAtMostLimit
