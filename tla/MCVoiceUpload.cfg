CONSTANTS
    u1 = u1
    u2 = u2
    u3 = u3
    Uploads = {u1, u2, u3}
    Limit = 1
    HistoryLimit = 1
    MaxCrashes = 1
SYMMETRY Symmetry
SPECIFICATION Spec
INVARIANTS
    SavedIsFound
    DirectoryBounded
    SeesAnsweredTurns
CHECK_DEADLOCK FALSE
