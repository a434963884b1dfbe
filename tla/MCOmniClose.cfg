SPECIFICATION Spec
CONSTANTS
    t1 = t1
    t2 = t2
    d1 = d1
    d2 = d2
    c1 = c1
    c2 = c2
    Handlers = {t1, t2, d1}
    Closers = {c1, c2}
    Mode <- ModeOf
    MaxAppends = 1
    NoOne = NoOne
INVARIANTS
    TypeOK
    ServedFromOwnContext
    NoSessionLeak
    OwnUnitsOnly
    UsesLiveContext
PROPERTIES
    StopsOnlyItsOwn
CHECK_DEADLOCK FALSE
SYMMETRY CloserSymmetry
