SPECIFICATION SpecRelocation
CONSTANTS
    r1 = r1
    r2 = r2
    r3 = r3
    Requests = {r1, r2, r3}
    Workers = {1, 2}
    TypeOf <- MCTypeOf
    Supports <- MCSupports
    GpuGroup <- MCGpuGroup
    MaxQueueSize = 2
    Pending = Pending
    Cancelled = Cancelled
    NoFuture = NoFuture
INVARIANT
    DoublesHaveMoved
