SPECIFICATION Spec
CONSTANTS
    r1 = r1
    r2 = r2
    r3 = r3
    r4 = r4
    Requests <- MCRequests
    Workers <- MCWorkers
    TypeOf <- MCTypeOf
    Supports <- MCSupports
    GpuGroup <- MCGpuGroup
    MaxQueueSize = 2
    Pending = Pending
    Cancelled = Cancelled
    NoFuture = NoFuture
INVARIANTS
    TypeOK
    ExclusiveLease
    QueueIsWaiters
    WorkConserving
PROPERTIES
    FifoButForRefresh
