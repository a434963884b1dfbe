SPECIFICATION Spec
CONSTANTS
    r1 = r1
    r2 = r2
    r3 = r3
    Requests = {r1, r2}
    Workers = {1, 2}
    TypeOf <- Mixed
    Supports <- AnyWork
    GpuGroup <- OwnGpu
    MaxQueueSize = 1
    Pending = Pending
    Cancelled = Cancelled
    NoFuture = NoFuture
    TimedTypes = {"duplex"}
    Deserters = {r1}
    Flaky = {1}
    Registering = {2}
    NoOne = NoOne
INVARIANTS
    RelayIsPrivate
    OnlyDesertionLeaks
PROPERTY
    ImplementsPool
