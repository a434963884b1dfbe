SPECIFICATION FairSpec
CONSTANTS
    r1 = r1
    r2 = r2
    r3 = r3
    Requests = {r1, r2, r3}
    Workers = {1}
    TypeOf <- OneType
    Supports <- AnyWork
    GpuGroup <- OwnGpu
    MaxQueueSize = 2
    Pending = Pending
    Cancelled = Cancelled
    NoFuture = NoFuture
    TimedTypes = {"duplex"}
    Deserters = {}
    Flaky = {}
    Registering = {1}
    NoOne = NoOne
PROPERTY
    HandlersEnd
