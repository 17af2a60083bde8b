\* Two clients, room for one chain and a spare descriptor, indices that wrap
\* after eight requests, and more requests than that.
SPECIFICATION BlkSpec
CONSTANTS
    Clients = {c1, c2}
    Null = null
    Nobody = nobody
    RingSize = 4
    IdxModulus = 8
    MaxSema = 11
INVARIANTS
    OneOperationInDriver
    DataBeforeReturn
    InFlightNotFree
    DescriptorsSuffice
    RingsDrained
    SemaphoreUncontended
