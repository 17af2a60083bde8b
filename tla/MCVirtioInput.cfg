\* Four descriptors, ring indices that wrap at eight, and events without end.
SPECIFICATION FairInputSpec
CONSTANTS
    RingSize = 4
    IdxModulus = 8
    Events = 6
    MaxQueue = 3
INVARIANTS
    EventsInOrder
PROPERTIES
    EventsHandled
