\* Four sleepers whose delays meet, cross and include none at all.
SPECIFICATION SleepSpec
CONSTANTS
    Sleepers = {p1, p2, p3, p4}
    SleepDelays = {0, 1, 2, 3, 5}
PROPERTIES
    ImplementsTimers
