\* Two processes that sleep and are woken by the timer, under fairness.
SPECIFICATION FairSpec
CONSTANTS
    MaxPid = 2
    MaxSid = 0
    Priorities = {1, 2}
    Counts = {}
    Delays = {0, 1, 2}
    MaxCount = 0
    MaxEntries = 0
    Events = {}
    Kproc = 1
PROPERTIES
    NotStarvedFromBelow
    SleepersWake
