\* One process that makes I/O requests, preempted by the timer.
SPECIFICATION FairSpec
CONSTANTS
    MaxPid = 1
    MaxSid = 0
    Priorities = {1}
    Counts = {}
    Delays = {}
    MaxCount = 0
    MaxEntries = 0
    Events = {}
    Kproc = 1
PROPERTIES
    RequestsAreSent
