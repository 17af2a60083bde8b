\* A semaphore, a sleep list and an event queue shared by two processes that make
\* I/O requests, one of them as the display process on whose behalf the other waits.
SPECIFICATION Spec
CONSTANTS
    MaxPid = 2
    MaxSid = 0
    Priorities = {1, 2}
    Counts = {0}
    Delays = {1, 2}
    MaxCount = 1
    MaxEntries = 2
    Events = {"MouseEvent"}
    Kproc = 2
INVARIANTS
    OneRunning
    ReadyIsQueued
    BlockedNeverRuns
    SemaphoreQueueMatchesCount
    DelaysNeverUnderflow
    WaitersMatchQueues
    SchedulerInv
    EventQueuesExact
    IOWaitIsAnswered
PROPERTIES
    HighestPriorityRuns
    DeadStaysDead
