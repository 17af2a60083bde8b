----------------------------- MODULE SleepQueue -----------------------------
(***************************************************************************)
(* The sleep list of the process manager by itself: what sleep() and       *)
(* wakeup() make of ProcessManager.sleep_queue (src/process.rs), for more  *)
(* sleepers than the whole process manager can be checked with, and the    *)
(* refinement that shows the one list of relative delays to be as good as  *)
(* a timer for every process.                                              *)
(*                                                                         *)
(* The pids and the delays are those of the Timers specification.  That a  *)
(* process which goes to sleep has no node in the list is part of          *)
(* ProcessManager's WaitersMatchQueues.                                    *)
(***************************************************************************)
EXTENDS DeltaList

CONSTANTS
    Sleepers,       \* the processes that sleep
    SleepDelays     \* the delays they ask for

ASSUME SleepDelaysAreNaturals == SleepDelays \subseteq Nat

VARIABLES
    list,           \* ProcessManager.sleep_queue
    woken           \* the pids the last wakeup() found due

sleepVars == <<list, woken>>

SleepInit == list = << >> /\ woken = {}

\* sleep(pid, delay).
GoToSleep(p, delay) ==
    /\ p \notin PidsOf(list)
    /\ list' = Insert(list, p, delay)
    /\ woken' = {}

\* wakeup(), on a timer interrupt.
Wakeup ==
    /\ list' = Tick(list)
    /\ woken' = Due(list)

SleepNext ==
    \/ \E p \in Sleepers, delay \in SleepDelays : GoToSleep(p, delay)
    \/ Wakeup

SleepSpec == SleepInit /\ [][SleepNext]_sleepVars

-----------------------------------------------------------------------------
\* The absolute delay of a process: the relative delays up to its node, added up.
AbsoluteDelay(p) ==
    IF p \in PidsOf(list)
    THEN DelaySums(list)[CHOOSE j \in DOMAIN list : list[j].pid = p]
    ELSE -1

Timer == INSTANCE Timers WITH left <- [p \in Sleepers |-> AbsoluteDelay(p)]

\* The delta list implements a timer for each process: no insertion in front of
\* a sleeper changes its absolute delay, each tick counts for all of them, and
\* wakeup() removes the processes whose time has come and no others.
ImplementsTimers == Timer!TimersSpec
=============================================================================
