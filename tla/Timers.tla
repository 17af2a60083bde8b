------------------------------- MODULE Timers -------------------------------
(***************************************************************************)
(* What sleeping promises: every process has a timer of its own.  This is  *)
(* the abstract specification that the shared delta list implements.       *)
(*                                                                         *)
(* A timer set to d > 0 rings on the d-th tick after it was set, unless a  *)
(* process asks for no delay at all: sleep(0) rings on the next tick, and  *)
(* that tick is not counted for anybody else, so the others ring late.     *)
(* Nobody ever rings early.                                                *)
(***************************************************************************)
EXTENDS Integers

CONSTANTS
    Sleepers,       \* the processes that sleep
    SleepDelays     \* the delays they ask for

VARIABLE left       \* ticks left for each process, Awake when it is not asleep

Awake == -1

TimersInit == left = [p \in Sleepers |-> Awake]

\* A process that is awake sets its timer.
Set(p, delay) ==
    /\ left[p] = Awake
    /\ left' = [left EXCEPT ![p] = delay]

\* The timers that ring on the next tick.
Ringing ==
    IF \E p \in Sleepers : left[p] = 0
    THEN {p \in Sleepers : left[p] = 0}
    ELSE {p \in Sleepers : left[p] = 1}

\* One tick of the clock: a tick that serves a sleep(0) counts for no one else.
Elapse ==
    left' = [p \in Sleepers |->
                IF p \in Ringing THEN Awake
                ELSE IF left[p] = Awake \/ (\E q \in Sleepers : left[q] = 0) THEN left[p]
                ELSE left[p] - 1]

TimersNext ==
    \/ \E p \in Sleepers, delay \in SleepDelays : Set(p, delay)
    \/ Elapse

TimersSpec == TimersInit /\ [][TimersNext]_left
=============================================================================
