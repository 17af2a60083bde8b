--------------------------- MODULE ProcessManager ---------------------------
(***************************************************************************)
(* The process manager of citron (src/process.rs): the process table, the  *)
(* ready heap, semaphores, the sleep list, event queues and the deferred,  *)
(* priority-driven scheduler, on one hart with preemption by interrupts.   *)
(*                                                                         *)
(* Grain of atomicity.  Every operation that starts with                   *)
(* interrupt_disable() is one step up to the schedule() calls inside it.   *)
(* Each schedule() call is a step of its own, because it is where the hart *)
(* changes stacks: resched[p] counts the schedule() calls that process p   *)
(* still has to make, with interrupts off, before it is back in code that  *)
(* can be interrupted.  Operations that run with interrupts ON             *)
(* (create_process, ready, defer_schedule and the I/O wait of the drivers) *)
(* are split where an interrupt can separate their effects; pc[p] is the   *)
(* position of p in such an operation.                                     *)
(***************************************************************************)
EXTENDS DeltaList

CONSTANTS
    MaxPid,         \* bound: pids are 0 .. MaxPid, pid 0 is the null process
    MaxSid,         \* bound: semaphore ids are 0 .. MaxSid
    Priorities,     \* priorities given to create_process
    Counts,         \* initial counts given to create_semaphore
    Delays,         \* delays given to sleep
    MaxCount,       \* bound on a semaphore's count
    MaxEntries,     \* bound on the heap entries of the display process
    Events,         \* the input events of enum ProcessEvent that occur
    Kproc           \* the pid of the process that runs kproc()

ASSUME MaxPidAssumption     == MaxPid \in Nat \ {0}
ASSUME MaxSidAssumption     == MaxSid \in Nat
ASSUME PrioritiesAssumption == Priorities \subseteq Nat
ASSUME CountsAssumption     == Counts \subseteq Nat
ASSUME DelaysAssumption     == Delays \subseteq Nat
ASSUME BoundsAssumption     == MaxCount \in Nat /\ MaxEntries \in Nat
ASSUME EventsAssumption     == Events \subseteq {"MouseEvent", "KeyboardEvent"}
ASSUME KprocAssumption      == Kproc \in 1 .. MaxPid

VARIABLES
    curr_pid,       \* next pid create_process hands out
    curr_sid,       \* next sid create_semaphore hands out
    state,          \* ptable: the state of each process
    priority,       \* ptable: the priority of each process
    pqueue,         \* the ready heap: how many entries each pid has in it
    sem,            \* stable: count and FIFO queue of each semaphore
    sleep_queue,    \* the delta list of sleeping processes
    event_queue,    \* the processes waiting for each event
    defer_count,    \* DeferScheduler.count
    attempt,        \* DeferScheduler.attempt
    running,        \* the process on the hart
    resched,        \* schedule() calls pending on each process's stack
    pc,             \* position of each process in an interruptible operation
    target,         \* the pid that operation is about, NULL when it is about none
    held,           \* 1 while the deferral kmain() opens is open, else 0
    gpu_pid,        \* VirtioGpu.pid: 0 until kproc has run init_display
    requested       \* pids whose driver has notified its device

tables == <<curr_pid, curr_sid, priority, gpu_pid>>
queues == <<sem, sleep_queue, event_queue>>
defer  == <<defer_count, attempt>>
thread == <<pc, target, held>>
vars   == <<tables, state, pqueue, queues, defer, running, resched, thread, requested>>

Pid  == 0 .. MaxPid
Sid  == 0 .. MaxSid
NULL == 0                                   \* the process init() creates

\* The states of enum State, and "Absent" for a pid not yet in ptable.
State == {"Absent", "Running", "Ready", "Suspend", "Sleep", "SemaWait",
          "IOWait", "EventWait", "Free"}

Position == {"idle", "create", "stop", "check", "push", "call", "notify"}

TypeOK ==
    /\ curr_pid \in 0 .. MaxPid + 1
    /\ curr_sid \in 0 .. MaxSid + 1
    /\ state \in [Pid -> State]
    /\ priority \in [Pid -> Nat]
    /\ pqueue \in [Pid -> Nat]
    /\ sem \in [Sid -> [count : Int, queue : Seq(Pid)]]
    /\ sleep_queue \in Seq([pid : Pid, delay : Int])   \* an underflow would be negative
    /\ event_queue \in [Events -> SUBSET Pid]
    /\ defer_count \in Nat
    /\ attempt \in BOOLEAN
    /\ running \in Pid
    /\ resched \in [Pid -> Nat]
    /\ pc \in [Pid -> Position]
    /\ target \in [Pid -> Pid]
    /\ held \in {0, 1}
    /\ gpu_pid \in {NULL, Kproc}
    /\ requested \in SUBSET Pid

\* One entry of stable; its SemaState is written and never read.
Semaphore(count, queue) == [count |-> count, queue |-> queue]

\* process::init(): the null process exists, runs and has priority 0.
Init ==
    /\ curr_pid = 1
    /\ curr_sid = 0
    /\ state = [p \in Pid |-> IF p = NULL THEN "Running" ELSE "Absent"]
    /\ priority = [p \in Pid |-> 0]
    /\ pqueue = [p \in Pid |-> 0]
    /\ sem = [s \in Sid |-> Semaphore(0, << >>)]
    /\ sleep_queue = << >>
    /\ event_queue = [e \in Events |-> {}]
    /\ defer_count = 0
    /\ attempt = FALSE
    /\ running = NULL
    /\ resched = [p \in Pid |-> 0]
    /\ pc = [p \in Pid |-> "idle"]
    /\ target = [p \in Pid |-> NULL]
    /\ held = 0
    /\ gpu_pid = NULL
    /\ requested = {}

-----------------------------------------------------------------------------
(***************************************************************************)
(* The context in which an operation is called.                            *)
(***************************************************************************)

\* Interrupts are enabled: no schedule() call is pending on this stack.
InterruptsOn == resched[running] = 0

\* The running process is between two operations and starts a new one.
Idle == InterruptsOn /\ pc[running] = "idle"

\* The null process, which ends in kmain()'s loop, never blocks.
MayBlock == Idle /\ running # NULL

\* After init_display, kproc only waits for events and for its GPU requests.
MayBlockOrExit == MayBlock /\ running # gpu_pid

\* n more schedule() calls are to be made on the running process's stack.
PendSchedule(n) == resched' = [resched EXCEPT ![running] = @ + n]

\* Move the running process to another position of its operation.
Goto(l) == pc' = [pc EXCEPT ![running] = l]

-----------------------------------------------------------------------------
(***************************************************************************)
(* schedule() and pop_ready_proc().                                        *)
(***************************************************************************)

\* The processes with a live entry in the heap.
Candidates == {p \in Pid : pqueue[p] > 0 /\ state[p] = "Ready"}

\* Mutation of Best: the order of ProcessDesc reversed.
Best_Lowest == {p \in Candidates : \A q \in Candidates : priority[q] >= priority[p]}

\* Candidates that BinaryHeap::pop can hand out first: ProcessDesc is ordered
\* by priority alone, so the order among equals is not determined.
Best == {p \in Candidates : \A q \in Candidates : priority[q] <= priority[p]}

\* The heaps pop_ready_proc() can leave behind when it returns n: entries of
\* processes that are no longer Ready are dropped if they come out before n,
\* and those with the priority of n may come out before or after it.
Remaining(n) ==
    {q \in [Pid -> UNION {0 .. pqueue[p] : p \in Pid}] :
        \A p \in Pid :
            IF p = n THEN q[p] = pqueue[p] - 1
            ELSE IF state[p] = "Ready" \/ priority[p] < priority[n]
                 THEN q[p] = pqueue[p]
            ELSE IF priority[p] > priority[n] THEN q[p] = 0
            ELSE q[p] <= pqueue[p]}

\* Mutation of Push: the entry is lost.
Push_Lost(q, p) == q

\* pqueue.push of a ProcessDesc for p.
Push(q, p) == [q EXCEPT ![p] = @ + 1]

\* Mutation of Stays: priorities are compared before the state is looked at.
Stays_WhenBlocked(n) == priority[running] > priority[n]

\* The hart stays with the running process: it has not blocked and is more
\* important than the process n that came out of the heap.
Stays(n) == state[running] = "Running" /\ priority[running] > priority[n]

\* Mutations of GivesWay: the state of the old process is not looked at, or
\* the old process is taken to have blocked.
GivesWay_InAnyState == TRUE
GivesWay_Never == FALSE

\* The process that is switched away from has not blocked, and is Ready again.
GivesWay == state[running] = "Running"

\* schedule() popped the Ready process n and left the heap q.
SwitchTo(n, q) ==
    \/ /\ Stays(n)
       /\ pqueue' = Push(q, n)
       /\ UNCHANGED <<state, running>>
    \/ /\ ~Stays(n)
       /\ pqueue' = IF GivesWay THEN Push(q, running) ELSE q
       /\ state' = [state EXCEPT ![running] = IF GivesWay THEN "Ready" ELSE @,
                                 ![n] = "Running"]
       /\ running' = n

\* One schedule() call, made with interrupts off.
Schedule ==
    /\ resched[running] > 0
    /\ resched' = [resched EXCEPT ![running] = @ - 1]
    /\ \/ /\ defer_count > 0
          /\ attempt' = TRUE
          /\ UNCHANGED <<state, pqueue, running>>
       \/ /\ defer_count = 0
          /\ Candidates = {}
          /\ pqueue' = [p \in Pid |-> 0]
          /\ UNCHANGED <<state, running, attempt>>
       \/ /\ defer_count = 0
          /\ \E n \in Best : \E q \in Remaining(n) : SwitchTo(n, q)
          /\ UNCHANGED attempt
    /\ UNCHANGED <<tables, queues, defer_count, thread, requested>>

-----------------------------------------------------------------------------
(***************************************************************************)
(* ready() with interrupts off, one process or several between             *)
(* defer_schedule(Start) and defer_schedule(Stop).                         *)
(***************************************************************************)

\* Mutation of Wakeable: a process that is still on the hart is not woken.
Wakeable_NotOnHart(S) ==
    {p \in S : state[p] \notin {"Absent", "Free", "Running", "Ready"} /\ p # running}

\* ready() returns at once for the other states.
Wakeable(S) == {p \in S : state[p] \notin {"Absent", "Free", "Running", "Ready"}}

\* The table and heap effect of ready() on each process of S.
MakeReady(S) ==
    /\ state' = [p \in Pid |-> IF p \in Wakeable(S) THEN "Ready" ELSE state[p]]
    /\ pqueue' = [p \in Pid |-> IF p \in Wakeable(S) THEN pqueue[p] + 1 ELSE pqueue[p]]

\* ready(pid) itself: a schedule() call follows if the state changed.
ReadyOne(p) ==
    /\ MakeReady({p})
    /\ PendSchedule(IF Wakeable({p}) = {} THEN 0 ELSE 1)

\* The attempt flag after a Start ... Stop bracket in which schedule() was
\* called iff called: Start resets it only at nesting depth 0.
AttemptAfter(called) == IF defer_count = 0 THEN called ELSE attempt \/ called

\* Mutation of EmptyBracket: Stop is left out on the early return.
EmptyBracket_LeftOpen == attempt' = AttemptAfter(FALSE) /\ defer_count' = defer_count + 1

\* Start and Stop with no schedule() call between them.
EmptyBracket == attempt' = AttemptAfter(FALSE) /\ UNCHANGED defer_count

\* Start; ready() for each process of S; Stop; then n more schedule() calls.
\* Stop makes one of its own if it ends the deferral and one was attempted.
ReadyDeferred(S, n) ==
    /\ MakeReady(S)
    /\ attempt' = AttemptAfter(Wakeable(S) # {})
    /\ PendSchedule(IF defer_count = 0 /\ Wakeable(S) # {} THEN n + 1 ELSE n)
    /\ UNCHANGED defer_count

-----------------------------------------------------------------------------
(***************************************************************************)
(* Operations with interrupts on, step by step.                            *)
(***************************************************************************)

\* defer_schedule(Start) at the head of create_process().
CreateStart ==
    /\ Idle
    /\ curr_pid <= MaxPid
    /\ attempt' = AttemptAfter(FALSE)
    /\ defer_count' = defer_count + 1
    /\ Goto("create")
    /\ UNCHANGED <<tables, state, pqueue, queues, running, resched, target, held, requested>>

\* The body of create_process(): a new table entry in state Suspend.
CreateProcess(prio) ==
    /\ InterruptsOn
    /\ pc[running] = "create"
    /\ curr_pid' = curr_pid + 1
    /\ state' = [state EXCEPT ![curr_pid] = "Suspend"]
    /\ priority' = [priority EXCEPT ![curr_pid] = prio]
    /\ Goto("stop")
    /\ UNCHANGED <<curr_sid, gpu_pid, pqueue, queues, defer, running, resched, target, held, requested>>

\* The defer_schedule(Start) of kmain(), before it creates a process.
DeferStart ==
    /\ Idle
    /\ running = NULL
    /\ curr_pid = 1
    /\ held = 0
    /\ attempt' = AttemptAfter(FALSE)
    /\ defer_count' = defer_count + 1
    /\ held' = 1
    /\ UNCHANGED <<tables, state, pqueue, queues, running, resched, pc, target, requested>>

\* defer_schedule(Stop), first half: the count is decremented.
DeferStop ==
    /\ InterruptsOn
    /\ \/ pc[running] = "stop" /\ UNCHANGED held
       \/ /\ pc[running] = "idle"
          /\ running = NULL
          /\ held = 1
          /\ held' = 0
    /\ defer_count' = defer_count - 1
    /\ Goto("check")
    /\ UNCHANGED <<tables, state, pqueue, queues, attempt, running, resched, target, requested>>

\* defer_schedule(Stop), second half: schedule if the count is zero and a
\* schedule() call was attempted.  An interrupt may come between the halves.
DeferCheck ==
    /\ InterruptsOn
    /\ pc[running] = "check"
    /\ Goto(IF defer_count = 0 /\ attempt THEN "call" ELSE "idle")
    /\ UNCHANGED <<tables, state, pqueue, queues, defer, running, resched, target, held, requested>>

\* ready(pid) called by the process that has just created pid: the state.
ReadyMark(p) ==
    /\ Idle
    /\ state[p] = "Suspend"
    /\ state' = [state EXCEPT ![p] = "Ready"]
    /\ target' = [target EXCEPT ![running] = p]
    /\ Goto("push")
    /\ UNCHANGED <<tables, pqueue, queues, defer, running, resched, held, requested>>

\* ready(pid): the heap entry.
ReadyPush ==
    /\ InterruptsOn
    /\ pc[running] = "push"
    /\ pqueue' = [pqueue EXCEPT ![target[running]] = @ + 1]
    /\ target' = [target EXCEPT ![running] = NULL]
    /\ Goto("call")
    /\ UNCHANGED <<tables, state, queues, defer, running, resched, held, requested>>

\* The drivers' io_wait(pid): the pid is the caller, or the process that ran
\* init_display when another process makes a GPU request.
IoWait(p) ==
    /\ MayBlock
    /\ p # NULL
    /\ p = running \/ (p = gpu_pid /\ pqueue[p] < MaxEntries)
    /\ state' = [state EXCEPT ![p] = "IOWait"]
    /\ target' = [target EXCEPT ![running] = p]
    /\ Goto("notify")
    /\ UNCHANGED <<tables, pqueue, queues, defer, running, resched, held, requested>>

\* The write of QueueNotify that follows: the device sees the request.
Notify ==
    /\ InterruptsOn
    /\ pc[running] = "notify"
    /\ requested' = requested \cup {target[running]}
    /\ target' = [target EXCEPT ![running] = NULL]
    /\ Goto("call")
    /\ UNCHANGED <<tables, state, pqueue, queues, defer, running, resched, held>>

\* schedule() called with interrupts on: at the end of the operations above,
\* or by itself, as in the loops of kmain() and fs_proc().
CallSchedule ==
    /\ InterruptsOn
    /\ pc[running] \in {"call", "idle"}
    /\ Goto("idle")
    /\ PendSchedule(1)
    /\ UNCHANGED <<tables, state, pqueue, queues, defer, running, target, held, requested>>

\* kproc runs init_display, which records the pid GPU requests wait on.
InitDisplay ==
    /\ Idle
    /\ running = Kproc
    /\ gpu_pid = NULL
    /\ gpu_pid' = running
    /\ UNCHANGED <<curr_pid, curr_sid, priority, state, pqueue, queues, defer, running, resched, thread, requested>>

-----------------------------------------------------------------------------
(***************************************************************************)
(* Operations that run with interrupts off.                                *)
(***************************************************************************)

\* create_semaphore(count).
CreateSemaphore(count) ==
    /\ Idle
    /\ curr_sid <= MaxSid
    /\ curr_sid' = curr_sid + 1
    /\ sem' = [sem EXCEPT ![curr_sid] = Semaphore(count, << >>)]
    /\ UNCHANGED <<curr_pid, priority, gpu_pid, state, pqueue, sleep_queue, event_queue,
                   defer, running, resched, thread, requested>>

\* Mutation of MustWait: off by one.
MustWait_OneTooEarly(s) == sem[s].count <= 1

\* The count of s is negative once wait_semaphore() has decremented it.
MustWait(s) == sem[s].count <= 0

\* wait_semaphore(sid): the caller blocks if the count becomes negative.
WaitSemaphore(s) ==
    /\ MayBlockOrExit
    /\ s < curr_sid
    /\ \/ /\ ~MustWait(s)
          /\ sem' = [sem EXCEPT ![s] = Semaphore(@.count - 1, @.queue)]
          /\ UNCHANGED <<state, resched>>
       \/ /\ MustWait(s)
          /\ sem' = [sem EXCEPT ![s] = Semaphore(@.count - 1, Append(@.queue, running))]
          /\ state' = [state EXCEPT ![running] = "SemaWait"]
          /\ PendSchedule(1)
    /\ UNCHANGED <<tables, pqueue, sleep_queue, event_queue, defer, running, thread, requested>>

\* signal_semaphore(sid): the longest waiting process is readied.
SignalSemaphore(s) ==
    /\ s < curr_sid
    /\ \/ /\ sem[s].count < 0
          /\ sem' = [sem EXCEPT ![s] = Semaphore(@.count + 1, Tail(@.queue))]
          /\ ReadyOne(Head(sem[s].queue))
       \/ /\ sem[s].count \in 0 .. MaxCount - 1
          /\ sem' = [sem EXCEPT ![s] = Semaphore(@.count + 1, @.queue)]
          /\ UNCHANGED <<state, pqueue, resched>>
    /\ UNCHANGED <<tables, sleep_queue, event_queue, defer, running, thread, requested>>

\* delete_semaphore(sid): every waiting process is readied, one switch.
DeleteSemaphore(s) ==
    /\ s < curr_sid
    /\ sem' = [sem EXCEPT ![s] = Semaphore(IF @.count < 0 THEN 0 ELSE @.count, << >>)]
    /\ ReadyDeferred({sem[s].queue[i] : i \in DOMAIN sem[s].queue}, 1)
    /\ UNCHANGED <<tables, sleep_queue, event_queue, running, thread, requested>>

\* sleep(running, delay).
Sleep(delay) ==
    /\ MayBlockOrExit
    /\ state' = [state EXCEPT ![running] = "Sleep"]
    /\ sleep_queue' = Insert(sleep_queue, running, delay)
    /\ PendSchedule(1)
    /\ UNCHANGED <<tables, pqueue, sem, event_queue, defer, running, thread, requested>>

\* kill(running): nobody can be waiting for the Exit event, since no process
\* ever has children, so event_signal() only opens and closes a deferral.
Kill ==
    /\ MayBlockOrExit
    /\ state' = [state EXCEPT ![running] = "Free"]
    /\ EmptyBracket
    /\ PendSchedule(1)
    /\ UNCHANGED <<tables, pqueue, queues, running, thread, requested>>

\* event_wait(running, event).
EventWait(e) ==
    /\ MayBlock
    /\ state' = [state EXCEPT ![running] = "EventWait"]
    /\ event_queue' = [event_queue EXCEPT ![e] = @ \cup {running}]
    /\ PendSchedule(1)
    /\ UNCHANGED <<tables, pqueue, sem, sleep_queue, defer, running, thread, requested>>

\* Mutation of EventSignal: the queue is read, not removed.
EventSignal_KeepsQueue(e) ==
    /\ \/ /\ event_queue[e] = {}
          /\ EmptyBracket
          /\ UNCHANGED <<state, pqueue, resched>>
       \/ /\ event_queue[e] # {}
          /\ ReadyDeferred(event_queue[e], 1)
    /\ UNCHANGED <<tables, queues, running, thread, requested>>

\* event_signal(event): all the processes waiting for it are readied.
EventSignal(e) ==
    /\ \/ /\ event_queue[e] = {}
          /\ EmptyBracket
          /\ UNCHANGED <<state, pqueue, resched>>
       \/ /\ event_queue[e] # {}
          /\ ReadyDeferred(event_queue[e], 1)
    /\ event_queue' = [event_queue EXCEPT ![e] = {}]
    /\ UNCHANGED <<tables, sem, sleep_queue, running, thread, requested>>

\* wait_exit(): with no children there is nothing to wait for.
WaitExit ==
    /\ Idle
    /\ EmptyBracket
    /\ PendSchedule(1)
    /\ UNCHANGED <<tables, state, pqueue, queues, running, thread, requested>>

\* io_signal(pid) from a driver's interrupt handler.  A request made on
\* behalf of the display process may be one of several in flight.
IoSignal(p) ==
    /\ p \in requested
    /\ \/ requested' = requested \ {p}
       \/ p = gpu_pid /\ UNCHANGED requested
    /\ ReadyOne(p)
    /\ UNCHANGED <<tables, queues, defer, running, thread>>

\* The timer interrupt: wakeup() readies the sleepers that are due, if there
\* is a list at all, and the handler itself ends with schedule().
TimerInterrupt ==
    /\ InterruptsOn
    /\ sleep_queue' = Tick(sleep_queue)
    /\ \/ /\ sleep_queue = << >>
          /\ PendSchedule(1)
          /\ UNCHANGED <<state, pqueue, defer>>
       \/ /\ sleep_queue # << >>
          /\ ReadyDeferred({p \in Due(sleep_queue) : state[p] = "Sleep"}, 2)
    /\ UNCHANGED <<tables, sem, event_queue, running, thread, requested>>

\* Device interrupts: the block and GPU drivers signal a process and their
\* semaphore, the input drivers an event.
DeviceInterrupt ==
    /\ InterruptsOn
    /\ \/ \E p \in Pid : IoSignal(p)
       \/ \E s \in Sid : SignalSemaphore(s)
       \/ \E e \in Events : EventSignal(e)

\* The same operations, and delete_semaphore, called by a process.
SignalByProcess ==
    /\ Idle
    /\ \E s \in Sid : SignalSemaphore(s) \/ DeleteSemaphore(s)

Operation ==
    \/ CreateStart
    \/ \E prio \in Priorities : CreateProcess(prio)
    \/ DeferStart
    \/ DeferStop
    \/ DeferCheck
    \/ \E p \in Pid : ReadyMark(p)
    \/ ReadyPush
    \/ \E p \in Pid : IoWait(p)
    \/ Notify
    \/ CallSchedule
    \/ InitDisplay
    \/ \E count \in Counts : CreateSemaphore(count)
    \/ \E s \in Sid : WaitSemaphore(s)
    \/ SignalByProcess
    \/ \E delay \in Delays : Sleep(delay)
    \/ Kill
    \/ \E e \in Events : EventWait(e)
    \/ WaitExit

Next == Schedule \/ Operation \/ TimerInterrupt \/ DeviceInterrupt

Spec == Init /\ [][Next]_vars

(***************************************************************************)
(* Fairness.  The hart keeps executing: a pending schedule() call is made, *)
(* and a process that is on the hart again and again in the middle of an   *)
(* operation gets on with it (interrupts do not come so fast that no       *)
(* instruction is executed between two of them).  The timer is periodic    *)
(* and a tick stays pending while interrupts are off.  Nothing is assumed  *)
(* of device interrupts, nor of processes starting new operations.         *)
(***************************************************************************)
Continue ==
    \/ \E prio \in Priorities : CreateProcess(prio)
    \/ DeferStop
    \/ DeferCheck
    \/ ReadyPush
    \/ Notify
    \/ pc[running] = "call" /\ CallSchedule

Fairness ==
    /\ WF_vars(Schedule)
    /\ \A p \in Pid : SF_vars(running = p /\ Continue)
    /\ SF_vars(TimerInterrupt)

FairSpec == Spec /\ Fairness

-----------------------------------------------------------------------------
(***************************************************************************)
(* Invariants.                                                             *)
(***************************************************************************)

\* A ready() call with interrupts on has marked p and not yet queued it.
PushPending(p) == \E q \in Pid : pc[q] = "push" /\ target[q] = p

\* The process table holds exactly the pids handed out so far, so that no
\* get_process! lookup of a live pid can fail.
TableMatchesPids == \A p \in Pid : p < curr_pid <=> state[p] # "Absent"

\* Two processes are never Running: whatever order schedule(), ready() and
\* the interrupt handlers change the table in, only the process on the hart
\* is in state Running.
OneRunning == \A p \in Pid : state[p] = "Running" => p = running

\* A process that has blocked itself or was killed executes nothing but its
\* pending schedule() calls: when it is back in interruptible code it has been
\* made Running again.  Only a driver between io_wait() and its schedule() call
\* runs in state IOWait.  (kill() frees the stack it runs on, so a killed
\* process that came back would run on freed memory.)
BlockedNeverRuns ==
    InterruptsOn =>
        \/ state[running] = "Running"
        \/ state[running] = "IOWait" /\ pc[running] \in {"notify", "call"}

\* A Ready process is in the heap, or the ready() call that marked it is about
\* to push it: pop_ready_proc() drops entries of processes that are not Ready,
\* and must never drop the last entry of one that is.
ReadyIsQueued == \A p \in Pid : state[p] = "Ready" => pqueue[p] > 0 \/ PushPending(p)

\* The null process can always be switched to, so that schedule() called by a
\* blocked or killed process always leaves it.
NullSchedulable ==
    \/ state[NULL] = "Running"
    \/ state[NULL] = "Ready" /\ pqueue[NULL] > 0

\* The deferral count is what the running process itself has open: a process
\* that opened a deferral is never switched away from, and an interrupt
\* handler that nests its own leaves the count as it found it.
DeferralOwned ==
    \A p \in Pid :
        (IF p = NULL THEN held ELSE 0) + (IF pc[p] \in {"create", "stop"} THEN 1 ELSE 0) =
            (IF p = running THEN defer_count ELSE 0)

\* The queue of a semaphore is as long as its count is negative, so the
\* pop_front().unwrap() of signal_semaphore() and delete_semaphore() never
\* panics and no waiter is left behind by a non-negative count.
SemaphoreQueueMatchesCount ==
    \A s \in Sid : Len(sem[s].queue) = (IF sem[s].count < 0 THEN -sem[s].count ELSE 0)

\* No delay in the sleep list is negative: the unsigned subtractions of sleep()
\* (delay - delay_sum, and the delay of the node behind the new one) never
\* underflow, whatever ticks and insertions came before.
DelaysNeverUnderflow == NonNegative(sleep_queue)

\* The places in which p is queued at a semaphore.
SemaphoreSlots(p) ==
    UNION {{<<s, i>> : i \in {j \in DOMAIN sem[s].queue : sem[s].queue[j] = p}} : s \in Sid}

\* The state of a process and the queues agree: a process in SemaWait is in
\* exactly one semaphore queue, once, and no other process is in any; a Sleep
\* process has exactly one node in the sleep list and nobody else has one; an
\* EventWait process is in an event queue.  A stale entry would hand a permit
\* to a process that does not wait for it, or end a later sleep early.
WaitersMatchQueues ==
    \A p \in Pid :
        /\ Cardinality(SemaphoreSlots(p)) = (IF state[p] = "SemaWait" THEN 1 ELSE 0)
        /\ Cardinality({i \in DOMAIN sleep_queue : sleep_queue[i].pid = p}) =
               (IF state[p] = "Sleep" THEN 1 ELSE 0)
        /\ state[p] = "EventWait" => \E e \in Events : p \in event_queue[e]

\* Only the display process can be found in an event queue without waiting
\* there: another process's GPU request turns its EventWait into IOWait.
EventQueuesExact ==
    \A e \in Events : \A p \in event_queue[e] : state[p] = "EventWait" \/ p = gpu_pid

\* Whoever is in IOWait has a request at a device, or a driver that is on its
\* way to notify one: a completion that comes before its process has left the
\* hart is not lost.
IOWaitIsAnswered ==
    \A p \in Pid : state[p] = "IOWait" =>
        \/ p \in requested
        \/ \E q \in Pid : pc[q] = "notify" /\ target[q] = p

(***************************************************************************)
(* The inductive invariant: what has to be known besides, so that every    *)
(* step preserves the properties above.                                    *)
(***************************************************************************)

\* A process in create_process() has a pid to hand out.
CreateInBounds == \A p \in Pid : pc[p] = "create" => curr_pid <= MaxPid

\* While the scheduler is deferred, the process on the hart has not blocked.
DeferralKeepsRunning == defer_count > 0 => state[running] = "Running"

\* The process GPU requests wait on has been created and lives.
DisplayAlive ==
    gpu_pid # NULL => state[gpu_pid] \notin {"Absent", "Suspend", "Sleep", "SemaWait", "Free"}

SchedulerInv ==
    /\ TypeOK
    /\ TableMatchesPids
    /\ OneRunning
    /\ BlockedNeverRuns
    /\ ReadyIsQueued
    /\ NullSchedulable
    /\ DeferralOwned
    /\ SemaphoreQueueMatchesCount
    /\ CreateInBounds
    /\ DeferralKeepsRunning
    /\ DisplayAlive

-----------------------------------------------------------------------------
(***************************************************************************)
(* Action properties.                                                      *)
(***************************************************************************)

\* After a schedule() call that was not deferred no queued Ready process has a
\* higher priority than the one on the hart.
HighestPriorityRuns ==
    [][ (resched'[running] < resched[running] /\ defer_count = 0) =>
            \A p \in Pid : (state'[p] = "Ready" /\ priority[p] > priority[running'])
                               => PushPending(p) ]_vars

\* A killed process is never revived: not by a late completion, a stale queue
\* entry or a request of another process.
DeadStaysDead == [][\A p \in Pid : state[p] = "Free" => state'[p] = "Free"]_vars

-----------------------------------------------------------------------------
(***************************************************************************)
(* Liveness, under FairSpec.                                               *)
(***************************************************************************)

\* A process that stays queued for ever is passed over only for processes of at
\* least its own priority: a schedule() attempt that an interrupt makes
\* defer_schedule(Stop) forget is made up for by a later tick.  (A process whose
\* ready() call is preempted before the push has no such guarantee.)
NotStarvedFromBelow ==
    \A p \in Pid :
        <>[](state[p] = "Ready" /\ ~PushPending(p)) => <>[](priority[running] >= priority[p])

\* A process that waits for a response has its request sent: the drivers set
\* IOWait first and write QueueNotify after it, and are to get to the write.
RequestsAreSent ==
    \A p \in Pid : state[p] = "IOWait" ~> (p \in requested \/ state[p] # "IOWait")

\* A process that sleeps for ever is kept asleep by others that ask for sleep(0) again
\* and again: a tick that finds a delay of 0 at the head of the list wakes that process
\* and does not count for those behind it.  Nothing else done to the list keeps a
\* process asleep.
SleepersWake ==
    \A p \in Pid : <>[](state[p] = "Sleep") =>
        []<>(sleep_queue # << >> /\ sleep_queue[1].delay = 0 /\ sleep_queue[1].pid # p)
=============================================================================
