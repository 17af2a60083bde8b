------------------------ MODULE ProcessManagerProofs ------------------------
(***************************************************************************)
(* The scheduler's safety properties, for every number of processes and    *)
(* semaphores and every choice of the other constants of ProcessManager.   *)
(***************************************************************************)
EXTENDS ProcessManager, SleepQueue, DeltaListProofs

\* The constants are well placed among the pids.
LEMMA PidFacts ==
    /\ NULL \in Pid /\ NULL = 0
    /\ Kproc \in Pid /\ Kproc # NULL
    /\ \A p \in Pid : p \in Nat /\ p <= MaxPid
    /\ \A p \in Nat : p <= MaxPid => p \in Pid
  BY MaxPidAssumption, KprocAssumption DEF Pid, NULL

\* The invariant holds when process::init() returns.
LEMMA InitInv == Init => SchedulerInv
<1> SUFFICES ASSUME Init PROVE SchedulerInv
  OBVIOUS
<1> USE PidFacts, MaxPidAssumption, MaxSidAssumption
<1>1. TypeOK
  <2>1. /\ curr_pid \in 0 .. MaxPid + 1 /\ curr_sid \in 0 .. MaxSid + 1
        /\ defer_count \in Nat /\ running \in Pid /\ held \in {0, 1}
    BY DEF Init
  <2>2. /\ state \in [Pid -> State] /\ pc \in [Pid -> Position]
        /\ attempt \in BOOLEAN /\ gpu_pid \in {NULL, Kproc}
        /\ event_queue \in [Events -> SUBSET Pid] /\ requested \in SUBSET Pid
    BY DEF Init, State, Position
  <2>3. /\ priority \in [Pid -> Nat] /\ pqueue \in [Pid -> Nat]
        /\ resched \in [Pid -> Nat] /\ target \in [Pid -> Pid]
    BY DEF Init
  <2>4. sleep_queue \in Seq([pid : Pid, delay : Int])
    BY DEF Init
  <2>5. sem \in [Sid -> [count : Int, queue : Seq(Pid)]]
    BY DEF Init, Semaphore
  <2> QED BY <2>1, <2>2, <2>3, <2>4, <2>5 DEF TypeOK
<1>2. TableMatchesPids /\ OneRunning /\ BlockedNeverRuns /\ ReadyIsQueued /\ NullSchedulable
  BY DEF Init, TableMatchesPids, OneRunning, BlockedNeverRuns, InterruptsOn, ReadyIsQueued, NullSchedulable
<1>3. DeferralOwned /\ CreateInBounds /\ DeferralKeepsRunning /\ DisplayAlive
  BY DEF Init, DeferralOwned, CreateInBounds, DeferralKeepsRunning, DisplayAlive
<1>4. SemaphoreQueueMatchesCount
  BY DEF Init, SemaphoreQueueMatchesCount, Semaphore
<1> QED
  BY <1>1, <1>2, <1>3, <1>4 DEF SchedulerInv

-----------------------------------------------------------------------------
(***************************************************************************)
(* schedule().                                                             *)
(***************************************************************************)

\* What pop_ready_proc() leaves in the heap.
LEMMA RemainingProperties ==
    ASSUME TypeOK, NEW n \in Best, NEW q \in Remaining(n)
    PROVE  /\ q \in [Pid -> Nat]
           /\ n \in Pid /\ state[n] = "Ready" /\ pqueue[n] > 0
           /\ q[n] = pqueue[n] - 1
           /\ \A p \in Pid : p # n /\ state[p] = "Ready" => q[p] = pqueue[p]
<1>1. n \in Pid /\ state[n] = "Ready" /\ pqueue[n] > 0
  BY DEF Best, Candidates
<1>2. \A x \in UNION {0 .. pqueue[p] : p \in Pid} : x \in Nat
  BY DEF TypeOK
<1>3. q \in [Pid -> UNION {0 .. pqueue[p] : p \in Pid}]
  BY DEF Remaining
<1>4. q \in [Pid -> Nat]
  BY <1>2, <1>3
<1>5. q[n] = pqueue[n] - 1 /\ \A p \in Pid : p # n /\ state[p] = "Ready" => q[p] = pqueue[p]
  BY <1>1 DEF Remaining
<1> QED
  BY <1>1, <1>4, <1>5

\* schedule() preserves the invariant, deferred, with an empty heap or switching.
LEMMA ScheduleInv == SchedulerInv /\ Schedule => SchedulerInv'
<1> SUFFICES ASSUME SchedulerInv, Schedule PROVE SchedulerInv'
  OBVIOUS
<1> USE PidFacts
<1>a. /\ resched[running] > 0
      /\ resched' = [resched EXCEPT ![running] = @ - 1]
      /\ UNCHANGED <<tables, queues, defer_count, thread, requested>>
  BY DEF Schedule
<1>b. TypeOK
  BY DEF SchedulerInv
<1>c. /\ UNCHANGED <<curr_pid, curr_sid, priority, gpu_pid, sem, sleep_queue, event_queue>>
      /\ UNCHANGED <<defer_count, pc, target, held, requested>>
  BY <1>a DEF tables, queues, thread
<1>d. resched' \in [Pid -> Nat]
  <2>1. resched \in [Pid -> Nat] /\ running \in Pid
    BY <1>b DEF TypeOK
  <2>2. resched[running] - 1 \in Nat
    BY <2>1, <1>a
  <2> QED BY <2>1, <2>2, <1>a
<1>1. CASE defer_count > 0 /\ attempt' = TRUE /\ UNCHANGED <<state, pqueue, running>>
  <2>1. TypeOK'
    BY <1>1, <1>b, <1>c, <1>d DEF TypeOK
  <2>2. BlockedNeverRuns' /\ DeferralKeepsRunning'
    BY <1>1, <1>c DEF SchedulerInv, DeferralKeepsRunning, BlockedNeverRuns
  <2>3. TableMatchesPids' /\ OneRunning' /\ ReadyIsQueued' /\ NullSchedulable'
    BY <1>1, <1>c DEF SchedulerInv, TableMatchesPids, OneRunning, ReadyIsQueued, NullSchedulable, PushPending
  <2>4. DeferralOwned' /\ SemaphoreQueueMatchesCount' /\ CreateInBounds' /\ DisplayAlive'
    BY <1>1, <1>c DEF SchedulerInv, DeferralOwned, SemaphoreQueueMatchesCount, CreateInBounds, DisplayAlive
  <2> QED BY <2>1, <2>2, <2>3, <2>4 DEF SchedulerInv
<1>2. CASE /\ defer_count = 0
           /\ Candidates = {}
           /\ pqueue' = [p \in Pid |-> 0]
           /\ UNCHANGED <<state, running, attempt>>
  <2>0. state[NULL] = "Running" /\ state[running] = "Running"
    <3>1. ~(state[NULL] = "Ready" /\ pqueue[NULL] > 0)
      BY <1>2 DEF Candidates
    <3> QED BY <3>1, <1>b DEF SchedulerInv, NullSchedulable, OneRunning, TypeOK
  <2>1. TypeOK'
    BY <1>2, <1>b, <1>c, <1>d DEF TypeOK
  <2>2. BlockedNeverRuns' /\ DeferralKeepsRunning' /\ NullSchedulable'
    BY <1>2, <1>c, <2>0 DEF DeferralKeepsRunning, BlockedNeverRuns, NullSchedulable
  <2>3. ReadyIsQueued'
    <3>1. ASSUME NEW p \in Pid, state'[p] = "Ready" PROVE PushPending(p)'
      <4>1. ~(pqueue[p] > 0)
        BY <3>1, <1>2 DEF Candidates
      <4>2. PushPending(p)
        BY <4>1, <3>1, <1>2 DEF SchedulerInv, ReadyIsQueued
      <4> QED BY <4>2, <1>c DEF PushPending
    <3> QED BY <3>1 DEF ReadyIsQueued
  <2>4. TableMatchesPids' /\ OneRunning'
    BY <1>2, <1>c DEF SchedulerInv, TableMatchesPids, OneRunning
  <2>5. DeferralOwned' /\ SemaphoreQueueMatchesCount' /\ CreateInBounds' /\ DisplayAlive'
    BY <1>2, <1>c DEF SchedulerInv, DeferralOwned, SemaphoreQueueMatchesCount, CreateInBounds, DisplayAlive
  <2> QED BY <2>1, <2>2, <2>3, <2>4, <2>5 DEF SchedulerInv
<1>3. CASE /\ defer_count = 0
           /\ \E n \in Best : \E q \in Remaining(n) : SwitchTo(n, q)
           /\ UNCHANGED attempt
  <2>0. PICK n \in Best : \E q \in Remaining(n) : SwitchTo(n, q)
    BY <1>3
  <2>1. PICK q \in Remaining(n) : SwitchTo(n, q)
    BY <2>0
  <2>2. /\ q \in [Pid -> Nat]
        /\ n \in Pid /\ state[n] = "Ready" /\ pqueue[n] > 0
        /\ q[n] = pqueue[n] - 1
        /\ \A p \in Pid : p # n /\ state[p] = "Ready" => q[p] = pqueue[p]
    BY <1>b, RemainingProperties
  <2>3. state \in [Pid -> State] /\ running \in Pid /\ pqueue \in [Pid -> Nat]
    BY <1>b DEF TypeOK
  \* The four things a switch can leave behind, whichever disjunct it took.
  <2>4. /\ pqueue' \in [Pid -> Nat] /\ state' \in [Pid -> State] /\ running' \in Pid
        /\ state'[running'] = "Running"
        /\ \A p \in Pid : state'[p] = "Running" => p = running'
        /\ \A p \in Pid : state'[p] = "Ready" =>
              \/ pqueue'[p] > 0
              \/ state[p] = "Ready" /\ pqueue[p] = pqueue'[p]
        /\ \A p \in Pid : state'[p] \in {"Running", "Ready"} \/ state'[p] = state[p]
        /\ \A p \in Pid : state'[p] # state[p] => state[p] \in {"Running", "Ready"}
    <3>1. CASE /\ state[running] = "Running"
               /\ priority[running] > priority[n]
               /\ pqueue' = [q EXCEPT ![n] = @ + 1]
               /\ UNCHANGED <<state, running>>
      BY <3>1, <2>2, <2>3 DEF SchedulerInv, OneRunning
    <3>2. CASE /\ state[running] = "Running"
               /\ priority[running] <= priority[n]
               /\ pqueue' = [q EXCEPT ![running] = @ + 1]
               /\ state' = [state EXCEPT ![running] = "Ready", ![n] = "Running"]
               /\ running' = n
      <4>1. n # running /\ q[running] \in Nat /\ q[running] + 1 \in Nat
        BY <3>2, <2>2, <2>3
      <4>2. /\ state'[n] = "Running" /\ state'[running] = "Ready"
            /\ \A p \in Pid : p # n /\ p # running => state'[p] = state[p]
            /\ state' \in [Pid -> State]
        BY <4>1, <3>2, <2>2, <2>3 DEF State
      <4>3. /\ pqueue' \in [Pid -> Nat] /\ pqueue'[running] > 0
            /\ \A p \in Pid : p # n /\ p # running /\ state[p] = "Ready" => pqueue'[p] = pqueue[p]
        BY <4>1, <3>2, <2>2, <2>3
      <4> QED BY <4>1, <4>2, <4>3, <3>2, <2>2, <2>3 DEF SchedulerInv, OneRunning
    <3>3. CASE /\ state[running] # "Running"
               /\ pqueue' = q
               /\ state' = [state EXCEPT ![n] = "Running"]
               /\ running' = n
      BY <3>3, <2>2, <2>3 DEF SchedulerInv, OneRunning, State
    <3>4. priority[running] \in Nat /\ priority[n] \in Nat
      BY <1>b, <2>2, <2>3 DEF TypeOK
    <3>5. CASE Stays(n)
      BY <2>1, <3>1, <3>5 DEF SwitchTo, Stays, Push
    <3>6. CASE ~Stays(n) /\ GivesWay
      BY <2>1, <3>2, <3>4, <3>6 DEF SwitchTo, Stays, GivesWay, Push
    <3>7. CASE ~Stays(n) /\ ~GivesWay
      <4>1. [state EXCEPT ![running] = @, ![n] = "Running"] = [state EXCEPT ![n] = "Running"]
        BY <2>2, <2>3
      <4> QED BY <2>1, <3>3, <3>7, <4>1 DEF SwitchTo, Stays, GivesWay
    <3> QED BY <3>5, <3>6, <3>7
  <2>5. TypeOK'
    BY <2>4, <1>3, <1>b, <1>c, <1>d DEF TypeOK
  <2>6. TableMatchesPids' /\ OneRunning'
    BY <2>4, <1>c DEF SchedulerInv, TableMatchesPids, OneRunning
  <2>7. BlockedNeverRuns' /\ DeferralKeepsRunning'
    BY <2>4 DEF BlockedNeverRuns, DeferralKeepsRunning
  <2>8. ReadyIsQueued'
    <3>1. ASSUME NEW p \in Pid, state'[p] = "Ready", ~(pqueue'[p] > 0) PROVE PushPending(p)'
      <4>1. PushPending(p)
        BY <3>1, <2>4 DEF SchedulerInv, ReadyIsQueued
      <4> QED BY <4>1, <1>c DEF PushPending
    <3> QED BY <3>1 DEF ReadyIsQueued
  <2>9. NullSchedulable'
    <3>1. state'[NULL] \in {"Running", "Ready"}
      BY <2>4 DEF SchedulerInv, NullSchedulable
    <3>2. state'[NULL] = "Ready" => pqueue'[NULL] > 0
      BY <2>4 DEF SchedulerInv, NullSchedulable
    <3> QED BY <3>1, <3>2 DEF NullSchedulable
  <2>10. DeferralOwned' /\ CreateInBounds'
    BY <2>4, <1>3, <1>c, <2>3 DEF SchedulerInv, DeferralOwned, CreateInBounds
  <2>11. SemaphoreQueueMatchesCount'
    BY <1>c DEF SchedulerInv, SemaphoreQueueMatchesCount
  <2>12. DisplayAlive'
    <3>1. gpu_pid \in Pid /\ gpu_pid' = gpu_pid
      BY <1>b, <1>c DEF TypeOK
    <3> QED BY <2>4, <3>1 DEF SchedulerInv, DisplayAlive
  <2> QED BY <2>5, <2>6, <2>7, <2>8, <2>9, <2>10, <2>11, <2>12 DEF SchedulerInv
<1> QED
  BY <1>1, <1>2, <1>3 DEF Schedule

-----------------------------------------------------------------------------
(***************************************************************************)
(* Facts shared by the operations.                                         *)
(***************************************************************************)

\* A process between two operations is Running.
LEMMA IdleFacts ==
    ASSUME SchedulerInv, Idle
    PROVE  running \in Pid /\ state[running] = "Running" /\ pc[running] = "idle"
  BY DEF SchedulerInv, TypeOK, Idle, BlockedNeverRuns

\* One that may block has no deferral open.
LEMMA MayBlockFacts ==
    ASSUME SchedulerInv, MayBlock
    PROVE  /\ running \in Pid /\ state[running] = "Running" /\ pc[running] = "idle"
           /\ running # NULL /\ defer_count = 0
<1>1. running \in Pid /\ state[running] = "Running" /\ pc[running] = "idle" /\ running # NULL
  BY IdleFacts DEF MayBlock
<1> QED
  BY <1>1 DEF SchedulerInv, DeferralOwned

\* Moving to another position keeps pc well typed.
LEMMA GotoType ==
    ASSUME TypeOK, NEW l \in Position, Goto(l)
    PROVE  /\ pc' \in [Pid -> Position]
           /\ running \in Pid
           /\ pc'[running] = l
           /\ \A p \in Pid : p # running => pc'[p] = pc[p]
  BY DEF TypeOK, Goto

\* Pending schedule() calls keep resched well typed.
LEMMA PendType ==
    ASSUME TypeOK, NEW n \in Nat, PendSchedule(n)
    PROVE  /\ resched' \in [Pid -> Nat]
           /\ resched[running] \in Nat
           /\ resched'[running] = resched[running] + n
  BY DEF TypeOK, PendSchedule

\* The conjuncts that only speak of the table and the heap.
LEMMA SameTable ==
    ASSUME SchedulerInv, UNCHANGED <<curr_pid, state, pqueue, running, gpu_pid>>
    PROVE  TableMatchesPids' /\ OneRunning' /\ NullSchedulable' /\ DisplayAlive'
  BY DEF SchedulerInv, TableMatchesPids, OneRunning, NullSchedulable, DisplayAlive

\* No ready() call between its two halves is disturbed by a move of a process
\* that is not itself in one.
LEMMA SamePending ==
    ASSUME SchedulerInv, pc[running] # "push",
           \A p \in Pid : p # running => pc'[p] = pc[p] /\ target'[p] = target[p]
    PROVE  \A p \in Pid : PushPending(p) => PushPending(p)'
  BY DEF PushPending

-----------------------------------------------------------------------------
(***************************************************************************)
(* Operations with interrupts on.                                          *)
(***************************************************************************)

\* Opening a deferral: create_process() and kmain().
LEMMA StartInv ==
    ASSUME SchedulerInv, CreateStart \/ DeferStart
    PROVE  SchedulerInv'
<1> USE PidFacts
<1>a. TypeOK
  BY DEF SchedulerInv
<1>b. /\ Idle
      /\ attempt' = AttemptAfter(FALSE)
      /\ defer_count' = defer_count + 1
      /\ UNCHANGED <<curr_pid, curr_sid, priority, gpu_pid, state, pqueue, sem, sleep_queue>>
      /\ UNCHANGED <<event_queue, running, resched, target, requested>>
  BY DEF CreateStart, DeferStart, tables, queues
<1>c. \/ pc' = [pc EXCEPT ![running] = "create"] /\ held' = held /\ curr_pid <= MaxPid
      \/ pc' = pc /\ held' = 1 /\ held = 0 /\ running = NULL
  BY DEF CreateStart, DeferStart, Goto
<1>d. running \in Pid /\ state[running] = "Running" /\ pc[running] = "idle"
  BY <1>b, IdleFacts
<1>e. /\ pc' \in [Pid -> Position] /\ held' \in {0, 1}
      /\ \A p \in Pid : p # running => pc'[p] = pc[p]
  BY <1>a, <1>c, <1>d DEF TypeOK, Position
<1>1. TypeOK'
  <2>1. attempt' \in BOOLEAN
    BY <1>a, <1>b, Zenon DEF AttemptAfter, TypeOK
  <2>2. defer_count' \in Nat
    BY <1>a, <1>b DEF TypeOK
  <2> QED BY <1>a, <1>b, <1>e, <2>1, <2>2 DEF TypeOK
<1>2. TableMatchesPids' /\ OneRunning' /\ NullSchedulable' /\ DisplayAlive'
  BY <1>b, SameTable
<1>3. BlockedNeverRuns' /\ DeferralKeepsRunning'
  BY <1>b, <1>d DEF BlockedNeverRuns, DeferralKeepsRunning
<1>4. ReadyIsQueued'
  BY <1>b, <1>d, <1>e, SamePending DEF SchedulerInv, ReadyIsQueued
<1>5. DeferralOwned'
  <2>1. SUFFICES ASSUME NEW p \in Pid
                 PROVE (IF p = NULL THEN held' ELSE 0) + (IF pc'[p] \in {"create", "stop"} THEN 1 ELSE 0) =
                       (IF p = running THEN defer_count + 1 ELSE 0)
    BY <1>b DEF DeferralOwned
  <2>2. (IF p = NULL THEN held ELSE 0) + (IF pc[p] \in {"create", "stop"} THEN 1 ELSE 0) =
        (IF p = running THEN defer_count ELSE 0)
    BY DEF SchedulerInv, DeferralOwned
  <2>3. held \in {0, 1} /\ defer_count \in Nat /\ pc \in [Pid -> Position]
    BY <1>a DEF TypeOK
  <2>4. CASE pc' = [pc EXCEPT ![running] = "create"] /\ held' = held
    BY <2>2, <2>3, <2>4, <1>d
  <2>5. CASE pc' = pc /\ held' = 1 /\ held = 0 /\ running = NULL
    BY <2>2, <2>3, <2>5, <1>d
  <2> QED BY <1>c, <2>4, <2>5
<1>6. SemaphoreQueueMatchesCount' /\ CreateInBounds'
  BY <1>a, <1>b, <1>c, <1>d DEF SchedulerInv, SemaphoreQueueMatchesCount, CreateInBounds, TypeOK
<1> QED
  BY <1>1, <1>2, <1>3, <1>4, <1>5, <1>6 DEF SchedulerInv

\* The body of create_process(): only a new pid enters the table.
LEMMA CreateProcessInv ==
    ASSUME SchedulerInv, NEW prio \in Priorities, CreateProcess(prio)
    PROVE  SchedulerInv'
<1> USE PidFacts
<1>a. TypeOK
  BY DEF SchedulerInv
<1>b. /\ InterruptsOn /\ pc[running] = "create" /\ Goto("stop")
      /\ curr_pid' = curr_pid + 1
      /\ state' = [state EXCEPT ![curr_pid] = "Suspend"]
      /\ priority' = [priority EXCEPT ![curr_pid] = prio]
      /\ UNCHANGED <<curr_sid, gpu_pid, pqueue, sem, sleep_queue, event_queue, defer_count>>
      /\ UNCHANGED <<attempt, running, resched, target, held, requested>>
  BY DEF CreateProcess, queues, defer
<1>c. /\ running \in Pid /\ pc' \in [Pid -> Position] /\ pc'[running] = "stop"
      /\ \A p \in Pid : p # running => pc'[p] = pc[p]
  <2>1. "stop" \in Position
    BY DEF Position
  <2> QED BY <1>a, <1>b, <2>1, GotoType
<1>d. state \in [Pid -> State] /\ curr_pid \in Nat /\ prio \in Nat
  BY <1>a, PrioritiesAssumption, MaxPidAssumption DEF TypeOK
<1>e. curr_pid \in Pid /\ state[curr_pid] = "Absent" /\ curr_pid <= MaxPid
  <2>1. curr_pid <= MaxPid
    BY <1>b, <1>c DEF SchedulerInv, CreateInBounds
  <2>2. curr_pid \in Pid
    BY <2>1, <1>d
  <2> QED BY <2>1, <2>2, <1>d DEF SchedulerInv, TableMatchesPids
<1>f. /\ state'[curr_pid] = "Suspend"
      /\ \A p \in Pid : p # curr_pid => state'[p] = state[p]
  BY <1>b, <1>d, <1>e
<1>1. TypeOK'
  <2>1. state' \in [Pid -> State]
    BY <1>b, <1>d, <1>e DEF State
  <2>2. priority' \in [Pid -> Nat]
    BY <1>a, <1>b, <1>d, <1>e DEF TypeOK
  <2>3. curr_pid' \in 0 .. MaxPid + 1
    BY <1>b, <1>d, <1>e, MaxPidAssumption
  <2> QED BY <1>a, <1>b, <1>c, <2>1, <2>2, <2>3 DEF TypeOK
<1>2. TableMatchesPids'
  BY <1>b, <1>d, <1>e, <1>f DEF SchedulerInv, TableMatchesPids
<1>3. OneRunning' /\ NullSchedulable'
  BY <1>b, <1>e, <1>f DEF SchedulerInv, OneRunning, NullSchedulable
<1>4. BlockedNeverRuns' /\ DeferralKeepsRunning'
  <2>1. state[running] = "Running" /\ running # curr_pid
    BY <1>b, <1>e DEF SchedulerInv, BlockedNeverRuns
  <2> QED BY <2>1, <1>b, <1>c, <1>f DEF BlockedNeverRuns, DeferralKeepsRunning
<1>5. ReadyIsQueued'
  <2>1. \A p \in Pid : PushPending(p) => PushPending(p)'
    BY <1>b, <1>c, SamePending
  <2> QED BY <2>1, <1>b, <1>f DEF SchedulerInv, ReadyIsQueued
<1>6. DeferralOwned'
  BY <1>b, <1>c DEF SchedulerInv, DeferralOwned
<1>7. CreateInBounds'
  <2>1. ASSUME NEW p \in Pid, p # running PROVE pc[p] # "create"
    <3>1. held \in {0, 1} /\ (IF p = NULL THEN held ELSE 0) \in {0, 1}
      BY <1>a DEF TypeOK
    <3> QED BY <2>1, <3>1 DEF SchedulerInv, DeferralOwned
  <2> QED BY <2>1, <1>c DEF CreateInBounds
<1>8. SemaphoreQueueMatchesCount'
  BY <1>b DEF SchedulerInv, SemaphoreQueueMatchesCount
<1>9. DisplayAlive'
  <2>1. gpu_pid \in Pid
    BY <1>a DEF TypeOK
  <2> QED BY <2>1, <1>b, <1>e, <1>f DEF SchedulerInv, DisplayAlive
<1> QED
  BY <1>1, <1>2, <1>3, <1>4, <1>5, <1>6, <1>7, <1>8, <1>9 DEF SchedulerInv

\* defer_schedule(Stop), first half.
LEMMA DeferStopInv ==
    ASSUME SchedulerInv, DeferStop
    PROVE  SchedulerInv'
<1> USE PidFacts
<1>a. TypeOK
  BY DEF SchedulerInv
<1>b. /\ InterruptsOn /\ Goto("check")
      /\ defer_count' = defer_count - 1
      /\ UNCHANGED <<curr_pid, curr_sid, priority, gpu_pid, state, pqueue, sem, sleep_queue>>
      /\ UNCHANGED <<event_queue, attempt, running, resched, target, requested>>
  BY DEF DeferStop, tables, queues
<1>c. \/ pc[running] = "stop" /\ held' = held
      \/ pc[running] = "idle" /\ running = NULL /\ held = 1 /\ held' = 0
  BY DEF DeferStop
<1>d. /\ running \in Pid /\ pc' \in [Pid -> Position] /\ pc'[running] = "check"
      /\ \A p \in Pid : p # running => pc'[p] = pc[p]
  <2>1. "check" \in Position
    BY DEF Position
  <2> QED BY <1>a, <1>b, <2>1, GotoType
<1>e. held \in {0, 1} /\ held' \in {0, 1} /\ defer_count \in Nat
  BY <1>a, <1>c DEF TypeOK
<1>f. \A p \in Pid :
        (IF p = NULL THEN held ELSE 0) + (IF pc[p] \in {"create", "stop"} THEN 1 ELSE 0) =
        (IF p = running THEN defer_count ELSE 0)
  BY DEF SchedulerInv, DeferralOwned
<1>g. defer_count > 0 /\ state[running] = "Running"
  <2>1. defer_count > 0
    BY <1>c, <1>d, <1>e, <1>f
  <2> QED BY <2>1 DEF SchedulerInv, DeferralKeepsRunning
<1>1. TypeOK'
  <2>1. defer_count' \in Nat
    BY <1>b, <1>e, <1>g
  <2> QED BY <1>a, <1>b, <1>d, <1>e, <2>1 DEF TypeOK
<1>2. TableMatchesPids' /\ OneRunning' /\ NullSchedulable' /\ DisplayAlive'
  BY <1>b, SameTable
<1>3. BlockedNeverRuns' /\ DeferralKeepsRunning'
  BY <1>b, <1>g DEF BlockedNeverRuns, DeferralKeepsRunning
<1>4. ReadyIsQueued'
  <2>1. \A p \in Pid : PushPending(p) => PushPending(p)'
    BY <1>b, <1>c, <1>d, SamePending
  <2> QED BY <2>1, <1>b DEF SchedulerInv, ReadyIsQueued
<1>5. DeferralOwned'
  <2> SUFFICES ASSUME NEW p \in Pid
               PROVE (IF p = NULL THEN held' ELSE 0) + (IF pc'[p] \in {"create", "stop"} THEN 1 ELSE 0) =
                     (IF p = running THEN defer_count - 1 ELSE 0)
    BY <1>b DEF DeferralOwned
  <2>1. CASE p = running
    <3>1. (IF p = NULL THEN held ELSE 0) + (IF pc[p] \in {"create", "stop"} THEN 1 ELSE 0) = defer_count
      BY <2>1, <1>f
    <3>2. pc'[p] \notin {"create", "stop"}
      BY <2>1, <1>d
    <3>3. CASE pc[running] = "stop" /\ held' = held
      BY <2>1, <3>1, <3>2, <3>3, <1>e
    <3>4. CASE pc[running] = "idle" /\ running = NULL /\ held = 1 /\ held' = 0
      BY <2>1, <3>1, <3>2, <3>4, <1>e
    <3> QED BY <3>3, <3>4, <1>c
  <2>2. CASE p # running
    <3>1. (IF p = NULL THEN held' ELSE 0) = (IF p = NULL THEN held ELSE 0) /\ pc'[p] = pc[p]
      BY <2>2, <1>c, <1>d
    <3> QED BY <2>2, <3>1, <1>f
  <2> QED BY <2>1, <2>2
<1>6. SemaphoreQueueMatchesCount' /\ CreateInBounds'
  BY <1>b, <1>d DEF SchedulerInv, SemaphoreQueueMatchesCount, CreateInBounds
<1> QED
  BY <1>1, <1>2, <1>3, <1>4, <1>5, <1>6 DEF SchedulerInv

\* A move that changes neither table, heap nor deferral: the second half of
\* defer_schedule(Stop), the notification of a device, a call of schedule().
LEMMA MoveInv ==
    ASSUME SchedulerInv, DeferCheck \/ Notify \/ CallSchedule
    PROVE  SchedulerInv'
<1> USE PidFacts
<1>a. TypeOK
  BY DEF SchedulerInv
<1>b. /\ InterruptsOn
      /\ UNCHANGED <<curr_pid, curr_sid, priority, gpu_pid, state, pqueue, sem, sleep_queue>>
      /\ UNCHANGED <<event_queue, defer_count, attempt, running, held>>
  BY DEF DeferCheck, Notify, CallSchedule, tables, queues, defer
<1>c. PICK l \in {"idle", "call"} : Goto(l)
  BY Zenon DEF DeferCheck, Notify, CallSchedule
<1>d. /\ running \in Pid /\ pc' \in [Pid -> Position] /\ pc'[running] = l
      /\ \A p \in Pid : p # running => pc'[p] = pc[p]
  <2>1. l \in Position
    BY DEF Position
  <2> QED BY <1>a, <1>c, <2>1, GotoType
<1>e. /\ pc[running] \in {"check", "notify", "call", "idle"}
      /\ target' \in [Pid -> Pid]
      /\ \A p \in Pid : p # running => target'[p] = target[p]
      /\ requested' \in SUBSET Pid
      /\ \/ resched' = resched
         \/ resched' \in [Pid -> Nat] /\ resched'[running] > 0
  <2>1. CASE DeferCheck
    BY <2>1, <1>a DEF DeferCheck, TypeOK
  <2>2. CASE Notify
    BY <2>2, <1>a DEF Notify, TypeOK
  <2>3. CASE CallSchedule
    <3>1. resched' \in [Pid -> Nat] /\ resched'[running] > 0
      BY <2>3, <1>a, PendType DEF CallSchedule
    <3> QED BY <2>3, <3>1, <1>a DEF CallSchedule, TypeOK
  <2> QED BY <2>1, <2>2, <2>3
<1>1. TypeOK'
  BY <1>a, <1>b, <1>d, <1>e DEF TypeOK
<1>2. TableMatchesPids' /\ OneRunning' /\ NullSchedulable' /\ DisplayAlive'
  BY <1>b, SameTable
<1>3. BlockedNeverRuns'
  <2>1. CASE DeferCheck
    BY <2>1, <1>b DEF DeferCheck, SchedulerInv, BlockedNeverRuns
  <2>2. CASE Notify
    BY <2>2, <1>b, <1>d DEF Notify, Goto, SchedulerInv, BlockedNeverRuns, TypeOK
  <2>3. CASE CallSchedule
    <3>1. resched'[running] > 0 /\ running' = running
      BY <2>3, <1>a, PendType, <1>b DEF CallSchedule
    <3> QED BY <3>1 DEF BlockedNeverRuns, InterruptsOn
  <2> QED BY <2>1, <2>2, <2>3
<1>4. DeferralKeepsRunning'
  BY <1>b DEF SchedulerInv, DeferralKeepsRunning
<1>5. ReadyIsQueued'
  <2>1. \A p \in Pid : PushPending(p) => PushPending(p)'
    BY <1>b, <1>d, <1>e, SamePending
  <2> QED BY <2>1, <1>b DEF SchedulerInv, ReadyIsQueued
<1>6. DeferralOwned'
  BY <1>b, <1>d, <1>e DEF SchedulerInv, DeferralOwned
<1>7. SemaphoreQueueMatchesCount' /\ CreateInBounds'
  BY <1>b, <1>d DEF SchedulerInv, SemaphoreQueueMatchesCount, CreateInBounds
<1> QED
  BY <1>1, <1>2, <1>3, <1>4, <1>5, <1>6, <1>7 DEF SchedulerInv

\* init_display() records the pid of kproc, which is running.
LEMMA InitDisplayInv ==
    ASSUME SchedulerInv, InitDisplay
    PROVE  SchedulerInv'
<1>a. /\ Idle /\ running = Kproc /\ gpu_pid' = running
      /\ UNCHANGED <<curr_pid, curr_sid, priority, state, pqueue, sem, sleep_queue, event_queue>>
      /\ UNCHANGED <<defer_count, attempt, running, resched, pc, target, held, requested>>
  BY DEF InitDisplay, queues, defer, thread
<1>b. running \in Pid /\ state[running] = "Running"
  BY <1>a, IdleFacts
<1>1. TypeOK'
  BY <1>a DEF SchedulerInv, TypeOK
<1>2. DisplayAlive'
  BY <1>a, <1>b DEF DisplayAlive
<1>3. TableMatchesPids' /\ OneRunning' /\ NullSchedulable' /\ BlockedNeverRuns' /\ DeferralKeepsRunning'
  BY <1>a DEF SchedulerInv, TableMatchesPids, OneRunning, NullSchedulable, BlockedNeverRuns,
              InterruptsOn, DeferralKeepsRunning
<1>4. ReadyIsQueued' /\ DeferralOwned' /\ SemaphoreQueueMatchesCount' /\ CreateInBounds'
  BY <1>a DEF SchedulerInv, ReadyIsQueued, PushPending, DeferralOwned,
              SemaphoreQueueMatchesCount, CreateInBounds
<1> QED
  BY <1>1, <1>2, <1>3, <1>4 DEF SchedulerInv

\* ready() with interrupts on: a new process is marked, then queued.
LEMMA ReadyMarkInv ==
    ASSUME SchedulerInv, NEW p \in Pid, ReadyMark(p)
    PROVE  SchedulerInv'
<1> USE PidFacts
<1>a. TypeOK
  BY DEF SchedulerInv
<1>b. /\ Idle /\ state[p] = "Suspend" /\ Goto("push")
      /\ state' = [state EXCEPT ![p] = "Ready"]
      /\ target' = [target EXCEPT ![running] = p]
      /\ UNCHANGED <<curr_pid, curr_sid, priority, gpu_pid, pqueue, sem, sleep_queue, event_queue>>
      /\ UNCHANGED <<defer_count, attempt, running, resched, held, requested>>
  BY DEF ReadyMark, tables, queues, defer
<1>c. /\ running \in Pid /\ pc' \in [Pid -> Position] /\ pc'[running] = "push"
      /\ \A r \in Pid : r # running => pc'[r] = pc[r]
  <2>1. "push" \in Position
    BY DEF Position
  <2> QED BY <1>a, <1>b, <2>1, GotoType
<1>d. state[running] = "Running" /\ pc[running] = "idle"
  BY <1>b, IdleFacts
<1>e. /\ state' \in [Pid -> State] /\ state'[p] = "Ready"
      /\ \A r \in Pid : r # p => state'[r] = state[r]
  BY <1>a, <1>b DEF TypeOK, State
<1>f. /\ target' \in [Pid -> Pid] /\ target'[running] = p
      /\ \A r \in Pid : r # running => target'[r] = target[r]
  BY <1>a, <1>b, <1>c DEF TypeOK
<1>1. TypeOK'
  BY <1>a, <1>b, <1>c, <1>e, <1>f DEF TypeOK
<1>2. TableMatchesPids' /\ OneRunning' /\ NullSchedulable'
  BY <1>b, <1>e DEF SchedulerInv, TableMatchesPids, OneRunning, NullSchedulable
<1>3. BlockedNeverRuns' /\ DeferralKeepsRunning'
  BY <1>b, <1>c, <1>d, <1>e DEF BlockedNeverRuns, DeferralKeepsRunning
<1>4. ReadyIsQueued'
  <2>1. \A r \in Pid : PushPending(r) => PushPending(r)'
    BY <1>c, <1>d, <1>f, SamePending
  <2>2. PushPending(p)'
    BY <1>c, <1>f DEF PushPending
  <2> QED BY <2>1, <2>2, <1>b, <1>e DEF SchedulerInv, ReadyIsQueued
<1>5. DeferralOwned'
  BY <1>b, <1>c, <1>d DEF SchedulerInv, DeferralOwned
<1>6. SemaphoreQueueMatchesCount' /\ CreateInBounds'
  BY <1>b, <1>c DEF SchedulerInv, SemaphoreQueueMatchesCount, CreateInBounds
<1>7. DisplayAlive'
  <2>1. gpu_pid \in Pid
    BY <1>a DEF TypeOK
  <2> QED BY <2>1, <1>b, <1>e DEF SchedulerInv, DisplayAlive
<1> QED
  BY <1>1, <1>2, <1>3, <1>4, <1>5, <1>6, <1>7 DEF SchedulerInv

\* ready(): the push.
LEMMA ReadyPushInv ==
    ASSUME SchedulerInv, ReadyPush
    PROVE  SchedulerInv'
<1> USE PidFacts
<1>a. TypeOK
  BY DEF SchedulerInv
<1>b. /\ InterruptsOn /\ pc[running] = "push" /\ Goto("call")
      /\ pqueue' = [pqueue EXCEPT ![target[running]] = @ + 1]
      /\ target' = [target EXCEPT ![running] = NULL]
      /\ UNCHANGED <<curr_pid, curr_sid, priority, gpu_pid, state, sem, sleep_queue, event_queue>>
      /\ UNCHANGED <<defer_count, attempt, running, resched, held, requested>>
  BY DEF ReadyPush, tables, queues, defer
<1>c. /\ running \in Pid /\ pc' \in [Pid -> Position] /\ pc'[running] = "call"
      /\ \A r \in Pid : r # running => pc'[r] = pc[r]
  <2>1. "call" \in Position
    BY DEF Position
  <2> QED BY <1>a, <1>b, <2>1, GotoType
<1>d. /\ target[running] \in Pid /\ target' \in [Pid -> Pid]
      /\ \A r \in Pid : r # running => target'[r] = target[r]
  BY <1>a, <1>b, <1>c DEF TypeOK
<1>e. /\ pqueue' \in [Pid -> Nat] /\ pqueue'[target[running]] > 0
      /\ \A r \in Pid : pqueue'[r] >= pqueue[r] /\ pqueue[r] \in Nat
  <2> DEFINE t == target[running]
  <2>1. pqueue \in [Pid -> Nat] /\ t \in Pid /\ pqueue' = [pqueue EXCEPT ![t] = @ + 1]
    BY <1>a, <1>b, <1>d DEF TypeOK
  <2> HIDE DEF t
  <2>2. pqueue' \in [Pid -> Nat] /\ pqueue'[t] > 0
        /\ \A r \in Pid : pqueue'[r] >= pqueue[r] /\ pqueue[r] \in Nat
    BY <2>1
  <2> QED BY <2>2 DEF t
<1>1. TypeOK'
  BY <1>a, <1>b, <1>c, <1>d, <1>e DEF TypeOK
<1>2. TableMatchesPids' /\ OneRunning' /\ DisplayAlive' /\ DeferralKeepsRunning'
  BY <1>b DEF SchedulerInv, TableMatchesPids, OneRunning, DisplayAlive, DeferralKeepsRunning
<1>3. NullSchedulable'
  BY <1>b, <1>e DEF SchedulerInv, NullSchedulable
<1>4. BlockedNeverRuns'
  BY <1>b DEF SchedulerInv, BlockedNeverRuns
<1>5. ReadyIsQueued'
  <2> SUFFICES ASSUME NEW p \in Pid, state[p] = "Ready", p # target[running]
               PROVE pqueue'[p] > 0 \/ PushPending(p)'
    BY <1>b, <1>e DEF ReadyIsQueued
  <2>1. CASE pqueue[p] > 0
    BY <2>1, <1>e
  <2>2. CASE PushPending(p)
    <3>1. PICK r \in Pid : pc[r] = "push" /\ target[r] = p
      BY <2>2 DEF PushPending
    <3>2. r # running
      BY <3>1
    <3> QED BY <3>1, <3>2, <1>c, <1>d DEF PushPending
  <2> QED BY <2>1, <2>2 DEF SchedulerInv, ReadyIsQueued
<1>6. DeferralOwned'
  BY <1>b, <1>c DEF SchedulerInv, DeferralOwned
<1>7. SemaphoreQueueMatchesCount' /\ CreateInBounds'
  BY <1>b, <1>c DEF SchedulerInv, SemaphoreQueueMatchesCount, CreateInBounds
<1> QED
  BY <1>1, <1>2, <1>3, <1>4, <1>5, <1>6, <1>7 DEF SchedulerInv

\* io_wait(): the caller, or the display process, goes to IOWait.
LEMMA IoWaitInv ==
    ASSUME SchedulerInv, NEW p \in Pid, IoWait(p)
    PROVE  SchedulerInv'
<1> USE PidFacts
<1>a. TypeOK
  BY DEF SchedulerInv
<1>b. /\ MayBlock /\ p # NULL /\ Goto("notify")
      /\ p = running \/ p = gpu_pid
      /\ state' = [state EXCEPT ![p] = "IOWait"]
      /\ target' = [target EXCEPT ![running] = p]
      /\ UNCHANGED <<curr_pid, curr_sid, priority, gpu_pid, pqueue, sem, sleep_queue, event_queue>>
      /\ UNCHANGED <<defer_count, attempt, running, resched, held, requested>>
  BY DEF IoWait, tables, queues, defer
<1>c. /\ running \in Pid /\ pc' \in [Pid -> Position] /\ pc'[running] = "notify"
      /\ \A r \in Pid : r # running => pc'[r] = pc[r]
  <2>1. "notify" \in Position
    BY DEF Position
  <2> QED BY <1>a, <1>b, <2>1, GotoType
<1>d. state[running] = "Running" /\ pc[running] = "idle" /\ defer_count = 0
  BY <1>b, MayBlockFacts
<1>e. /\ state' \in [Pid -> State] /\ state'[p] = "IOWait"
      /\ \A r \in Pid : r # p => state'[r] = state[r]
  BY <1>a, <1>b DEF TypeOK, State
<1>f. /\ target' \in [Pid -> Pid]
      /\ \A r \in Pid : r # running => target'[r] = target[r]
  BY <1>a, <1>b, <1>c DEF TypeOK
<1>g. state[p] # "Absent"
  BY <1>b, <1>d DEF SchedulerInv, DisplayAlive
<1>1. TypeOK'
  BY <1>a, <1>b, <1>c, <1>e, <1>f DEF TypeOK
<1>2. TableMatchesPids' /\ OneRunning' /\ NullSchedulable'
  BY <1>b, <1>e, <1>g DEF SchedulerInv, TableMatchesPids, OneRunning, NullSchedulable
<1>3. BlockedNeverRuns' /\ DeferralKeepsRunning'
  BY <1>b, <1>c, <1>d, <1>e DEF BlockedNeverRuns, DeferralKeepsRunning
<1>4. ReadyIsQueued'
  <2>1. \A r \in Pid : PushPending(r) => PushPending(r)'
    BY <1>c, <1>d, <1>f, SamePending
  <2> QED BY <2>1, <1>b, <1>e DEF SchedulerInv, ReadyIsQueued
<1>5. DeferralOwned'
  BY <1>b, <1>c, <1>d DEF SchedulerInv, DeferralOwned
<1>6. SemaphoreQueueMatchesCount' /\ CreateInBounds'
  BY <1>b, <1>c DEF SchedulerInv, SemaphoreQueueMatchesCount, CreateInBounds
<1>7. DisplayAlive'
  <2>1. gpu_pid \in Pid
    BY <1>a DEF TypeOK
  <2> QED BY <2>1, <1>b, <1>e DEF SchedulerInv, DisplayAlive
<1> QED
  BY <1>1, <1>2, <1>3, <1>4, <1>5, <1>6, <1>7 DEF SchedulerInv

-----------------------------------------------------------------------------
(***************************************************************************)
(* Operations with interrupts off that put their caller to sleep.          *)
(***************************************************************************)

\* The common part of wait_semaphore(), sleep(), kill() and event_wait(): the
\* caller leaves state Running and has one schedule() call to make.
LEMMA BlockInv ==
    ASSUME SchedulerInv, MayBlock, NEW st \in {"SemaWait", "Sleep", "Free", "EventWait"},
           running = gpu_pid => st = "EventWait",
           state' = [state EXCEPT ![running] = st],
           PendSchedule(1),
           UNCHANGED <<curr_pid, pqueue, defer_count, running, pc, target, held, gpu_pid>>
    PROVE  /\ state' \in [Pid -> State] /\ resched' \in [Pid -> Nat]
           /\ TableMatchesPids' /\ OneRunning' /\ BlockedNeverRuns' /\ ReadyIsQueued'
           /\ NullSchedulable' /\ DeferralOwned' /\ CreateInBounds'
           /\ DeferralKeepsRunning' /\ DisplayAlive'
<1> USE PidFacts
<1>a. TypeOK
  BY DEF SchedulerInv
<1>b. running \in Pid /\ state[running] = "Running" /\ running # NULL /\ defer_count = 0
  BY MayBlockFacts
<1>c. /\ state' \in [Pid -> State] /\ state'[running] = st
      /\ \A p \in Pid : p # running => state'[p] = state[p]
  BY <1>a, <1>b DEF TypeOK, State
<1>d. resched' \in [Pid -> Nat] /\ resched'[running] > 0
  BY <1>a, PendType
<1>1. TableMatchesPids' /\ OneRunning' /\ NullSchedulable'
  BY <1>b, <1>c DEF SchedulerInv, TableMatchesPids, OneRunning, NullSchedulable
<1>2. BlockedNeverRuns'
  BY <1>d DEF BlockedNeverRuns, InterruptsOn
<1>3. ReadyIsQueued'
  BY <1>c DEF SchedulerInv, ReadyIsQueued, PushPending
<1>4. DeferralOwned' /\ CreateInBounds' /\ DeferralKeepsRunning'
  BY <1>b DEF SchedulerInv, DeferralOwned, CreateInBounds, DeferralKeepsRunning
<1>5. DisplayAlive'
  <2>1. gpu_pid \in Pid
    BY <1>a DEF TypeOK
  <2> QED BY <2>1, <1>c DEF SchedulerInv, DisplayAlive
<1> QED
  BY <1>1, <1>2, <1>3, <1>4, <1>5, <1>c, <1>d

\* A semaphore record has the right type.
LEMMA SemaphoreType ==
    ASSUME NEW count \in Int, NEW queue \in Seq(Pid)
    PROVE  /\ Semaphore(count, queue) \in [count : Int, queue : Seq(Pid)]
           /\ Semaphore(count, queue).count = count
           /\ Semaphore(count, queue).queue = queue
  BY DEF Semaphore

\* Replacing one semaphore by a record whose queue fits its count.
LEMMA SemaphoreUpdate ==
    ASSUME SchedulerInv, NEW s \in Sid, NEW count \in Int, NEW queue \in Seq(Pid),
           Len(queue) = (IF count < 0 THEN -count ELSE 0),
           sem' = [sem EXCEPT ![s] = Semaphore(count, queue)]
    PROVE  sem' \in [Sid -> [count : Int, queue : Seq(Pid)]] /\ SemaphoreQueueMatchesCount'
<1> DEFINE r == Semaphore(count, queue)
<1>1. r \in [count : Int, queue : Seq(Pid)] /\ r.count = count /\ r.queue = queue
  BY SemaphoreType
<1> HIDE DEF r
<1>2. sem \in [Sid -> [count : Int, queue : Seq(Pid)]] /\ sem' = [sem EXCEPT ![s] = r]
  BY DEF SchedulerInv, TypeOK, r
<1>3. sem' \in [Sid -> [count : Int, queue : Seq(Pid)]]
  BY <1>1, <1>2
<1>4. sem'[s] = r /\ \A t \in Sid : t # s => sem'[t] = sem[t]
  BY <1>2
<1>5. SemaphoreQueueMatchesCount'
  BY <1>1, <1>4 DEF SchedulerInv, SemaphoreQueueMatchesCount
<1> QED
  BY <1>3, <1>5

\* What a semaphore looks like in a state of the invariant.
LEMMA SemaphoreFacts ==
    ASSUME SchedulerInv, NEW s \in Sid
    PROVE  /\ sem[s].count \in Int
           /\ sem[s].queue \in Seq(Pid)
           /\ Len(sem[s].queue) = (IF sem[s].count < 0 THEN -sem[s].count ELSE 0)
  BY DEF SchedulerInv, TypeOK, SemaphoreQueueMatchesCount

\* wait_semaphore().
LEMMA WaitSemaphoreInv ==
    ASSUME SchedulerInv, NEW s \in Sid, WaitSemaphore(s)
    PROVE  SchedulerInv'
<1>a. /\ MayBlock /\ running # gpu_pid
      /\ UNCHANGED <<curr_pid, curr_sid, priority, gpu_pid, pqueue, sleep_queue, event_queue>>
      /\ UNCHANGED <<defer_count, attempt, running, pc, target, held, requested>>
  BY DEF WaitSemaphore, MayBlockOrExit, tables, defer, thread
<1>b. /\ sem[s].count \in Int /\ sem[s].queue \in Seq(Pid)
      /\ Len(sem[s].queue) = (IF sem[s].count < 0 THEN -sem[s].count ELSE 0)
  BY SemaphoreFacts
<1>c. running \in Pid
  BY DEF SchedulerInv, TypeOK
<1>1. CASE /\ sem[s].count > 0
           /\ sem' = [sem EXCEPT ![s] = Semaphore(@.count - 1, @.queue)]
           /\ UNCHANGED <<state, resched>>
  <2>1. sem' \in [Sid -> [count : Int, queue : Seq(Pid)]] /\ SemaphoreQueueMatchesCount'
    <3>1. sem[s].count - 1 \in Int /\ Len(sem[s].queue) = (IF sem[s].count - 1 < 0 THEN -(sem[s].count - 1) ELSE 0)
      BY <1>1, <1>b
    <3> QED BY <3>1, <1>1, <1>b, SemaphoreUpdate
  <2>2. TypeOK'
    BY <1>1, <1>a, <2>1 DEF SchedulerInv, TypeOK
  <2>3. TableMatchesPids' /\ OneRunning' /\ NullSchedulable' /\ DisplayAlive'
    BY <1>1, <1>a, SameTable
  <2>4. BlockedNeverRuns' /\ ReadyIsQueued' /\ DeferralOwned' /\ CreateInBounds' /\ DeferralKeepsRunning'
    BY <1>1, <1>a DEF SchedulerInv, BlockedNeverRuns, InterruptsOn, ReadyIsQueued, PushPending,
                      DeferralOwned, CreateInBounds, DeferralKeepsRunning
  <2> QED BY <2>1, <2>2, <2>3, <2>4 DEF SchedulerInv
<1>2. CASE /\ sem[s].count <= 0
           /\ sem' = [sem EXCEPT ![s] = Semaphore(@.count - 1, Append(@.queue, running))]
           /\ state' = [state EXCEPT ![running] = "SemaWait"]
           /\ PendSchedule(1)
  <2>1. sem' \in [Sid -> [count : Int, queue : Seq(Pid)]] /\ SemaphoreQueueMatchesCount'
    <3>1. /\ Append(sem[s].queue, running) \in Seq(Pid)
          /\ Len(Append(sem[s].queue, running)) = Len(sem[s].queue) + 1
      BY <1>b, <1>c, AppendProperties
    <3>2. /\ sem[s].count - 1 \in Int
          /\ Len(Append(sem[s].queue, running)) = (IF sem[s].count - 1 < 0 THEN -(sem[s].count - 1) ELSE 0)
      BY <3>1, <1>2, <1>b
    <3> QED BY <3>1, <3>2, <1>2, SemaphoreUpdate
  <2>2. /\ state' \in [Pid -> State] /\ resched' \in [Pid -> Nat]
        /\ TableMatchesPids' /\ OneRunning' /\ BlockedNeverRuns' /\ ReadyIsQueued'
        /\ NullSchedulable' /\ DeferralOwned' /\ CreateInBounds'
        /\ DeferralKeepsRunning' /\ DisplayAlive'
    BY <1>2, <1>a, BlockInv
  <2>3. TypeOK'
    BY <1>a, <2>1, <2>2 DEF SchedulerInv, TypeOK
  <2> QED BY <2>1, <2>2, <2>3 DEF SchedulerInv
<1> QED
  <2>1. sem[s].count \in Int
    BY <1>b
  <2> QED BY <1>1, <1>2, <2>1 DEF WaitSemaphore, MustWait

\* sleep().
LEMMA SleepInv ==
    ASSUME SchedulerInv, NEW delay \in Delays, Sleep(delay)
    PROVE  SchedulerInv'
<1>a. /\ MayBlock /\ running # gpu_pid
      /\ state' = [state EXCEPT ![running] = "Sleep"]
      /\ sleep_queue' = Insert(sleep_queue, running, delay)
      /\ PendSchedule(1)
      /\ UNCHANGED <<curr_pid, curr_sid, priority, gpu_pid, pqueue, sem, event_queue>>
      /\ UNCHANGED <<defer_count, attempt, running, pc, target, held, requested>>
  BY DEF Sleep, MayBlockOrExit, tables, defer, thread
<1>1. /\ state' \in [Pid -> State] /\ resched' \in [Pid -> Nat]
      /\ TableMatchesPids' /\ OneRunning' /\ BlockedNeverRuns' /\ ReadyIsQueued'
      /\ NullSchedulable' /\ DeferralOwned' /\ CreateInBounds'
      /\ DeferralKeepsRunning' /\ DisplayAlive'
  BY <1>a, BlockInv
<1>2. sleep_queue' \in Seq([pid : Pid, delay : Int])
  <2>1. sleep_queue \in NodeList(Pid) /\ running \in Pid /\ delay \in Int
    BY DelaysAssumption DEF SchedulerInv, TypeOK, NodeList
  <2>2. Insert(sleep_queue, running, delay) \in NodeList(Pid)
    BY <2>1, InsertProperties
  <2> QED BY <2>2, <1>a DEF NodeList
<1>3. TypeOK'
  BY <1>a, <1>1, <1>2 DEF SchedulerInv, TypeOK
<1>4. SemaphoreQueueMatchesCount'
  BY <1>a DEF SchedulerInv, SemaphoreQueueMatchesCount
<1> QED
  BY <1>1, <1>3, <1>4 DEF SchedulerInv

\* kill() and event_wait().
LEMMA LeaveInv ==
    ASSUME SchedulerInv, Kill \/ \E e \in Events : EventWait(e)
    PROVE  SchedulerInv'
<1>a. /\ MayBlock
      /\ PendSchedule(1)
      /\ UNCHANGED <<curr_pid, curr_sid, priority, gpu_pid, pqueue, sem, sleep_queue>>
      /\ UNCHANGED <<defer_count, running, pc, target, held, requested>>
  BY DEF Kill, EventWait, EmptyBracket, MayBlockOrExit, tables, queues, defer, thread
<1>b. PICK st \in {"Free", "EventWait"} :
         state' = [state EXCEPT ![running] = st] /\ (running = gpu_pid => st = "EventWait")
  BY DEF Kill, EventWait, MayBlockOrExit
<1>c. attempt' \in BOOLEAN /\ event_queue' \in [Events -> SUBSET Pid]
  <2>1. CASE Kill
    <3>1. attempt' \in BOOLEAN
      BY <2>1, Zenon DEF Kill, EmptyBracket, AttemptAfter, SchedulerInv, TypeOK
    <3> QED BY <2>1, <3>1 DEF Kill, queues, SchedulerInv, TypeOK
  <2>2. CASE \E e \in Events : EventWait(e)
    <3>1. PICK e \in Events : EventWait(e)
      BY <2>2
    <3>2. event_queue \in [Events -> SUBSET Pid] /\ running \in Pid /\ attempt \in BOOLEAN
      BY DEF SchedulerInv, TypeOK
    <3> QED BY <3>1, <3>2 DEF EventWait, defer
  <2> QED BY <2>1, <2>2
<1>1. /\ state' \in [Pid -> State] /\ resched' \in [Pid -> Nat]
      /\ TableMatchesPids' /\ OneRunning' /\ BlockedNeverRuns' /\ ReadyIsQueued'
      /\ NullSchedulable' /\ DeferralOwned' /\ CreateInBounds'
      /\ DeferralKeepsRunning' /\ DisplayAlive'
  BY <1>a, <1>b, BlockInv
<1>2. TypeOK'
  BY <1>a, <1>c, <1>1 DEF SchedulerInv, TypeOK
<1>3. SemaphoreQueueMatchesCount'
  BY <1>a DEF SchedulerInv, SemaphoreQueueMatchesCount
<1> QED
  BY <1>1, <1>2, <1>3 DEF SchedulerInv

\* create_semaphore().
LEMMA CreateSemaphoreInv ==
    ASSUME SchedulerInv, NEW count \in Counts, CreateSemaphore(count)
    PROVE  SchedulerInv'
<1>a. /\ curr_sid <= MaxSid /\ curr_sid' = curr_sid + 1
      /\ sem' = [sem EXCEPT ![curr_sid] = Semaphore(count, << >>)]
      /\ UNCHANGED <<curr_pid, priority, gpu_pid, state, pqueue, sleep_queue, event_queue>>
      /\ UNCHANGED <<defer_count, attempt, running, resched, pc, target, held, requested>>
  BY DEF CreateSemaphore, defer, thread
<1>b. curr_sid \in Sid /\ curr_sid + 1 \in 0 .. MaxSid + 1
  BY <1>a, MaxSidAssumption DEF SchedulerInv, TypeOK, Sid
<1>1. sem' \in [Sid -> [count : Int, queue : Seq(Pid)]] /\ SemaphoreQueueMatchesCount'
  <2>1. count \in Int /\ count >= 0
    BY CountsAssumption
  <2>2. << >> \in Seq(Pid) /\ Len(<< >>) = 0
    BY EmptySeq
  <2>3. Len(<< >>) = (IF count < 0 THEN -count ELSE 0)
    BY <2>1, <2>2
  <2> QED BY <1>a, <1>b, <2>1, <2>2, <2>3, SemaphoreUpdate
<1>2. TypeOK'
  BY <1>a, <1>b, <1>1 DEF SchedulerInv, TypeOK
<1>3. TableMatchesPids' /\ OneRunning' /\ NullSchedulable' /\ DisplayAlive'
  BY <1>a, SameTable
<1>4. BlockedNeverRuns' /\ ReadyIsQueued' /\ DeferralOwned' /\ CreateInBounds' /\ DeferralKeepsRunning'
  BY <1>a DEF SchedulerInv, BlockedNeverRuns, InterruptsOn, ReadyIsQueued, PushPending,
              DeferralOwned, CreateInBounds, DeferralKeepsRunning
<1> QED
  BY <1>1, <1>2, <1>3, <1>4 DEF SchedulerInv

\* wait_exit().
LEMMA WaitExitInv ==
    ASSUME SchedulerInv, WaitExit
    PROVE  SchedulerInv'
<1>a. /\ PendSchedule(1) /\ attempt' = AttemptAfter(FALSE)
      /\ UNCHANGED <<curr_pid, curr_sid, priority, gpu_pid, state, pqueue, sem, sleep_queue>>
      /\ UNCHANGED <<event_queue, defer_count, running, pc, target, held, requested>>
  BY DEF WaitExit, EmptyBracket, tables, queues, thread
<1>b. resched' \in [Pid -> Nat] /\ resched'[running] > 0
  BY <1>a, PendType DEF SchedulerInv
<1>c. attempt' \in BOOLEAN
  BY <1>a, Zenon DEF AttemptAfter, SchedulerInv, TypeOK
<1>1. TypeOK'
  BY <1>a, <1>b, <1>c DEF SchedulerInv, TypeOK
<1>2. TableMatchesPids' /\ OneRunning' /\ NullSchedulable' /\ DisplayAlive'
  BY <1>a, SameTable
<1>3. BlockedNeverRuns'
  BY <1>a, <1>b DEF BlockedNeverRuns, InterruptsOn
<1>4. ReadyIsQueued' /\ DeferralOwned' /\ CreateInBounds' /\ DeferralKeepsRunning'
  BY <1>a DEF SchedulerInv, ReadyIsQueued, PushPending, DeferralOwned, CreateInBounds, DeferralKeepsRunning
<1>5. SemaphoreQueueMatchesCount'
  BY <1>a DEF SchedulerInv, SemaphoreQueueMatchesCount
<1> QED
  BY <1>1, <1>2, <1>3, <1>4, <1>5 DEF SchedulerInv

-----------------------------------------------------------------------------
(***************************************************************************)
(* Operations that ready other processes.                                  *)
(***************************************************************************)

\* The common part of all of them: woken processes enter the heap, nobody
\* else changes, and if anyone was woken a schedule() call is pending.
LEMMA WakeInv ==
    ASSUME SchedulerInv, NEW S, MakeReady(S), NEW n \in Nat, PendSchedule(n),
           Wakeable(S) # {} => n > 0,
           UNCHANGED <<curr_pid, defer_count, running, pc, target, held, gpu_pid>>
    PROVE  /\ state' \in [Pid -> State] /\ pqueue' \in [Pid -> Nat] /\ resched' \in [Pid -> Nat]
           /\ TableMatchesPids' /\ OneRunning' /\ BlockedNeverRuns' /\ ReadyIsQueued'
           /\ NullSchedulable' /\ DeferralOwned' /\ CreateInBounds'
           /\ DeferralKeepsRunning' /\ DisplayAlive'
<1> USE PidFacts
<1>a. TypeOK
  BY DEF SchedulerInv
<1>b. \A p \in Pid : p \in Wakeable(S) => state[p] \notin {"Absent", "Free", "Running", "Ready"}
  BY DEF Wakeable
<1>c. /\ state \in [Pid -> State] /\ pqueue \in [Pid -> Nat]
      /\ state' = [p \in Pid |-> IF p \in Wakeable(S) THEN "Ready" ELSE state[p]]
      /\ pqueue' = [p \in Pid |-> IF p \in Wakeable(S) THEN pqueue[p] + 1 ELSE pqueue[p]]
  BY <1>a DEF TypeOK, MakeReady
<1>d. /\ state' \in [Pid -> State] /\ pqueue' \in [Pid -> Nat]
      /\ \A p \in Pid : p \in Wakeable(S) => state'[p] = "Ready" /\ pqueue'[p] > 0
      /\ \A p \in Pid : p \notin Wakeable(S) => state'[p] = state[p] /\ pqueue'[p] = pqueue[p]
  BY <1>c DEF State
<1>e. resched' \in [Pid -> Nat] /\ resched[running] \in Nat /\ resched'[running] = resched[running] + n
  BY <1>a, PendType
<1>1. TableMatchesPids' /\ OneRunning' /\ NullSchedulable'
  BY <1>b, <1>d DEF SchedulerInv, TableMatchesPids, OneRunning, NullSchedulable
<1>2. BlockedNeverRuns'
  <2>1. CASE Wakeable(S) = {}
    <3>1. running \in Pid /\ state'[running] = state[running]
      BY <2>1, <1>a, <1>d DEF TypeOK
    <3> QED BY <3>1, <1>e DEF SchedulerInv, BlockedNeverRuns, InterruptsOn
  <2>2. CASE Wakeable(S) # {}
    BY <2>2, <1>e DEF BlockedNeverRuns, InterruptsOn
  <2> QED BY <2>1, <2>2
<1>3. ReadyIsQueued'
  <2>1. \A p \in Pid : PushPending(p)' <=> PushPending(p)
    BY DEF PushPending
  <2> QED BY <2>1, <1>d DEF SchedulerInv, ReadyIsQueued
<1>4. DeferralOwned' /\ CreateInBounds'
  BY DEF SchedulerInv, DeferralOwned, CreateInBounds
<1>5. DeferralKeepsRunning'
  BY <1>a, <1>b, <1>d DEF SchedulerInv, DeferralKeepsRunning, TypeOK
<1>6. DisplayAlive'
  <2>1. gpu_pid \in Pid
    BY <1>a DEF TypeOK
  <2> QED BY <2>1, <1>d DEF SchedulerInv, DisplayAlive
<1> QED
  BY <1>1, <1>2, <1>3, <1>4, <1>5, <1>6, <1>d, <1>e

\* ready() of one process.
LEMMA ReadyOneInv ==
    ASSUME SchedulerInv, NEW p, ReadyOne(p),
           UNCHANGED <<curr_pid, defer_count, running, pc, target, held, gpu_pid>>
    PROVE  /\ state' \in [Pid -> State] /\ pqueue' \in [Pid -> Nat] /\ resched' \in [Pid -> Nat]
           /\ TableMatchesPids' /\ OneRunning' /\ BlockedNeverRuns' /\ ReadyIsQueued'
           /\ NullSchedulable' /\ DeferralOwned' /\ CreateInBounds'
           /\ DeferralKeepsRunning' /\ DisplayAlive'
<1> DEFINE n == IF Wakeable({p}) = {} THEN 0 ELSE 1
<1>1. n \in Nat /\ (Wakeable({p}) # {} => n > 0) /\ PendSchedule(n) /\ MakeReady({p})
  BY DEF ReadyOne
<1> HIDE DEF n
<1> QED
  BY <1>1, WakeInv

\* ready() of several processes inside a deferral.
LEMMA ReadyDeferredInv ==
    ASSUME SchedulerInv, NEW S, NEW k \in Nat, k > 0, ReadyDeferred(S, k),
           UNCHANGED <<curr_pid, running, pc, target, held, gpu_pid>>
    PROVE  /\ state' \in [Pid -> State] /\ pqueue' \in [Pid -> Nat] /\ resched' \in [Pid -> Nat]
           /\ attempt' \in BOOLEAN /\ defer_count' = defer_count
           /\ TableMatchesPids' /\ OneRunning' /\ BlockedNeverRuns' /\ ReadyIsQueued'
           /\ NullSchedulable' /\ DeferralOwned' /\ CreateInBounds'
           /\ DeferralKeepsRunning' /\ DisplayAlive'
<1> DEFINE n == IF defer_count = 0 /\ Wakeable(S) # {} THEN k + 1 ELSE k
<1>1. n \in Nat /\ n > 0
  OBVIOUS
<1>2. PendSchedule(n) /\ MakeReady(S) /\ defer_count' = defer_count
  BY DEF ReadyDeferred
<1> HIDE DEF n
<1>3. attempt' \in BOOLEAN
  BY Zenon DEF ReadyDeferred, AttemptAfter, SchedulerInv, TypeOK
<1> QED
  BY <1>1, <1>2, <1>3, WakeInv

\* signal_semaphore().
LEMMA SignalSemaphoreInv ==
    ASSUME SchedulerInv, NEW s \in Sid, SignalSemaphore(s)
    PROVE  SchedulerInv'
<1>a. /\ UNCHANGED <<curr_pid, curr_sid, priority, gpu_pid, sleep_queue, event_queue>>
      /\ UNCHANGED <<defer_count, attempt, running, pc, target, held, requested>>
  BY DEF SignalSemaphore, tables, defer, thread
<1>b. /\ sem[s].count \in Int /\ sem[s].queue \in Seq(Pid)
      /\ Len(sem[s].queue) = (IF sem[s].count < 0 THEN -sem[s].count ELSE 0)
  BY SemaphoreFacts
<1>1. CASE /\ sem[s].count < 0
           /\ sem' = [sem EXCEPT ![s] = Semaphore(@.count + 1, Tail(@.queue))]
           /\ ReadyOne(Head(sem[s].queue))
  <2>1. sem' \in [Sid -> [count : Int, queue : Seq(Pid)]] /\ SemaphoreQueueMatchesCount'
    <3>1. sem[s].queue # << >>
      BY <1>1, <1>b, EmptySeq
    <3>2. Tail(sem[s].queue) \in Seq(Pid) /\ Len(Tail(sem[s].queue)) = Len(sem[s].queue) - 1
      BY <3>1, <1>b, HeadTailProperties
    <3>3. /\ sem[s].count + 1 \in Int
          /\ Len(Tail(sem[s].queue)) = (IF sem[s].count + 1 < 0 THEN -(sem[s].count + 1) ELSE 0)
      BY <3>2, <1>1, <1>b
    <3> QED BY <3>2, <3>3, <1>1, SemaphoreUpdate
  <2>2. /\ state' \in [Pid -> State] /\ pqueue' \in [Pid -> Nat] /\ resched' \in [Pid -> Nat]
        /\ TableMatchesPids' /\ OneRunning' /\ BlockedNeverRuns' /\ ReadyIsQueued'
        /\ NullSchedulable' /\ DeferralOwned' /\ CreateInBounds'
        /\ DeferralKeepsRunning' /\ DisplayAlive'
    BY <1>1, <1>a, ReadyOneInv
  <2>3. TypeOK'
    BY <1>a, <2>1, <2>2 DEF SchedulerInv, TypeOK
  <2> QED BY <2>1, <2>2, <2>3 DEF SchedulerInv
<1>2. CASE /\ sem[s].count \in 0 .. MaxCount - 1
           /\ sem' = [sem EXCEPT ![s] = Semaphore(@.count + 1, @.queue)]
           /\ UNCHANGED <<state, pqueue, resched>>
  <2>1. sem' \in [Sid -> [count : Int, queue : Seq(Pid)]] /\ SemaphoreQueueMatchesCount'
    <3>1. /\ sem[s].count + 1 \in Int
          /\ Len(sem[s].queue) = (IF sem[s].count + 1 < 0 THEN -(sem[s].count + 1) ELSE 0)
      BY <1>2, <1>b, BoundsAssumption
    <3> QED BY <3>1, <1>2, <1>b, SemaphoreUpdate
  <2>2. TypeOK'
    BY <1>2, <1>a, <2>1 DEF SchedulerInv, TypeOK
  <2>3. TableMatchesPids' /\ OneRunning' /\ NullSchedulable' /\ DisplayAlive'
    BY <1>2, <1>a, SameTable
  <2>4. BlockedNeverRuns' /\ ReadyIsQueued' /\ DeferralOwned' /\ CreateInBounds' /\ DeferralKeepsRunning'
    BY <1>2, <1>a DEF SchedulerInv, BlockedNeverRuns, InterruptsOn, ReadyIsQueued, PushPending,
                      DeferralOwned, CreateInBounds, DeferralKeepsRunning
  <2> QED BY <2>1, <2>2, <2>3, <2>4 DEF SchedulerInv
<1> QED
  BY <1>1, <1>2 DEF SignalSemaphore

\* delete_semaphore().
LEMMA DeleteSemaphoreInv ==
    ASSUME SchedulerInv, NEW s \in Sid, DeleteSemaphore(s)
    PROVE  SchedulerInv'
<1> DEFINE W == {sem[s].queue[i] : i \in DOMAIN sem[s].queue}
<1>a. /\ UNCHANGED <<curr_pid, curr_sid, priority, gpu_pid, sleep_queue, event_queue>>
      /\ UNCHANGED <<running, pc, target, held, requested>>
      /\ sem' = [sem EXCEPT ![s] = Semaphore(IF @.count < 0 THEN 0 ELSE @.count, << >>)]
      /\ ReadyDeferred(W, 1)
  BY DEF DeleteSemaphore, tables, thread
<1>1. sem' \in [Sid -> [count : Int, queue : Seq(Pid)]] /\ SemaphoreQueueMatchesCount'
  <2> DEFINE c == IF sem[s].count < 0 THEN 0 ELSE sem[s].count
  <2>1. c \in Int /\ c >= 0
    BY SemaphoreFacts
  <2>2. sem' = [sem EXCEPT ![s] = Semaphore(c, << >>)]
    BY <1>a
  <2> HIDE DEF c
  <2>3. << >> \in Seq(Pid) /\ Len(<< >>) = (IF c < 0 THEN -c ELSE 0)
    BY <2>1, EmptySeq
  <2> QED BY <2>1, <2>2, <2>3, SemaphoreUpdate
<1> HIDE DEF W
<1>2. /\ state' \in [Pid -> State] /\ pqueue' \in [Pid -> Nat] /\ resched' \in [Pid -> Nat]
      /\ attempt' \in BOOLEAN /\ defer_count' = defer_count
      /\ TableMatchesPids' /\ OneRunning' /\ BlockedNeverRuns' /\ ReadyIsQueued'
      /\ NullSchedulable' /\ DeferralOwned' /\ CreateInBounds'
      /\ DeferralKeepsRunning' /\ DisplayAlive'
  BY <1>a, ReadyDeferredInv
<1>3. TypeOK'
  BY <1>a, <1>1, <1>2 DEF SchedulerInv, TypeOK
<1> QED
  BY <1>1, <1>2, <1>3 DEF SchedulerInv

\* event_signal().
LEMMA EventSignalInv ==
    ASSUME SchedulerInv, NEW e \in Events, EventSignal(e)
    PROVE  SchedulerInv'
<1>a. /\ UNCHANGED <<curr_pid, curr_sid, priority, gpu_pid, sem, sleep_queue>>
      /\ UNCHANGED <<running, pc, target, held, requested>>
  BY DEF EventSignal, tables, thread
<1>b. event_queue' \in [Events -> SUBSET Pid]
  BY DEF EventSignal, SchedulerInv, TypeOK
<1>c. SemaphoreQueueMatchesCount'
  BY <1>a DEF SchedulerInv, SemaphoreQueueMatchesCount
<1>1. CASE /\ attempt' = AttemptAfter(FALSE)
           /\ UNCHANGED <<state, pqueue, resched, defer_count>>
  <2>1. attempt' \in BOOLEAN
    BY <1>1, Zenon DEF AttemptAfter, SchedulerInv, TypeOK
  <2>2. TypeOK'
    BY <1>1, <1>a, <1>b, <2>1 DEF SchedulerInv, TypeOK
  <2>3. TableMatchesPids' /\ OneRunning' /\ NullSchedulable' /\ DisplayAlive'
    BY <1>1, <1>a, SameTable
  <2>4. BlockedNeverRuns' /\ ReadyIsQueued' /\ DeferralOwned' /\ CreateInBounds' /\ DeferralKeepsRunning'
    BY <1>1, <1>a DEF SchedulerInv, BlockedNeverRuns, InterruptsOn, ReadyIsQueued, PushPending,
                      DeferralOwned, CreateInBounds, DeferralKeepsRunning
  <2> QED BY <1>c, <2>2, <2>3, <2>4 DEF SchedulerInv
<1>2. CASE ReadyDeferred(event_queue[e], 1)
  <2>1. /\ state' \in [Pid -> State] /\ pqueue' \in [Pid -> Nat] /\ resched' \in [Pid -> Nat]
        /\ attempt' \in BOOLEAN /\ defer_count' = defer_count
        /\ TableMatchesPids' /\ OneRunning' /\ BlockedNeverRuns' /\ ReadyIsQueued'
        /\ NullSchedulable' /\ DeferralOwned' /\ CreateInBounds'
        /\ DeferralKeepsRunning' /\ DisplayAlive'
    BY <1>2, <1>a, ReadyDeferredInv
  <2>2. TypeOK'
    BY <1>a, <1>b, <2>1 DEF SchedulerInv, TypeOK
  <2> QED BY <1>c, <2>1, <2>2 DEF SchedulerInv
<1> QED
  BY <1>1, <1>2 DEF EventSignal, EmptyBracket

\* io_signal() in an interrupt handler.
LEMMA IoSignalInv ==
    ASSUME SchedulerInv, NEW p \in Pid, IoSignal(p)
    PROVE  SchedulerInv'
<1>a. /\ ReadyOne(p)
      /\ UNCHANGED <<curr_pid, curr_sid, priority, gpu_pid, sem, sleep_queue, event_queue>>
      /\ UNCHANGED <<defer_count, attempt, running, pc, target, held>>
  BY DEF IoSignal, tables, queues, defer, thread
<1>b. requested' \in SUBSET Pid
  BY DEF IoSignal, SchedulerInv, TypeOK
<1>1. /\ state' \in [Pid -> State] /\ pqueue' \in [Pid -> Nat] /\ resched' \in [Pid -> Nat]
      /\ TableMatchesPids' /\ OneRunning' /\ BlockedNeverRuns' /\ ReadyIsQueued'
      /\ NullSchedulable' /\ DeferralOwned' /\ CreateInBounds'
      /\ DeferralKeepsRunning' /\ DisplayAlive'
  BY <1>a, ReadyOneInv
<1>2. TypeOK'
  BY <1>a, <1>b, <1>1 DEF SchedulerInv, TypeOK
<1>3. SemaphoreQueueMatchesCount'
  BY <1>a DEF SchedulerInv, SemaphoreQueueMatchesCount
<1> QED
  BY <1>1, <1>2, <1>3 DEF SchedulerInv

\* The timer interrupt.
LEMMA TimerInterruptInv ==
    ASSUME SchedulerInv, TimerInterrupt
    PROVE  SchedulerInv'
<1> DEFINE W == {p \in Due(sleep_queue) : state[p] = "Sleep"}
<1>a. /\ UNCHANGED <<curr_pid, curr_sid, priority, gpu_pid, sem, event_queue>>
      /\ UNCHANGED <<running, pc, target, held, requested>>
  BY DEF TimerInterrupt, tables, thread
<1>b. sleep_queue' \in Seq([pid : Pid, delay : Int])
  <2>1. sleep_queue \in NodeList(Pid)
    BY DEF SchedulerInv, TypeOK, NodeList
  <2>2. Tick(sleep_queue) \in NodeList(Pid)
    BY <2>1, TickProperties
  <2> QED BY <2>2 DEF TimerInterrupt, NodeList
<1>c. SemaphoreQueueMatchesCount'
  BY <1>a DEF SchedulerInv, SemaphoreQueueMatchesCount
<1>1. CASE PendSchedule(1) /\ UNCHANGED <<state, pqueue, defer>>
  <2>1. resched' \in [Pid -> Nat] /\ resched'[running] > 0
    BY <1>1, PendType DEF SchedulerInv
  <2>2. TypeOK'
    BY <1>1, <1>a, <1>b, <2>1 DEF SchedulerInv, TypeOK, defer
  <2>3. TableMatchesPids' /\ OneRunning' /\ NullSchedulable' /\ DisplayAlive'
    BY <1>1, <1>a, SameTable
  <2>4. BlockedNeverRuns'
    BY <1>a, <2>1 DEF BlockedNeverRuns, InterruptsOn
  <2>5. ReadyIsQueued' /\ DeferralOwned' /\ CreateInBounds' /\ DeferralKeepsRunning'
    BY <1>1, <1>a DEF SchedulerInv, ReadyIsQueued, PushPending, DeferralOwned, CreateInBounds,
                      DeferralKeepsRunning, defer
  <2> QED BY <1>c, <2>2, <2>3, <2>4, <2>5 DEF SchedulerInv
<1>2. CASE ReadyDeferred(W, 2)
  <2> HIDE DEF W
  <2>1. /\ state' \in [Pid -> State] /\ pqueue' \in [Pid -> Nat] /\ resched' \in [Pid -> Nat]
        /\ attempt' \in BOOLEAN /\ defer_count' = defer_count
        /\ TableMatchesPids' /\ OneRunning' /\ BlockedNeverRuns' /\ ReadyIsQueued'
        /\ NullSchedulable' /\ DeferralOwned' /\ CreateInBounds'
        /\ DeferralKeepsRunning' /\ DisplayAlive'
    BY <1>2, <1>a, ReadyDeferredInv
  <2>2. TypeOK'
    BY <1>a, <1>b, <2>1 DEF SchedulerInv, TypeOK
  <2> QED BY <1>c, <2>1, <2>2 DEF SchedulerInv
<1> QED
  BY <1>1, <1>2 DEF TimerInterrupt

-----------------------------------------------------------------------------
(***************************************************************************)
(* The theorems.                                                           *)
(***************************************************************************)

\* Every step of the process manager preserves the invariant.
LEMMA NextInv == SchedulerInv /\ [Next]_vars => SchedulerInv'
<1> SUFFICES ASSUME SchedulerInv, [Next]_vars PROVE SchedulerInv'
  OBVIOUS
<1>1. CASE Schedule
  BY <1>1, ScheduleInv
<1>2. CASE TimerInterrupt
  BY <1>2, TimerInterruptInv
<1>3. CASE DeviceInterrupt
  BY <1>3, IoSignalInv, SignalSemaphoreInv, EventSignalInv DEF DeviceInterrupt
<1>4. CASE Operation
  <2>1. CASE CreateStart \/ DeferStart
    BY <2>1, StartInv
  <2>2. CASE \E prio \in Priorities : CreateProcess(prio)
    BY <2>2, CreateProcessInv
  <2>3. CASE DeferStop
    BY <2>3, DeferStopInv
  <2>4. CASE DeferCheck \/ Notify \/ CallSchedule
    BY <2>4, MoveInv
  <2>5. CASE \E p \in Pid : ReadyMark(p)
    BY <2>5, ReadyMarkInv
  <2>6. CASE ReadyPush
    BY <2>6, ReadyPushInv
  <2>7. CASE \E p \in Pid : IoWait(p)
    BY <2>7, IoWaitInv
  <2>8. CASE InitDisplay
    BY <2>8, InitDisplayInv
  <2>9. CASE \E count \in Counts : CreateSemaphore(count)
    BY <2>9, CreateSemaphoreInv
  <2>10. CASE \E s \in Sid : WaitSemaphore(s)
    BY <2>10, WaitSemaphoreInv
  <2>11. CASE SignalByProcess
    BY <2>11, SignalSemaphoreInv, DeleteSemaphoreInv DEF SignalByProcess
  <2>12. CASE \E delay \in Delays : Sleep(delay)
    BY <2>12, SleepInv
  <2>13. CASE Kill \/ \E e \in Events : EventWait(e)
    BY <2>13, LeaveInv
  <2>14. CASE WaitExit
    BY <2>14, WaitExitInv
  <2> QED
    BY <1>4, <2>1, <2>2, <2>3, <2>4, <2>5, <2>6, <2>7, <2>8, <2>9, <2>10, <2>11, <2>12, <2>13, <2>14
       DEF Operation
<1>5. CASE UNCHANGED vars
  <2>1. /\ UNCHANGED <<curr_pid, curr_sid, priority, gpu_pid, state, pqueue, sem, sleep_queue, event_queue>>
        /\ UNCHANGED <<defer_count, attempt, running, resched, pc, target, held, requested>>
    BY <1>5 DEF vars, tables, queues, defer, thread
  <2>2. TypeOK'
    BY <2>1 DEF SchedulerInv, TypeOK
  <2>3. TableMatchesPids' /\ OneRunning' /\ NullSchedulable' /\ DisplayAlive'
    BY <2>1, SameTable
  <2>4. BlockedNeverRuns' /\ ReadyIsQueued' /\ DeferralOwned' /\ CreateInBounds' /\ DeferralKeepsRunning'
    BY <2>1 DEF SchedulerInv, BlockedNeverRuns, InterruptsOn, ReadyIsQueued, PushPending,
                DeferralOwned, CreateInBounds, DeferralKeepsRunning
  <2>5. SemaphoreQueueMatchesCount'
    BY <2>1 DEF SchedulerInv, SemaphoreQueueMatchesCount
  <2> QED BY <2>2, <2>3, <2>4, <2>5 DEF SchedulerInv
<1> QED
  BY <1>1, <1>2, <1>3, <1>4, <1>5 DEF Next

\* The invariant holds in every state of every behaviour.
THEOREM SchedulerInvariant == Spec => []SchedulerInv
<1>1. Init => SchedulerInv
  BY InitInv
<1>2. SchedulerInv /\ [Next]_vars => SchedulerInv'
  BY NextInv
<1> QED
  BY <1>1, <1>2, PTL DEF Spec

-----------------------------------------------------------------------------
(***************************************************************************)
(* The safety properties, one by one.                                      *)
(***************************************************************************)

\* Only the process on the hart is in state Running, whatever interrupts
\* schedule() and ready().
THEOREM OnlyOneRuns == Spec => []OneRunning
<1>1. SchedulerInv => OneRunning
  BY DEF SchedulerInv
<1> QED
  BY <1>1, SchedulerInvariant, PTL

\* A process that blocked or was killed never gets back to interruptible code
\* before schedule() has made it Running again.
THEOREM BlockedProcessesStayOff == Spec => []BlockedNeverRuns
<1>1. SchedulerInv => BlockedNeverRuns
  BY DEF SchedulerInv
<1> QED
  BY <1>1, SchedulerInvariant, PTL

\* No Ready process is lost from the heap by pop_ready_proc() or schedule().
THEOREM ReadyIsNeverLost == Spec => []ReadyIsQueued
<1>1. SchedulerInv => ReadyIsQueued
  BY DEF SchedulerInv
<1> QED
  BY <1>1, SchedulerInvariant, PTL

\* The null process can always be switched to.
THEOREM NullIsSchedulable == Spec => []NullSchedulable
<1>1. SchedulerInv => NullSchedulable
  BY DEF SchedulerInv
<1> QED
  BY <1>1, SchedulerInvariant, PTL

\* No process is switched away from inside a deferral it opened, and interrupt
\* handlers close what they open.
THEOREM DeferralsAreOwned == Spec => []DeferralOwned
<1>1. SchedulerInv => DeferralOwned
  BY DEF SchedulerInv
<1> QED
  BY <1>1, SchedulerInvariant, PTL

\* A semaphore has as many waiters as its count is negative: the unwrap() of
\* signal_semaphore() and delete_semaphore() cannot panic.
THEOREM SemaphoreQueuesMatch == Spec => []SemaphoreQueueMatchesCount
<1>1. SchedulerInv => SemaphoreQueueMatchesCount
  BY DEF SchedulerInv
<1> QED
  BY <1>1, SchedulerInvariant, PTL

-----------------------------------------------------------------------------
(***************************************************************************)
(* The sleep list.                                                         *)
(***************************************************************************)

\* Only sleep() and the timer change the sleep list.
LEMMA SleepQueueChanges ==
    ASSUME Next, sleep_queue' # sleep_queue
    PROVE  TimerInterrupt \/ \E delay \in Delays : Sleep(delay)
<1>1. Schedule => sleep_queue' = sleep_queue
  BY DEF Schedule, queues
<1>2. DeviceInterrupt => sleep_queue' = sleep_queue
  BY DEF DeviceInterrupt, IoSignal, SignalSemaphore, EventSignal, queues
<1>3. Operation => sleep_queue' = sleep_queue \/ \E delay \in Delays : Sleep(delay)
  BY DEF Operation, CreateStart, CreateProcess, DeferStart, DeferStop, DeferCheck, ReadyMark,
         ReadyPush, IoWait, Notify, CallSchedule, InitDisplay, CreateSemaphore, WaitSemaphore,
         SignalByProcess, SignalSemaphore, DeleteSemaphore, Kill, EventWait, WaitExit, queues
<1> QED
  BY <1>1, <1>2, <1>3 DEF Next

\* No subtraction of sleep() or wakeup() underflows, for lists of every length
\* and every delay.
THEOREM SleepListSound == Spec => []DelaysNeverUnderflow
<1>1. Init => DelaysNeverUnderflow
  BY DEF Init, DelaysNeverUnderflow, NonNegative
<1>2. SchedulerInv /\ DelaysNeverUnderflow /\ [Next]_vars => DelaysNeverUnderflow'
  <2> SUFFICES ASSUME SchedulerInv, DelaysNeverUnderflow, [Next]_vars PROVE DelaysNeverUnderflow'
    OBVIOUS
  <2>1. sleep_queue \in NodeList(Pid) /\ running \in Pid /\ NonNegative(sleep_queue)
    BY DEF SchedulerInv, TypeOK, NodeList, DelaysNeverUnderflow
  <2>2. CASE sleep_queue' = sleep_queue
    BY <2>1, <2>2 DEF DelaysNeverUnderflow, NonNegative
  <2>3. CASE TimerInterrupt
    <3>1. sleep_queue' = Tick(sleep_queue)
      BY <2>3 DEF TimerInterrupt
    <3>2. NonNegative(Tick(sleep_queue))
      BY <2>1, TickNonNegative
    <3> QED BY <3>1, <3>2 DEF DelaysNeverUnderflow, NonNegative
  <2>4. CASE \E delay \in Delays : Sleep(delay)
    <3>1. PICK delay \in Delays : Sleep(delay)
      BY <2>4
    <3>2. sleep_queue' = Insert(sleep_queue, running, delay) /\ delay \in Nat
      BY <3>1, DelaysAssumption DEF Sleep
    <3>3. NonNegative(Insert(sleep_queue, running, delay))
      BY <2>1, <3>2, InsertNonNegative
    <3> QED BY <3>2, <3>3 DEF DelaysNeverUnderflow, NonNegative
  <2>5. UNCHANGED vars => sleep_queue' = sleep_queue
    BY DEF vars, queues
  <2> QED BY <2>2, <2>3, <2>4, <2>5, SleepQueueChanges
<1> QED
  BY <1>1, <1>2, SchedulerInvariant, PTL DEF Spec

-----------------------------------------------------------------------------
(***************************************************************************)
(* The action properties.                                                  *)
(***************************************************************************)

\* Only schedule() takes a pending schedule() call off a stack.
LEMMA OnlyScheduleSchedules ==
    ASSUME SchedulerInv, Next, ~Schedule
    PROVE  ~(resched'[running] < resched[running])
<1>1. resched \in [Pid -> Nat] /\ running \in Pid /\ resched[running] \in Nat
  BY DEF SchedulerInv, TypeOK
<1>2. resched' = resched \/ \E n \in Nat : PendSchedule(n)
  <2>1. TimerInterrupt => \E n \in Nat : PendSchedule(n)
    BY DEF TimerInterrupt, ReadyDeferred
  <2>2. \A p : ReadyOne(p) => \E n \in Nat : PendSchedule(n)
    BY DEF ReadyOne
  <2>3. DeviceInterrupt => resched' = resched \/ \E n \in Nat : PendSchedule(n)
    BY <2>2 DEF DeviceInterrupt, IoSignal, SignalSemaphore, EventSignal, ReadyDeferred
  <2>4. SignalByProcess => resched' = resched \/ \E n \in Nat : PendSchedule(n)
    BY <2>2 DEF SignalByProcess, SignalSemaphore, DeleteSemaphore, ReadyDeferred
  <2>5. Operation => resched' = resched \/ \E n \in Nat : PendSchedule(n)
    BY <2>4 DEF Operation, CreateStart, CreateProcess, DeferStart, DeferStop, DeferCheck, ReadyMark,
         ReadyPush, IoWait, Notify, CallSchedule, InitDisplay, CreateSemaphore, WaitSemaphore,
         Sleep, Kill, EventWait, WaitExit
  <2> QED BY <2>1, <2>3, <2>5 DEF Next
<1> QED
  BY <1>1, <1>2 DEF PendSchedule

\* schedule() never leaves the hart with a less important process than the best
\* one in the heap.
LEMMA ScheduleChoosesBest ==
    ASSUME SchedulerInv, Schedule, defer_count = 0,
           NEW p \in Pid, state'[p] = "Ready", ~PushPending(p)
    PROVE  ~(priority[p] > priority[running'])
<1>0. /\ priority \in [Pid -> Nat] /\ state \in [Pid -> State] /\ running \in Pid
      /\ \A x \in Pid : priority[x] \in Nat
  BY DEF SchedulerInv, TypeOK
<1>1. state[p] = "Ready" => p \in Candidates
  BY DEF SchedulerInv, ReadyIsQueued, Candidates
<1>2. CASE Candidates = {} /\ UNCHANGED state
  BY <1>1, <1>2
<1>3. CASE \E n \in Best : \E q \in Remaining(n) : SwitchTo(n, q)
  <2>1. PICK n \in Best : \E q \in Remaining(n) : SwitchTo(n, q)
    BY <1>3
  <2>2. n \in Pid /\ (p \in Candidates => priority[p] <= priority[n])
    BY <2>1 DEF Best, Candidates
  <2>3. CASE Stays(n) /\ UNCHANGED <<state, running>>
    BY <2>2, <2>3, <1>0, <1>1 DEF Stays
  <2>4. CASE /\ ~Stays(n)
             /\ state' = [state EXCEPT ![running] = IF GivesWay THEN "Ready" ELSE @, ![n] = "Running"]
             /\ running' = n
    <3>1. p # n
      BY <2>2, <2>4, <1>0
    <3>2. CASE p = running
      <4>1. GivesWay \/ state[p] = "Ready"
        BY <2>4, <3>1, <3>2, <1>0
      <4> QED BY <4>1, <3>2, <2>2, <2>4, <1>0, <1>1 DEF GivesWay, Stays
    <3>3. CASE p # running
      <4>1. state[p] = "Ready"
        BY <2>4, <3>1, <3>3, <1>0
      <4> QED BY <4>1, <2>2, <2>4, <1>0, <1>1
    <3> QED BY <3>2, <3>3
  <2> QED BY <2>1, <2>3, <2>4 DEF SwitchTo
<1> QED
  BY <1>2, <1>3 DEF Schedule

\* After every schedule() call that is not deferred, no queued Ready process is
\* more important than the one on the hart.
THEOREM MostImportantRuns == Spec => HighestPriorityRuns
<1>1. ASSUME SchedulerInv, Next, resched'[running] < resched[running], defer_count = 0,
             NEW p \in Pid, state'[p] = "Ready", priority[p] > priority[running']
      PROVE  PushPending(p)
  <2>1. Schedule
    BY <1>1, OnlyScheduleSchedules
  <2> QED BY <1>1, <2>1, ScheduleChoosesBest
<1>2. SchedulerInv /\ [Next]_vars =>
        [ (resched'[running] < resched[running] /\ defer_count = 0) =>
            \A p \in Pid : (state'[p] = "Ready" /\ priority[p] > priority[running'])
                               => PushPending(p) ]_vars
  BY <1>1
<1> QED
  BY <1>2, SchedulerInvariant, PTL DEF Spec, HighestPriorityRuns

\* No step takes a process out of state Free.
LEMMA FreeStaysFree ==
    ASSUME SchedulerInv, Next, NEW p \in Pid, state[p] = "Free"
    PROVE  state'[p] = "Free"
<1> USE PidFacts
<1>0. /\ state \in [Pid -> State] /\ running \in Pid /\ gpu_pid \in Pid
      /\ gpu_pid # NULL => state[gpu_pid] # "Free"
  BY DEF SchedulerInv, TypeOK, DisplayAlive
<1>1. Idle => state[running] # "Free"
  BY DEF SchedulerInv, BlockedNeverRuns, Idle
<1>2. \A S : MakeReady(S) => state'[p] = "Free"
  BY DEF MakeReady, Wakeable
<1>3. CASE Schedule
  <2>1. CASE UNCHANGED state
    BY <2>1
  <2>2. CASE \E n \in Best : \E q \in Remaining(n) : SwitchTo(n, q)
    <3>1. PICK n \in Best : \E q \in Remaining(n) : SwitchTo(n, q)
      BY <2>2
    <3>2. n # p /\ n \in Pid
      BY <3>1 DEF Best, Candidates
    <3> QED BY <3>1, <3>2, <1>0 DEF SwitchTo, GivesWay
  <2> QED BY <1>3, <2>1, <2>2 DEF Schedule
<1>4. CASE TimerInterrupt
  BY <1>2, <1>4 DEF TimerInterrupt, ReadyDeferred
<1>5. CASE DeviceInterrupt
  BY <1>2, <1>5 DEF DeviceInterrupt, IoSignal, SignalSemaphore, EventSignal, ReadyOne, ReadyDeferred
<1>6. CASE SignalByProcess
  BY <1>2, <1>6 DEF SignalByProcess, SignalSemaphore, DeleteSemaphore, ReadyOne, ReadyDeferred
<1>7. CASE \E prio \in Priorities : CreateProcess(prio)
  <2>1. curr_pid # p
    BY DEF SchedulerInv, TableMatchesPids
  <2> QED BY <1>0, <1>7, <2>1 DEF CreateProcess
<1>8. CASE \E x \in Pid : ReadyMark(x)
  BY <1>0, <1>8 DEF ReadyMark
<1>9. CASE \E x \in Pid : IoWait(x)
  BY <1>0, <1>1, <1>9 DEF IoWait, MayBlock
<1>10. CASE \/ \E s \in Sid : WaitSemaphore(s)
            \/ \E delay \in Delays : Sleep(delay)
            \/ Kill
            \/ \E e \in Events : EventWait(e)
  BY <1>0, <1>1, <1>10 DEF WaitSemaphore, Sleep, Kill, EventWait, MayBlockOrExit, MayBlock
<1>11. CASE UNCHANGED state
  BY <1>11
<1>12. Operation =>
         \/ SignalByProcess
         \/ \E prio \in Priorities : CreateProcess(prio)
         \/ \E x \in Pid : ReadyMark(x)
         \/ \E x \in Pid : IoWait(x)
         \/ \E s \in Sid : WaitSemaphore(s)
         \/ \E delay \in Delays : Sleep(delay)
         \/ Kill
         \/ \E e \in Events : EventWait(e)
         \/ UNCHANGED state
  BY DEF Operation, CreateStart, DeferStart, DeferStop, DeferCheck, ReadyPush, Notify,
         CallSchedule, InitDisplay, CreateSemaphore, WaitExit
<1> QED
  BY <1>3, <1>4, <1>5, <1>6, <1>7, <1>8, <1>9, <1>10, <1>11, <1>12 DEF Next

\* A killed process is never revived, by no completion, signal, event or tick.
THEOREM KilledForGood == Spec => DeadStaysDead
<1>1. SchedulerInv /\ [Next]_vars =>
        [\A p \in Pid : state[p] = "Free" => state'[p] = "Free"]_vars
  BY FreeStaysFree
<1> QED
  BY <1>1, SchedulerInvariant, PTL DEF Spec, DeadStaysDead

-----------------------------------------------------------------------------
(***************************************************************************)
(* Who waits, and where.  The properties WaitersMatchQueues,               *)
(* EventQueuesExact and IOWaitIsAnswered need each other: that a           *)
(* completion takes nobody out of a semaphore's queue or the sleep list is *)
(* because only processes in IOWait have requests, and so on for each of   *)
(* the four ways to wait.                                                  *)
(***************************************************************************)

\* The semaphore queues hold the processes in SemaWait, each once; the semaphores
\* that do not exist yet hold none.
SemaphoreWaiters ==
    /\ \A s \in Sid : \A i \in DOMAIN sem[s].queue : state[sem[s].queue[i]] = "SemaWait"
    /\ \A s, t \in Sid : \A i \in DOMAIN sem[s].queue : \A j \in DOMAIN sem[t].queue :
           sem[s].queue[i] = sem[t].queue[j] => s = t /\ i = j
    /\ \A p \in Pid : state[p] = "SemaWait" =>
           \E s \in Sid : \E i \in DOMAIN sem[s].queue : sem[s].queue[i] = p
    /\ \A s \in Sid : s >= curr_sid => sem[s].queue = << >>

\* The sleep list holds the processes in Sleep, each once.
SleepWaiters ==
    /\ Distinct(sleep_queue)
    /\ \A p \in Pid : state[p] = "Sleep" <=> p \in PidsOf(sleep_queue)

\* The processes in EventWait are in an event queue, and but for the display process
\* nobody else is in one or in two of them.
EventWaiters ==
    /\ \A e \in Events : \A p \in event_queue[e] : p # NULL /\ (state[p] = "EventWait" \/ p = gpu_pid)
    /\ \A e, f \in Events : \A p \in event_queue[e] \cap event_queue[f] : e = f \/ p = gpu_pid
    /\ \A p \in Pid : state[p] = "EventWait" => \E e \in Events : p \in event_queue[e]

\* Requests are made for processes in IOWait or for the display process, and whoever
\* is in IOWait has one, or a driver on its way to make it.
IOWaiters ==
    /\ \A p \in requested : p # NULL /\ (state[p] = "IOWait" \/ p = gpu_pid)
    /\ \A q \in Pid : pc[q] = "notify" =>
           /\ target[q] # NULL
           /\ \/ target[q] = gpu_pid
              \/ target[q] = q /\ state[q] = "IOWait" /\ q \notin requested
    /\ IOWaitIsAnswered

WaitInv == SchedulerInv /\ SemaphoreWaiters /\ SleepWaiters /\ EventWaiters /\ IOWaiters

LEMMA WaitInit == Init => SemaphoreWaiters /\ SleepWaiters /\ EventWaiters /\ IOWaiters
<1> SUFFICES ASSUME Init PROVE SemaphoreWaiters /\ SleepWaiters /\ EventWaiters /\ IOWaiters
  OBVIOUS
<1> USE PidFacts DEF Init
<1>1. SemaphoreWaiters
  <2>1. \A s \in Sid : sem[s].queue = << >>
    BY DEF Semaphore
  <2>2. \A s \in Sid : DOMAIN sem[s].queue = {}
    BY <2>1
  <2> QED BY <2>1, <2>2 DEF SemaphoreWaiters
<1>2. SleepWaiters
  <2>1. DOMAIN sleep_queue = {}
    OBVIOUS
  <2> QED BY <2>1 DEF SleepWaiters, Distinct, PidsOf
<1>3. EventWaiters /\ IOWaiters
  BY DEF EventWaiters, IOWaiters, IOWaitIsAnswered
<1> QED BY <1>1, <1>2, <1>3

-----------------------------------------------------------------------------
(***************************************************************************)
(* What a step has to leave alone, for each way to wait.                   *)
(***************************************************************************)

\* The same processes are in state w after the step.
SameIn(w) == \A p \in Pid : state'[p] = w <=> state[p] = w

\* Nobody has come into state w, and only the display process has left it.
OnlyDisplayLeaves(w) ==
    \A p \in Pid : /\ state'[p] = w => state[p] = w
                   /\ state[p] = w /\ p # gpu_pid => state'[p] = w

\* The queues of semaphores are well typed.
LEMMA QueueType ==
    ASSUME TypeOK, NEW s \in Sid
    PROVE  /\ sem[s].queue \in Seq(Pid) /\ Len(sem[s].queue) \in Nat
           /\ DOMAIN sem[s].queue = 1 .. Len(sem[s].queue)
           /\ \A i \in DOMAIN sem[s].queue : sem[s].queue[i] \in Pid
<1>1. sem[s].queue \in Seq(Pid)
  BY DEF TypeOK
<1> QED BY <1>1

\* No queue of a semaphore changes, and none is undone.
SameQueues ==
    /\ \A s \in Sid : sem'[s].queue = sem[s].queue
    /\ \A s \in Sid : s >= curr_sid' => s >= curr_sid

LEMMA SemaphoreFrame ==
    ASSUME WaitInv, SameQueues, SameIn("SemaWait") PROVE SemaphoreWaiters'
<1>1. \A s \in Sid : \A i \in DOMAIN sem'[s].queue : sem'[s].queue[i] \in Pid
  BY QueueType DEF WaitInv, SchedulerInv, SameQueues
<1> QED BY <1>1 DEF WaitInv, SemaphoreWaiters, SameIn, SameQueues

LEMMA SleepFrame ==
    ASSUME WaitInv, UNCHANGED sleep_queue, SameIn("Sleep") PROVE SleepWaiters'
  BY DEF WaitInv, SleepWaiters, SameIn

LEMMA EventFrame ==
    ASSUME WaitInv, UNCHANGED event_queue, gpu_pid' = gpu_pid \/ gpu_pid = NULL,
           OnlyDisplayLeaves("EventWait")
    PROVE  EventWaiters'
  BY DEF WaitInv, SchedulerInv, TypeOK, EventWaiters, OnlyDisplayLeaves

\* No driver starts or ends its way to notify a device.
SameNotifying ==
    \A q \in Pid : /\ pc'[q] = "notify" <=> pc[q] = "notify"
                   /\ pc[q] = "notify" => target'[q] = target[q]

LEMMA IOFrame ==
    ASSUME WaitInv, UNCHANGED requested, gpu_pid' = gpu_pid \/ gpu_pid = NULL,
           SameNotifying, OnlyDisplayLeaves("IOWait")
    PROVE  IOWaiters'
<1>1. requested \subseteq Pid
  BY DEF WaitInv, SchedulerInv, TypeOK
<1>2. \A p \in requested' : p # NULL /\ (state'[p] = "IOWait" \/ p = gpu_pid')
  BY <1>1 DEF WaitInv, IOWaiters, OnlyDisplayLeaves
<1>3. \A q \in Pid : pc'[q] = "notify" =>
           /\ target'[q] # NULL
           /\ \/ target'[q] = gpu_pid'
              \/ target'[q] = q /\ state'[q] = "IOWait" /\ q \notin requested'
  BY DEF WaitInv, IOWaiters, OnlyDisplayLeaves, SameNotifying
<1>4. IOWaitIsAnswered'
  BY DEF WaitInv, IOWaiters, OnlyDisplayLeaves, SameNotifying, IOWaitIsAnswered
<1> QED BY <1>2, <1>3, <1>4 DEF IOWaiters

\* A step that changes no queue and moves processes only between states in which
\* nobody waits.
Quiet ==
    /\ UNCHANGED <<sem, curr_sid, sleep_queue, event_queue, requested>>
    /\ gpu_pid' = gpu_pid \/ gpu_pid = NULL
    /\ SameNotifying
    /\ \A w \in {"SemaWait", "Sleep", "EventWait", "IOWait"} : SameIn(w)

LEMMA QuietPreserves ==
    ASSUME WaitInv, Quiet PROVE SemaphoreWaiters' /\ SleepWaiters' /\ EventWaiters' /\ IOWaiters'
<1>1. \A w \in {"SemaWait", "Sleep", "EventWait", "IOWait"} : SameIn(w) /\ OnlyDisplayLeaves(w)
  BY DEF Quiet, SameIn, OnlyDisplayLeaves
<1>2. SameQueues
  BY DEF Quiet, SameQueues
<1> QED BY <1>1, <1>2, SemaphoreFrame, SleepFrame, EventFrame, IOFrame DEF Quiet

\* schedule() changes only states in which nobody waits.
LEMMA ScheduleQuiet == ASSUME SchedulerInv, Schedule PROVE Quiet
<1>0. state \in [Pid -> State] /\ running \in Pid
  BY DEF SchedulerInv, TypeOK
<1>1. \A p \in Pid : state'[p] = state[p] \/ {state[p], state'[p]} \subseteq {"Running", "Ready"}
  <2>1. CASE UNCHANGED state
    BY <2>1
  <2>2. CASE \E n \in Best : \E q \in Remaining(n) : SwitchTo(n, q)
    <3>1. PICK n \in Best : \E q \in Remaining(n) : SwitchTo(n, q)
      BY <2>2
    <3>2. n \in Pid /\ state[n] = "Ready"
      BY <3>1 DEF Best, Candidates
    <3> QED BY <3>1, <3>2, <1>0 DEF SwitchTo, GivesWay
  <2> QED BY <2>1, <2>2 DEF Schedule
<1>2. \A w \in {"SemaWait", "Sleep", "EventWait", "IOWait"} : SameIn(w)
  BY <1>1 DEF SameIn
<1> QED BY <1>2 DEF Quiet, Schedule, tables, queues, thread, SameNotifying

\* Steps between operations and inside those of create_process(), ready() and deferral.
LEMMA StepsQuiet ==
    ASSUME SchedulerInv,
           CreateStart \/ DeferStart \/ DeferStop \/ DeferCheck \/ ReadyPush \/ CallSchedule
               \/ InitDisplay \/ WaitExit
    PROVE  Quiet
<1>0. pc \in [Pid -> Position] /\ target \in [Pid -> Pid] /\ running \in Pid
  BY DEF SchedulerInv, TypeOK
<1>1. \A w \in {"SemaWait", "Sleep", "EventWait", "IOWait"} : SameIn(w)
  BY DEF SameIn, CreateStart, DeferStart, DeferStop, DeferCheck, ReadyPush, CallSchedule, InitDisplay, WaitExit
<1>2. SameNotifying
  BY <1>0 DEF SameNotifying, CreateStart, DeferStart, DeferStop, DeferCheck, ReadyPush, CallSchedule,
              InitDisplay, WaitExit, Idle, Goto, thread
<1> QED BY <1>1, <1>2 DEF Quiet, CreateStart, DeferStart, DeferStop, DeferCheck, ReadyPush, CallSchedule,
                          InitDisplay, WaitExit, tables, queues

\* A process is created, readied for the first time, or killed.
LEMMA LifeQuiet ==
    ASSUME SchedulerInv,
           \/ \E prio \in Priorities : CreateProcess(prio)
           \/ \E p \in Pid : ReadyMark(p)
           \/ Kill
    PROVE  Quiet
<1>0. /\ pc \in [Pid -> Position] /\ target \in [Pid -> Pid] /\ running \in Pid
      /\ state \in [Pid -> State]
  BY DEF SchedulerInv, TypeOK
<1>1. CASE \E prio \in Priorities : CreateProcess(prio)
  <2>1. \A p \in Pid : p = curr_pid => state[p] = "Absent"
    BY PidFacts DEF SchedulerInv, TypeOK, TableMatchesPids
  <2>2. \A w \in {"SemaWait", "Sleep", "EventWait", "IOWait"} : SameIn(w)
    BY <1>0, <1>1, <2>1 DEF SameIn, CreateProcess
  <2>3. SameNotifying
    BY <1>0, <1>1 DEF SameNotifying, CreateProcess, Goto
  <2> QED BY <1>1, <2>2, <2>3 DEF Quiet, CreateProcess, queues
<1>2. CASE \E p \in Pid : ReadyMark(p)
  <2>1. \A w \in {"SemaWait", "Sleep", "EventWait", "IOWait"} : SameIn(w)
    BY <1>0, <1>2 DEF SameIn, ReadyMark
  <2>2. SameNotifying
    BY <1>0, <1>2 DEF SameNotifying, ReadyMark, Goto, Idle
  <2> QED BY <1>2, <2>1, <2>2 DEF Quiet, ReadyMark, queues, tables
<1>3. CASE Kill
  <2>1. state[running] = "Running"
    BY <1>3, IdleFacts DEF Kill, MayBlockOrExit, MayBlock
  <2>2. \A w \in {"SemaWait", "Sleep", "EventWait", "IOWait"} : SameIn(w)
    BY <1>0, <1>3, <2>1 DEF SameIn, Kill
  <2> QED BY <1>3, <2>2 DEF Quiet, Kill, queues, tables, thread, SameNotifying
<1> QED BY <1>1, <1>2, <1>3

-----------------------------------------------------------------------------
(***************************************************************************)
(* Waiting begins.                                                         *)
(***************************************************************************)

\* A process that may block is Running, and so it waits nowhere.
LEMMA RunningWaitsNowhere ==
    ASSUME WaitInv, MayBlock
    PROVE  /\ running \in Pid /\ running # NULL /\ state[running] = "Running" /\ pc[running] = "idle"
           /\ state \in [Pid -> State]
           /\ running \notin PidsOf(sleep_queue)
           /\ \A s \in Sid : \A i \in DOMAIN sem[s].queue : sem[s].queue[i] # running
           /\ \A e \in Events : running \in event_queue[e] => running = gpu_pid
           /\ running \in requested => running = gpu_pid
<1>1. /\ running \in Pid /\ running # NULL /\ state[running] = "Running" /\ pc[running] = "idle"
      /\ state \in [Pid -> State]
  BY MayBlockFacts DEF WaitInv, SchedulerInv, TypeOK
<1>2. running \notin PidsOf(sleep_queue)
  BY <1>1 DEF WaitInv, SleepWaiters
<1>3. \A s \in Sid : \A i \in DOMAIN sem[s].queue : sem[s].queue[i] # running
  BY <1>1 DEF WaitInv, SemaphoreWaiters
<1>4. /\ \A e \in Events : running \in event_queue[e] => running = gpu_pid
      /\ running \in requested => running = gpu_pid
  BY <1>1 DEF WaitInv, EventWaiters, IOWaiters
<1> QED BY <1>1, <1>2, <1>3, <1>4

\* Going from Running to state w leaves the other states alone.
LEMMA BlockingKeeps ==
    ASSUME state \in [Pid -> State], running \in Pid, state[running] = "Running",
           NEW w, state' = [state EXCEPT ![running] = w]
    PROVE  \A v \in {"SemaWait", "Sleep", "EventWait", "IOWait"} \ {w} :
               SameIn(v) /\ OnlyDisplayLeaves(v)
  BY DEF SameIn, OnlyDisplayLeaves

LEMMA SleepWaits ==
    ASSUME WaitInv, NEW delay \in Delays, Sleep(delay)
    PROVE  SemaphoreWaiters' /\ SleepWaiters' /\ EventWaiters' /\ IOWaiters'
<1>1. /\ running \in Pid /\ state[running] = "Running" /\ state \in [Pid -> State]
      /\ running \notin PidsOf(sleep_queue)
  BY RunningWaitsNowhere DEF Sleep, MayBlockOrExit
<1>2. /\ state' = [state EXCEPT ![running] = "Sleep"]
      /\ sleep_queue' = Insert(sleep_queue, running, delay)
      /\ UNCHANGED <<sem, curr_sid, event_queue, requested, gpu_pid, pc, target>>
  BY DEF Sleep, tables, thread
<1>3. \A v \in {"SemaWait", "EventWait", "IOWait"} : SameIn(v) /\ OnlyDisplayLeaves(v)
  BY <1>1, <1>2, BlockingKeeps
<1>4. sleep_queue \in NodeList(Pid) /\ Distinct(sleep_queue) /\ delay \in Int
  BY DelaysAssumption DEF WaitInv, SchedulerInv, TypeOK, NodeList, SleepWaiters
<1>5. /\ Distinct(sleep_queue')
      /\ PidsOf(sleep_queue') = PidsOf(sleep_queue) \cup {running}
  BY <1>1, <1>2, <1>4, InsertDistinct, InsertProperties
<1>6. \A p \in Pid : state'[p] = "Sleep" <=> p \in PidsOf(sleep_queue')
  BY <1>1, <1>2, <1>5 DEF WaitInv, SleepWaiters
<1>7. SleepWaiters'
  BY <1>5, <1>6 DEF SleepWaiters, Distinct, PidsOf
<1>8. SameNotifying /\ SameQueues
  BY <1>2 DEF SameNotifying, SameQueues
<1> QED BY <1>2, <1>3, <1>7, <1>8, SemaphoreFrame, EventFrame, IOFrame

LEMMA EventWaits ==
    ASSUME WaitInv, NEW e \in Events, EventWait(e)
    PROVE  SemaphoreWaiters' /\ SleepWaiters' /\ EventWaiters' /\ IOWaiters'
<1>1. /\ running \in Pid /\ running # NULL /\ state[running] = "Running" /\ state \in [Pid -> State]
      /\ \A f \in Events : running \in event_queue[f] => running = gpu_pid
  BY RunningWaitsNowhere DEF EventWait
<1>2. /\ state' = [state EXCEPT ![running] = "EventWait"]
      /\ event_queue' = [event_queue EXCEPT ![e] = @ \cup {running}]
      /\ UNCHANGED <<sem, curr_sid, sleep_queue, requested, gpu_pid, pc, target>>
  BY DEF EventWait, tables, thread
<1>3. \A v \in {"SemaWait", "Sleep", "IOWait"} : SameIn(v) /\ OnlyDisplayLeaves(v)
  BY <1>1, <1>2, BlockingKeeps
<1>4. event_queue \in [Events -> SUBSET Pid]
  BY DEF WaitInv, SchedulerInv, TypeOK
<1>5. EventWaiters'
  <2>1. \A f \in Events : event_queue'[f] = IF f = e THEN event_queue[e] \cup {running} ELSE event_queue[f]
    BY <1>2, <1>4
  <2>2. \A p \in Pid : state'[p] = IF p = running THEN "EventWait" ELSE state[p]
    BY <1>1, <1>2
  <2>3. \A f \in Events : \A p \in event_queue'[f] : p # NULL /\ (state'[p] = "EventWait" \/ p = gpu_pid)
    BY <1>1, <1>4, <2>1, <2>2 DEF WaitInv, EventWaiters
  <2>4. \A f, g \in Events : \A p \in event_queue'[f] \cap event_queue'[g] : f = g \/ p = gpu_pid
    BY <1>1, <2>1 DEF WaitInv, EventWaiters
  <2>5. \A p \in Pid : state'[p] = "EventWait" => \E f \in Events : p \in event_queue'[f]
    BY <1>1, <2>1, <2>2 DEF WaitInv, EventWaiters
  <2> QED BY <1>2, <2>3, <2>4, <2>5 DEF EventWaiters
<1>6. SameNotifying /\ SameQueues
  BY <1>2 DEF SameNotifying, SameQueues
<1> QED BY <1>2, <1>3, <1>5, <1>6, SemaphoreFrame, SleepFrame, IOFrame

LEMMA IoWaits ==
    ASSUME WaitInv, NEW p \in Pid, IoWait(p)
    PROVE  SemaphoreWaiters' /\ SleepWaiters' /\ EventWaiters' /\ IOWaiters'
<1>1. /\ running \in Pid /\ state[running] = "Running" /\ state \in [Pid -> State]
      /\ pc[running] = "idle" /\ (running \in requested => running = gpu_pid)
  BY RunningWaitsNowhere DEF IoWait
<1>2. /\ p # NULL /\ (p = running \/ p = gpu_pid)
      /\ \A q \in Pid : state'[q] = IF q = p THEN "IOWait" ELSE state[q]
      /\ UNCHANGED <<sem, curr_sid, sleep_queue, event_queue, requested, gpu_pid>>
  BY <1>1 DEF IoWait, tables, queues
<1>3. /\ pc' = [pc EXCEPT ![running] = "notify"] /\ target' = [target EXCEPT ![running] = p]
      /\ pc \in [Pid -> Position] /\ target \in [Pid -> Pid]
  BY DEF IoWait, Goto, WaitInv, SchedulerInv, TypeOK
<1>4. pc'[running] = "notify" /\ target'[running] = p
      /\ \A q \in Pid : q # running => pc'[q] = pc[q] /\ target'[q] = target[q]
  BY <1>1, <1>3
<1>5. p # gpu_pid => state[p] = "Running"
  BY <1>1, <1>2
<1>6. state[p] \notin {"SemaWait", "Sleep"}
  BY <1>2, <1>5 DEF WaitInv, SchedulerInv, DisplayAlive
<1>7. SameIn("SemaWait") /\ SameIn("Sleep") /\ OnlyDisplayLeaves("EventWait") /\ SameQueues
  BY <1>2, <1>5, <1>6 DEF SameIn, OnlyDisplayLeaves, SameQueues
<1>8. \A q \in requested' : q # NULL /\ (state'[q] = "IOWait" \/ q = gpu_pid')
  BY <1>2 DEF WaitInv, SchedulerInv, TypeOK, IOWaiters
<1>9. ASSUME NEW q \in Pid, pc'[q] = "notify"
      PROVE  /\ target'[q] # NULL
             /\ \/ target'[q] = gpu_pid'
                \/ target'[q] = q /\ state'[q] = "IOWait" /\ q \notin requested'
  <2>1. CASE q = running
    BY <2>1, <1>1, <1>2, <1>4
  <2>2. CASE q # running
    BY <2>2, <1>2, <1>4, <1>9 DEF WaitInv, IOWaiters
  <2> QED BY <2>1, <2>2
<1>10. IOWaitIsAnswered'
  <2>1. ASSUME NEW q \in Pid, state'[q] = "IOWait"
        PROVE  q \in requested' \/ \E r \in Pid : pc'[r] = "notify" /\ target'[r] = q
    <3>1. CASE q = p
      BY <3>1, <1>1, <1>4
    <3>2. CASE q # p
      BY <3>2, <2>1, <1>1, <1>2, <1>4 DEF WaitInv, IOWaiters, IOWaitIsAnswered
    <3> QED BY <3>1, <3>2
  <2> QED BY <2>1 DEF IOWaitIsAnswered
<1>11. IOWaiters'
  BY <1>8, <1>9, <1>10 DEF IOWaiters
<1> QED BY <1>2, <1>7, <1>11, SemaphoreFrame, SleepFrame, EventFrame

LEMMA NotifyWaits ==
    ASSUME WaitInv, Notify
    PROVE  SemaphoreWaiters' /\ SleepWaiters' /\ EventWaiters' /\ IOWaiters'
<1>1. /\ running \in Pid /\ pc[running] = "notify" /\ requested' = requested \cup {target[running]}
      /\ UNCHANGED <<state, sem, curr_sid, sleep_queue, event_queue, gpu_pid>>
  BY DEF Notify, tables, queues, WaitInv, SchedulerInv, TypeOK
<1>2. /\ pc'[running] = "call"
      /\ \A q \in Pid : q # running => pc'[q] = pc[q] /\ target'[q] = target[q]
  BY DEF Notify, Goto, WaitInv, SchedulerInv, TypeOK
<1>3. /\ target[running] # NULL
      /\ target[running] = gpu_pid \/ (target[running] = running /\ state[running] = "IOWait")
  BY <1>1 DEF WaitInv, IOWaiters
<1>4. \A q \in requested' : q # NULL /\ (state'[q] = "IOWait" \/ q = gpu_pid')
  BY <1>1, <1>3 DEF WaitInv, IOWaiters
<1>5. ASSUME NEW q \in Pid, pc'[q] = "notify"
      PROVE  /\ target'[q] # NULL
             /\ \/ target'[q] = gpu_pid'
                \/ target'[q] = q /\ state'[q] = "IOWait" /\ q \notin requested'
  <2>1. q # running /\ pc[q] = "notify" /\ target'[q] = target[q]
    BY <1>2, <1>5
  <2> QED BY <2>1, <1>1, <1>3 DEF WaitInv, IOWaiters
<1>6. IOWaitIsAnswered'
  <2>1. ASSUME NEW q \in Pid, state'[q] = "IOWait", q \notin requested'
        PROVE  \E r \in Pid : pc'[r] = "notify" /\ target'[r] = q
    <3>1. PICK r \in Pid : pc[r] = "notify" /\ target[r] = q
      BY <2>1, <1>1 DEF WaitInv, IOWaiters, IOWaitIsAnswered
    <3> QED BY <3>1, <2>1, <1>1, <1>2
  <2> QED BY <2>1 DEF IOWaitIsAnswered
<1>7. IOWaiters'
  BY <1>4, <1>5, <1>6 DEF IOWaiters
<1>8. SameIn("SemaWait") /\ SameIn("Sleep") /\ OnlyDisplayLeaves("EventWait") /\ SameQueues
  BY <1>1 DEF SameIn, OnlyDisplayLeaves, SameQueues
<1> QED BY <1>1, <1>7, <1>8, SemaphoreFrame, SleepFrame, EventFrame

\* A new semaphore has no waiters, and had none before.
LEMMA CreateSemaphoreWaits ==
    ASSUME WaitInv, NEW count \in Counts, CreateSemaphore(count)
    PROVE  SemaphoreWaiters' /\ SleepWaiters' /\ EventWaiters' /\ IOWaiters'
<1>1. /\ sem' = [sem EXCEPT ![curr_sid] = Semaphore(count, << >>)] /\ curr_sid' = curr_sid + 1
      /\ UNCHANGED <<state, sleep_queue, event_queue, requested, gpu_pid, pc, target>>
  BY DEF CreateSemaphore, thread
<1>2. SameQueues
  <2>1. curr_sid \in Nat /\ sem \in [Sid -> [count : Int, queue : Seq(Pid)]]
    BY DEF WaitInv, SchedulerInv, TypeOK
  <2>2. ASSUME NEW s \in Sid PROVE sem'[s].queue = sem[s].queue /\ (s >= curr_sid' => s >= curr_sid)
    <3>1. s \in Nat
      BY MaxSidAssumption DEF Sid
    <3>2. CASE s = curr_sid
      BY <3>1, <3>2, <2>1, <1>1 DEF Semaphore, WaitInv, SemaphoreWaiters
    <3>3. CASE s # curr_sid
      BY <3>1, <3>3, <2>1, <1>1
    <3> QED BY <3>2, <3>3
  <2> QED BY <2>2 DEF SameQueues
<1>3. /\ SameIn("SemaWait") /\ SameIn("Sleep") /\ OnlyDisplayLeaves("EventWait")
      /\ OnlyDisplayLeaves("IOWait") /\ SameNotifying
  BY <1>1 DEF SameIn, OnlyDisplayLeaves, SameNotifying
<1> QED BY <1>1, <1>2, <1>3, SemaphoreFrame, SleepFrame, EventFrame, IOFrame

\* wait_semaphore(): the caller is queued once, behind the others.
LEMMA WaitSemaphoreWaits ==
    ASSUME WaitInv, NEW s \in Sid, WaitSemaphore(s)
    PROVE  SemaphoreWaiters' /\ SleepWaiters' /\ EventWaiters' /\ IOWaiters'
<1>1. /\ running \in Pid /\ state[running] = "Running" /\ state \in [Pid -> State]
      /\ \A t \in Sid : \A i \in DOMAIN sem[t].queue : sem[t].queue[i] # running
  BY RunningWaitsNowhere DEF WaitSemaphore, MayBlockOrExit
<1>2. /\ UNCHANGED <<curr_sid, sleep_queue, event_queue, requested, gpu_pid, pc, target>>
      /\ s < curr_sid /\ s \in Nat /\ curr_sid \in Nat
      /\ sem \in [Sid -> [count : Int, queue : Seq(Pid)]]
  BY MaxSidAssumption DEF WaitSemaphore, tables, thread, Sid, WaitInv, SchedulerInv, TypeOK
<1>3. SameNotifying
  BY <1>2 DEF SameNotifying
<1>4. CASE /\ sem' = [sem EXCEPT ![s] = Semaphore(@.count - 1, @.queue)]
           /\ UNCHANGED state
  <2>1. SameQueues
    BY <1>2, <1>4 DEF SameQueues, Semaphore
  <2>2. /\ SameIn("SemaWait") /\ SameIn("Sleep")
        /\ OnlyDisplayLeaves("EventWait") /\ OnlyDisplayLeaves("IOWait")
    BY <1>4 DEF SameIn, OnlyDisplayLeaves
  <2> QED BY <1>2, <1>3, <2>1, <2>2, SemaphoreFrame, SleepFrame, EventFrame, IOFrame
<1>5. CASE /\ sem' = [sem EXCEPT ![s] = Semaphore(@.count - 1, Append(@.queue, running))]
           /\ state' = [state EXCEPT ![running] = "SemaWait"]
  <2> DEFINE n == Len(sem[s].queue)
  <2>1. \A v \in {"Sleep", "EventWait", "IOWait"} : SameIn(v) /\ OnlyDisplayLeaves(v)
    BY <1>1, <1>5, BlockingKeeps
  <2>2. /\ sem[s].queue \in Seq(Pid) /\ n \in Nat /\ DOMAIN sem[s].queue = 1 .. n
        /\ \A t \in Sid : \A i \in DOMAIN sem[t].queue : sem[t].queue[i] \in Pid
    BY QueueType DEF WaitInv, SchedulerInv
  <2>3. sem'[s].queue = Append(sem[s].queue, running) /\ \A t \in Sid : t # s => sem'[t].queue = sem[t].queue
    BY <1>2, <1>5 DEF Semaphore
  <2>4. /\ DOMAIN sem'[s].queue = (DOMAIN sem[s].queue) \cup {n + 1} /\ n + 1 \notin DOMAIN sem[s].queue
        /\ sem'[s].queue[n + 1] = running
        /\ \A i \in DOMAIN sem[s].queue : sem'[s].queue[i] = sem[s].queue[i]
    BY <1>1, <2>2, <2>3
  <2> HIDE DEF n
  <2>5. \A p \in Pid : state'[p] = IF p = running THEN "SemaWait" ELSE state[p]
    BY <1>1, <1>5
  <2>6. \A t \in Sid : \A i \in DOMAIN sem'[t].queue :
            \/ t = s /\ i = n + 1 /\ sem'[t].queue[i] = running
            \/ i \in DOMAIN sem[t].queue /\ sem'[t].queue[i] = sem[t].queue[i]
    BY <2>3, <2>4
  <2>7. \A t \in Sid : \A i \in DOMAIN sem'[t].queue : state'[sem'[t].queue[i]] = "SemaWait"
    BY <1>1, <2>2, <2>5, <2>6 DEF WaitInv, SemaphoreWaiters
  <2>8. \A t, u \in Sid : \A i \in DOMAIN sem'[t].queue : \A j \in DOMAIN sem'[u].queue :
            sem'[t].queue[i] = sem'[u].queue[j] => t = u /\ i = j
    BY <1>1, <2>6 DEF WaitInv, SemaphoreWaiters
  <2>9. \A p \in Pid : state'[p] = "SemaWait" =>
            \E t \in Sid : \E i \in DOMAIN sem'[t].queue : sem'[t].queue[i] = p
    <3>1. ASSUME NEW p \in Pid, p # running, state[p] = "SemaWait"
          PROVE  \E t \in Sid : \E i \in DOMAIN sem'[t].queue : sem'[t].queue[i] = p
      <4>1. PICK t \in Sid : \E i \in DOMAIN sem[t].queue : sem[t].queue[i] = p
        BY <3>1 DEF WaitInv, SemaphoreWaiters
      <4> QED BY <4>1, <2>3, <2>4
    <3> QED BY <3>1, <2>4, <2>5
  <2>10. \A t \in Sid : t >= curr_sid' => sem'[t].queue = << >>
    BY <1>2, <2>3 DEF WaitInv, SemaphoreWaiters
  <2>11. SemaphoreWaiters'
    BY <2>7, <2>8, <2>9, <2>10 DEF SemaphoreWaiters
  <2> QED BY <1>2, <1>3, <2>1, <2>11, SleepFrame, EventFrame, IOFrame
<1> QED BY <1>4, <1>5 DEF WaitSemaphore

-----------------------------------------------------------------------------
(***************************************************************************)
(* Waiting ends.                                                           *)
(***************************************************************************)

\* ready() takes the processes of S that wait out of their state, and no others.
LEMMA MakeReadyEffect ==
    ASSUME NEW S, MakeReady(S)
    PROVE  \A p \in Pid :
             /\ p \notin S => state'[p] = state[p]
             /\ state'[p] = state[p] \/ state'[p] = "Ready"
             /\ p \in S /\ state[p] \in {"SemaWait", "Sleep", "EventWait", "IOWait"} => state'[p] = "Ready"
  BY DEF MakeReady, Wakeable

\* Readying processes of S that are all in state w, or the display process, lets no
\* other state change where somebody waits.
LEMMA WakingKeeps ==
    ASSUME SchedulerInv, NEW S, MakeReady(S), NEW w,
           \A p \in Pid : p \in S => state[p] = w \/ (p = gpu_pid /\ p # NULL)
    PROVE  /\ w # "SemaWait" => SameIn("SemaWait")
           /\ w # "Sleep" => SameIn("Sleep")
           /\ w # "EventWait" => OnlyDisplayLeaves("EventWait")
           /\ w # "IOWait" => OnlyDisplayLeaves("IOWait")
<1>1. \A p \in Pid :
             /\ p \notin S => state'[p] = state[p]
             /\ state'[p] = state[p] \/ state'[p] = "Ready"
  BY MakeReadyEffect
<1>2. gpu_pid # NULL => state[gpu_pid] \notin {"SemaWait", "Sleep"}
  BY DEF SchedulerInv, DisplayAlive
<1> QED BY <1>1, <1>2 DEF SameIn, OnlyDisplayLeaves

\* The first of a queue is taken out, and it alone is readied.
LEMMA SignalSemaphoreWakes ==
    ASSUME WaitInv, NEW s \in Sid, SignalSemaphore(s)
    PROVE  SemaphoreWaiters' /\ SleepWaiters' /\ EventWaiters' /\ IOWaiters'
<1>1. /\ UNCHANGED <<curr_sid, sleep_queue, event_queue, requested, gpu_pid, pc, target>>
      /\ s < curr_sid /\ s \in Nat /\ curr_sid \in Nat
      /\ sem \in [Sid -> [count : Int, queue : Seq(Pid)]]
      /\ SchedulerInv
  <2>1. SchedulerInv /\ TypeOK
    BY DEF WaitInv, SchedulerInv
  <2>2. sem \in [Sid -> [count : Int, queue : Seq(Pid)]] /\ curr_sid \in Nat
    BY <2>1, MaxSidAssumption DEF TypeOK
  <2>3. s \in Nat /\ s < curr_sid
    BY MaxSidAssumption DEF SignalSemaphore, Sid
  <2>4. UNCHANGED <<curr_sid, sleep_queue, event_queue, requested, gpu_pid, pc, target>>
    BY DEF SignalSemaphore, tables, thread
  <2> QED BY <2>1, <2>2, <2>3, <2>4
<1>2. SameNotifying
  BY <1>1 DEF SameNotifying
<1>3. CASE /\ sem' = [sem EXCEPT ![s] = Semaphore(@.count + 1, @.queue)]
           /\ UNCHANGED state
  <2>1. SameQueues
    BY <1>1, <1>3 DEF SameQueues, Semaphore
  <2>2. /\ SameIn("SemaWait") /\ SameIn("Sleep")
        /\ OnlyDisplayLeaves("EventWait") /\ OnlyDisplayLeaves("IOWait")
    BY <1>3 DEF SameIn, OnlyDisplayLeaves
  <2> QED BY <1>1, <1>2, <2>1, <2>2, SemaphoreFrame, SleepFrame, EventFrame, IOFrame
<1>4. CASE /\ sem[s].count < 0
           /\ sem' = [sem EXCEPT ![s] = Semaphore(@.count + 1, Tail(@.queue))]
           /\ ReadyOne(Head(sem[s].queue))
  <2> DEFINE n == Len(sem[s].queue)
  <2> DEFINE h == sem[s].queue[1]
  <2>1. /\ sem[s].queue \in Seq(Pid) /\ n \in Nat /\ DOMAIN sem[s].queue = 1 .. n
        /\ \A t \in Sid : \A i \in DOMAIN sem[t].queue : sem[t].queue[i] \in Pid
    BY <1>1, QueueType DEF SchedulerInv
  <2>2. n > 0
    BY <1>1, <1>4 DEF SchedulerInv, SemaphoreQueueMatchesCount
  <2>3. 1 \in DOMAIN sem[s].queue /\ h \in Pid /\ Head(sem[s].queue) = h
    BY <2>1, <2>2
  <2>4. sem'[s].queue = Tail(sem[s].queue) /\ \A t \in Sid : t # s => sem'[t].queue = sem[t].queue
    BY <1>1, <1>4 DEF Semaphore
  <2>5. /\ DOMAIN sem'[s].queue = 1 .. n - 1
        /\ \A i \in 1 .. n - 1 : sem'[s].queue[i] = sem[s].queue[i + 1]
        /\ \A i \in 1 .. n - 1 : i + 1 \in 1 .. n /\ i + 1 # 1
        /\ \A i \in 1 .. n : i # 1 => i - 1 \in 1 .. n - 1 /\ (i - 1) + 1 = i
    <3>1. Tail(sem[s].queue) = [i \in 1 .. n - 1 |-> sem[s].queue[i + 1]]
      BY <2>1, <2>2
    <3> HIDE DEF n
    <3>2. DOMAIN sem'[s].queue = 1 .. n - 1 /\ \A i \in 1 .. n - 1 : sem'[s].queue[i] = sem[s].queue[i + 1]
      BY <3>1, <2>4
    <3>3. /\ \A i \in 1 .. n - 1 : i + 1 \in 1 .. n /\ i + 1 # 1
          /\ \A i \in 1 .. n : i # 1 => i - 1 \in 1 .. n - 1 /\ (i - 1) + 1 = i
      BY <2>1, <2>2
    <3> QED BY <3>2, <3>3
  <2>6. MakeReady({h}) /\ state[h] = "SemaWait"
    BY <1>4, <2>3 DEF ReadyOne, WaitInv, SemaphoreWaiters
  <2>7. SameIn("Sleep") /\ OnlyDisplayLeaves("EventWait") /\ OnlyDisplayLeaves("IOWait")
    <3>1. \A p \in Pid : p \in {h} => state[p] = "SemaWait" \/ (p = gpu_pid /\ p # NULL)
      BY <2>6
    <3> HIDE DEF h
    <3> QED BY <1>1, <2>6, <3>1, WakingKeeps
  <2>8. state'[h] = "Ready" /\ \A p \in Pid : p # h => state'[p] = state[p]
    BY <2>3, <2>6, MakeReadyEffect
  <2> HIDE DEF n, h
  <2> DEFINE Old(t, i) == IF t = s THEN i + 1 ELSE i
  <2>9. ASSUME NEW t \in Sid, NEW i \in DOMAIN sem'[t].queue
        PROVE  /\ Old(t, i) \in DOMAIN sem[t].queue /\ sem'[t].queue[i] = sem[t].queue[Old(t, i)]
               /\ t = s => Old(t, i) # 1
    BY <2>1, <2>4, <2>5
  <2>10. \A t \in Sid : \A i \in DOMAIN sem'[t].queue : sem'[t].queue[i] # h
    BY <2>3, <2>9 DEF WaitInv, SemaphoreWaiters, h
  <2>11. \A t \in Sid : \A i \in DOMAIN sem'[t].queue : state'[sem'[t].queue[i]] = "SemaWait"
    BY <2>1, <2>8, <2>9, <2>10 DEF WaitInv, SemaphoreWaiters
  <2>12. \A t, u \in Sid : \A i \in DOMAIN sem'[t].queue : \A j \in DOMAIN sem'[u].queue :
            sem'[t].queue[i] = sem'[u].queue[j] => t = u /\ i = j
    <3>1. ASSUME NEW t \in Sid, NEW u \in Sid, NEW i \in DOMAIN sem'[t].queue, NEW j \in DOMAIN sem'[u].queue,
                 sem'[t].queue[i] = sem'[u].queue[j]
          PROVE  t = u /\ i = j
      <4>1. t = u /\ Old(t, i) = Old(u, j)
        BY <2>9, <3>1 DEF WaitInv, SemaphoreWaiters
      <4>2. t = s => i \in 1 .. n - 1 /\ j \in 1 .. n - 1
        BY <4>1, <2>5
      <4> QED BY <4>1, <4>2, <2>1
    <3> QED BY <3>1
  <2>13. \A p \in Pid : state'[p] = "SemaWait" =>
            \E t \in Sid : \E i \in DOMAIN sem'[t].queue : sem'[t].queue[i] = p
    <3>1. ASSUME NEW p \in Pid, state'[p] = "SemaWait"
          PROVE  \E t \in Sid : \E i \in DOMAIN sem'[t].queue : sem'[t].queue[i] = p
      <4>1. p # h /\ state[p] = "SemaWait"
        BY <3>1, <2>8
      <4>2. PICK t \in Sid : \E i \in DOMAIN sem[t].queue : sem[t].queue[i] = p
        BY <4>1 DEF WaitInv, SemaphoreWaiters
      <4>3. PICK i \in DOMAIN sem[t].queue : sem[t].queue[i] = p
        BY <4>2
      <4>4. CASE t = s
        <5>1. i \in 1 .. n /\ i # 1
          BY <4>1, <4>3, <4>4, <2>1 DEF h
        <5>2. i - 1 \in DOMAIN sem'[s].queue /\ sem'[s].queue[i - 1] = p
          BY <5>1, <4>3, <4>4, <2>5
        <5> QED BY <5>2
      <4>5. CASE t # s
        BY <4>3, <4>5, <2>4
      <4> QED BY <4>4, <4>5
    <3> QED BY <3>1
  <2>14. \A t \in Sid : t >= curr_sid' => sem'[t].queue = << >>
    BY <1>1, <2>4 DEF WaitInv, SemaphoreWaiters
  <2>15. SemaphoreWaiters'
    BY <2>11, <2>12, <2>13, <2>14 DEF SemaphoreWaiters
  <2> QED BY <1>1, <1>2, <2>7, <2>15, SleepFrame, EventFrame, IOFrame
<1> QED BY <1>3, <1>4 DEF SignalSemaphore

\* delete_semaphore() readies all that are in the queue it empties.
LEMMA DeleteSemaphoreWakes ==
    ASSUME WaitInv, NEW s \in Sid, DeleteSemaphore(s)
    PROVE  SemaphoreWaiters' /\ SleepWaiters' /\ EventWaiters' /\ IOWaiters'
<1> DEFINE S == {sem[s].queue[i] : i \in DOMAIN sem[s].queue}
<1>1. /\ UNCHANGED <<curr_sid, sleep_queue, event_queue, requested, gpu_pid, pc, target>>
      /\ sem \in [Sid -> [count : Int, queue : Seq(Pid)]]
      /\ SchedulerInv /\ MakeReady(S)
  BY DEF DeleteSemaphore, ReadyDeferred, tables, thread, WaitInv, SchedulerInv, TypeOK
<1>2. sem'[s].queue = << >> /\ \A t \in Sid : t # s => sem'[t].queue = sem[t].queue
  BY <1>1 DEF DeleteSemaphore, Semaphore
<1>3. /\ SameNotifying
      /\ \A t \in Sid : \A i \in DOMAIN sem[t].queue : sem[t].queue[i] \in Pid
  BY <1>1, QueueType DEF SameNotifying, SchedulerInv
<1>4. \A p \in S : state[p] = "SemaWait"
  BY DEF WaitInv, SemaphoreWaiters
<1> HIDE DEF S
<1>5. SameIn("Sleep") /\ OnlyDisplayLeaves("EventWait") /\ OnlyDisplayLeaves("IOWait")
  <2>1. \A p \in Pid : p \in S => state[p] = "SemaWait" \/ (p = gpu_pid /\ p # NULL)
    BY <1>4
  <2> QED BY <1>1, <2>1, WakingKeeps
<1>6. \A p \in Pid : /\ p \notin S => state'[p] = state[p]
                     /\ p \in S => state'[p] = "Ready"
                     /\ state'[p] = state[p] \/ state'[p] = "Ready"
  BY <1>1, <1>4, MakeReadyEffect
<1>7. \A t \in Sid : \A i \in DOMAIN sem'[t].queue :
          t # s /\ i \in DOMAIN sem[t].queue /\ sem'[t].queue[i] = sem[t].queue[i]
  BY <1>2
<1>8. \A t \in Sid : \A i \in DOMAIN sem'[t].queue : state'[sem'[t].queue[i]] = "SemaWait"
  <2>1. ASSUME NEW t \in Sid, NEW i \in DOMAIN sem'[t].queue PROVE sem'[t].queue[i] \notin S
    BY <1>7 DEF S, WaitInv, SemaphoreWaiters
  <2> QED BY <2>1, <1>3, <1>6, <1>7 DEF WaitInv, SemaphoreWaiters
<1>9. \A t, u \in Sid : \A i \in DOMAIN sem'[t].queue : \A j \in DOMAIN sem'[u].queue :
          sem'[t].queue[i] = sem'[u].queue[j] => t = u /\ i = j
  BY <1>7 DEF WaitInv, SemaphoreWaiters
<1>10. ASSUME NEW p \in Pid, state'[p] = "SemaWait"
       PROVE  \E t \in Sid : \E i \in DOMAIN sem'[t].queue : sem'[t].queue[i] = p
  <2>1. p \notin S /\ state[p] = "SemaWait"
    BY <1>6, <1>10
  <2>2. PICK t \in Sid : \E i \in DOMAIN sem[t].queue : sem[t].queue[i] = p
    BY <2>1 DEF WaitInv, SemaphoreWaiters
  <2>3. t # s
    BY <2>1, <2>2 DEF S
  <2> QED BY <2>2, <2>3, <1>2
<1>11. \A t \in Sid : t >= curr_sid' => sem'[t].queue = << >>
  BY <1>1, <1>2 DEF WaitInv, SemaphoreWaiters
<1>12. SemaphoreWaiters'
  BY <1>8, <1>9, <1>10, <1>11 DEF SemaphoreWaiters
<1> QED BY <1>1, <1>3, <1>5, <1>12, SleepFrame, EventFrame, IOFrame

\* event_signal() readies all that are in the queue it empties.
LEMMA EventSignalWakes ==
    ASSUME WaitInv, NEW e \in Events, EventSignal(e)
    PROVE  SemaphoreWaiters' /\ SleepWaiters' /\ EventWaiters' /\ IOWaiters'
<1> DEFINE S == event_queue[e]
<1>1. /\ UNCHANGED <<sem, curr_sid, sleep_queue, requested, gpu_pid, pc, target>>
      /\ event_queue \in [Events -> SUBSET Pid] /\ SchedulerInv
  BY DEF EventSignal, tables, thread, WaitInv, SchedulerInv, TypeOK
<1>2. event_queue'[e] = {} /\ \A f \in Events : f # e => event_queue'[f] = event_queue[f]
  BY <1>1 DEF EventSignal
<1>3. SameNotifying /\ SameQueues
  BY <1>1 DEF SameNotifying, SameQueues
<1>4. \A p \in S : p \in Pid /\ p # NULL /\ (state[p] = "EventWait" \/ p = gpu_pid)
  BY <1>1 DEF WaitInv, EventWaiters
<1>5. /\ SameIn("SemaWait") /\ SameIn("Sleep") /\ OnlyDisplayLeaves("IOWait")
      /\ \A p \in Pid : /\ p \notin S => state'[p] = state[p]
                        /\ state'[p] = state[p] \/ state'[p] = "Ready"
                        /\ p \in S => state'[p] # "EventWait"
  <2>1. CASE S = {} /\ UNCHANGED state
    BY <2>1 DEF SameIn, OnlyDisplayLeaves
  <2>2. CASE MakeReady(S)
    <3> HIDE DEF S
    <3>1. SameIn("SemaWait") /\ SameIn("Sleep") /\ OnlyDisplayLeaves("IOWait")
      <4>1. \A p \in Pid : p \in S => state[p] = "EventWait" \/ (p = gpu_pid /\ p # NULL)
        BY <1>4
      <4> QED BY <1>1, <2>2, <4>1, WakingKeeps
    <3>2. \A p \in Pid : /\ p \notin S => state'[p] = state[p]
                         /\ state'[p] = state[p] \/ state'[p] = "Ready"
                         /\ p \in S => state'[p] # "EventWait"
      BY <2>2, MakeReadyEffect
    <3> QED BY <3>1, <3>2
  <2> QED BY <2>1, <2>2 DEF EventSignal, ReadyDeferred
<1>6. EventWaiters'
  <2>1. ASSUME NEW f \in Events, NEW p \in event_queue'[f]
        PROVE  p # NULL /\ (state'[p] = "EventWait" \/ p = gpu_pid')
    <3>1. f # e /\ p \in event_queue[f] /\ p \in Pid
      BY <1>1, <1>2, <2>1
    <3> QED BY <3>1, <1>1, <1>5 DEF WaitInv, EventWaiters
  <2>2. \A f, g \in Events : \A p \in event_queue'[f] \cap event_queue'[g] : f = g \/ p = gpu_pid'
    BY <1>1, <1>2 DEF WaitInv, EventWaiters
  <2>3. ASSUME NEW p \in Pid, state'[p] = "EventWait" PROVE \E f \in Events : p \in event_queue'[f]
    <3>1. p \notin S /\ state[p] = "EventWait"
      BY <1>5, <2>3
    <3> QED BY <3>1, <1>2 DEF WaitInv, EventWaiters
  <2> QED BY <2>1, <2>2, <2>3 DEF EventWaiters
<1> QED BY <1>1, <1>3, <1>5, <1>6, SemaphoreFrame, SleepFrame, IOFrame

\* io_signal() readies the process its request was made for.
LEMMA IoSignalWakes ==
    ASSUME WaitInv, NEW p \in Pid, IoSignal(p)
    PROVE  SemaphoreWaiters' /\ SleepWaiters' /\ EventWaiters' /\ IOWaiters'
<1>1. /\ UNCHANGED <<sem, curr_sid, sleep_queue, event_queue, gpu_pid, pc, target>>
      /\ p \in requested /\ MakeReady({p}) /\ SchedulerInv
      /\ requested' = requested \ {p} \/ (p = gpu_pid /\ requested' = requested)
      /\ requested \subseteq Pid
  BY DEF IoSignal, ReadyOne, tables, queues, thread, WaitInv, SchedulerInv, TypeOK
<1>2. SameQueues
  BY <1>1 DEF SameQueues
<1>3. p # NULL /\ (state[p] = "IOWait" \/ p = gpu_pid)
  BY <1>1 DEF WaitInv, IOWaiters
<1>4. SameIn("SemaWait") /\ SameIn("Sleep") /\ OnlyDisplayLeaves("EventWait")
  <2>1. \A q \in Pid : q \in {p} => state[q] = "IOWait" \/ (q = gpu_pid /\ q # NULL)
    BY <1>3
  <2> QED BY <1>1, <2>1, WakingKeeps
<1>5. state'[p] # "IOWait" /\ \A q \in Pid : q # p => state'[q] = state[q]
  BY <1>1, MakeReadyEffect
<1>6. \A q \in requested' : q # NULL /\ (state'[q] = "IOWait" \/ q = gpu_pid')
  BY <1>1, <1>5 DEF WaitInv, IOWaiters
<1>7. ASSUME NEW q \in Pid, pc'[q] = "notify"
      PROVE  /\ target'[q] # NULL
             /\ \/ target'[q] = gpu_pid'
                \/ target'[q] = q /\ state'[q] = "IOWait" /\ q \notin requested'
  BY <1>1, <1>5, <1>7 DEF WaitInv, IOWaiters
<1>8. IOWaitIsAnswered'
  BY <1>1, <1>5 DEF WaitInv, IOWaiters, IOWaitIsAnswered
<1>9. IOWaiters'
  BY <1>6, <1>7, <1>8 DEF IOWaiters
<1> QED BY <1>1, <1>2, <1>4, <1>9, SemaphoreFrame, SleepFrame, EventFrame

\* The timer readies exactly the processes whose nodes it removes.
LEMMA TimerWakes ==
    ASSUME WaitInv, TimerInterrupt
    PROVE  SemaphoreWaiters' /\ SleepWaiters' /\ EventWaiters' /\ IOWaiters'
<1> DEFINE S == {p \in Due(sleep_queue) : state[p] = "Sleep"}
<1>1. /\ UNCHANGED <<sem, curr_sid, event_queue, requested, gpu_pid, pc, target>>
      /\ sleep_queue' = Tick(sleep_queue) /\ SchedulerInv
      /\ sleep_queue \in NodeList(Pid) /\ Distinct(sleep_queue)
      /\ \A p \in Pid : state[p] = "Sleep" <=> p \in PidsOf(sleep_queue)
  BY DEF TimerInterrupt, tables, thread, WaitInv, SchedulerInv, TypeOK, NodeList, SleepWaiters
<1>2. SameQueues /\ SameNotifying
  BY <1>1 DEF SameQueues, SameNotifying
<1>3. /\ PidsOf(sleep_queue) = PidsOf(sleep_queue') \cup Due(sleep_queue) /\ Due(sleep_queue) \subseteq Pid
      /\ Distinct(sleep_queue') /\ PidsOf(sleep_queue') \cap Due(sleep_queue) = {}
  BY <1>1, TickProperties, TickDistinct
<1>4. S = Due(sleep_queue)
  BY <1>1, <1>3
<1>5. CASE sleep_queue = << >> /\ UNCHANGED state
  <2>1. PidsOf(sleep_queue) = {}
    BY <1>5 DEF PidsOf
  <2>2. /\ SameIn("SemaWait") /\ OnlyDisplayLeaves("EventWait") /\ OnlyDisplayLeaves("IOWait")
        /\ \A p \in Pid : state'[p] = "Sleep" <=> p \in PidsOf(sleep_queue')
    BY <1>1, <1>3, <1>5, <2>1 DEF SameIn, OnlyDisplayLeaves
  <2>3. SleepWaiters'
    BY <1>3, <2>2 DEF SleepWaiters, Distinct, PidsOf
  <2> QED BY <1>1, <1>2, <2>2, <2>3, SemaphoreFrame, EventFrame, IOFrame
<1>6. CASE MakeReady(S)
  <2>1. \A p \in Pid : p \in S => state[p] = "Sleep" \/ (p = gpu_pid /\ p # NULL)
    OBVIOUS
  <2> HIDE DEF S
  <2>2. SameIn("SemaWait") /\ OnlyDisplayLeaves("EventWait") /\ OnlyDisplayLeaves("IOWait")
    BY <1>1, <1>6, <2>1, WakingKeeps
  <2>3. \A p \in Pid : /\ p \notin S => state'[p] = state[p]
                       /\ state'[p] = state[p] \/ state'[p] = "Ready"
                       /\ p \in S /\ state[p] = "Sleep" => state'[p] = "Ready"
    BY <1>6, MakeReadyEffect
  <2>4. \A p \in Pid : state'[p] = "Sleep" <=> p \in PidsOf(sleep_queue')
    BY <1>1, <1>3, <1>4, <2>3
  <2>5. SleepWaiters'
    BY <1>3, <2>4 DEF SleepWaiters, Distinct, PidsOf
  <2> QED BY <1>1, <1>2, <2>2, <2>5, SemaphoreFrame, EventFrame, IOFrame
<1> QED BY <1>5, <1>6 DEF TimerInterrupt, ReadyDeferred

-----------------------------------------------------------------------------
LEMMA NextWaitInv == WaitInv /\ [Next]_vars => WaitInv'
<1> SUFFICES ASSUME WaitInv, [Next]_vars PROVE WaitInv'
  OBVIOUS
<1>0. SchedulerInv /\ SchedulerInv'
  BY NextInv DEF WaitInv
<1>1. CASE Schedule
  BY <1>0, <1>1, ScheduleQuiet, QuietPreserves DEF WaitInv
<1>2. CASE TimerInterrupt
  BY <1>0, <1>2, TimerWakes DEF WaitInv
<1>3. CASE DeviceInterrupt
  BY <1>0, <1>3, IoSignalWakes, SignalSemaphoreWakes, EventSignalWakes DEF WaitInv, DeviceInterrupt
<1>4. CASE Operation
  <2>1. CASE CreateStart \/ DeferStart \/ DeferStop \/ DeferCheck \/ ReadyPush \/ CallSchedule
                 \/ InitDisplay \/ WaitExit
    BY <1>0, <2>1, StepsQuiet, QuietPreserves DEF WaitInv
  <2>2. CASE \/ \E prio \in Priorities : CreateProcess(prio)
             \/ \E p \in Pid : ReadyMark(p)
             \/ Kill
    BY <1>0, <2>2, LifeQuiet, QuietPreserves DEF WaitInv
  <2>3. CASE Notify \/ \E p \in Pid : IoWait(p)
    BY <1>0, <2>3, IoWaits, NotifyWaits DEF WaitInv
  <2>4. CASE \/ \E count \in Counts : CreateSemaphore(count)
             \/ \E s \in Sid : WaitSemaphore(s)
    BY <1>0, <2>4, CreateSemaphoreWaits, WaitSemaphoreWaits DEF WaitInv
  <2>5. CASE SignalByProcess
    BY <1>0, <2>5, SignalSemaphoreWakes, DeleteSemaphoreWakes DEF WaitInv, SignalByProcess
  <2>6. CASE (\E delay \in Delays : Sleep(delay)) \/ (\E e \in Events : EventWait(e))
    BY <1>0, <2>6, SleepWaits, EventWaits DEF WaitInv
  <2> QED BY <1>4, <2>1, <2>2, <2>3, <2>4, <2>5, <2>6 DEF Operation
<1>5. CASE UNCHANGED vars
  <2>1. Quiet
    BY <1>5 DEF vars, tables, queues, thread, Quiet, SameIn, SameNotifying
  <2> QED BY <1>0, <2>1, QuietPreserves DEF WaitInv
<1> QED BY <1>1, <1>2, <1>3, <1>4, <1>5 DEF Next

\* In every behaviour each process waits where its state says, and only there.
THEOREM WaitInvariant == Spec => []WaitInv
<1>1. Init => WaitInv
  BY InitInv, WaitInit DEF WaitInv
<1>2. WaitInv /\ [Next]_vars => WaitInv'
  BY NextWaitInv
<1> QED BY <1>1, <1>2, PTL DEF Spec

\* Each process in SemaWait or Sleep is in one queue, once, nobody else is, and each
\* process in EventWait is in an event queue.
THEOREM WaitersAreQueued == Spec => []WaitersMatchQueues
<1>1. ASSUME WaitInv, NEW p \in Pid
      PROVE  Cardinality(SemaphoreSlots(p)) = IF state[p] = "SemaWait" THEN 1 ELSE 0
  <2>1. CASE state[p] = "SemaWait"
    <3>1. PICK s \in Sid : \E i \in DOMAIN sem[s].queue : sem[s].queue[i] = p
      BY <1>1, <2>1 DEF WaitInv, SemaphoreWaiters
    <3>2. PICK i \in DOMAIN sem[s].queue : sem[s].queue[i] = p
      BY <3>1
    <3>3. \A t \in Sid : \A j \in DOMAIN sem[t].queue : sem[t].queue[j] = p => t = s /\ j = i
      BY <1>1, <3>2 DEF WaitInv, SemaphoreWaiters
    <3>4. SemaphoreSlots(p) = {<<s, i>>}
      BY <3>2, <3>3 DEF SemaphoreSlots
    <3> QED BY <2>1, <3>4, FS_Singleton
  <2>2. CASE state[p] # "SemaWait"
    <3>1. SemaphoreSlots(p) = {}
      BY <1>1, <2>2 DEF SemaphoreSlots, WaitInv, SemaphoreWaiters
    <3> QED BY <2>2, <3>1, FS_EmptySet
  <2> QED BY <2>1, <2>2
<1>2. ASSUME WaitInv, NEW p \in Pid
      PROVE  Cardinality({i \in DOMAIN sleep_queue : sleep_queue[i].pid = p}) =
                 IF state[p] = "Sleep" THEN 1 ELSE 0
  <2> DEFINE Nodes == {i \in DOMAIN sleep_queue : sleep_queue[i].pid = p}
  <2>1. CASE state[p] = "Sleep"
    <3>1. PICK i \in DOMAIN sleep_queue : sleep_queue[i].pid = p
      BY <1>2, <2>1 DEF WaitInv, SleepWaiters, PidsOf
    <3>2. Nodes = {i}
      BY <1>2, <3>1 DEF WaitInv, SleepWaiters, Distinct
    <3> QED BY <2>1, <3>2, FS_Singleton
  <2>2. CASE state[p] # "Sleep"
    <3>1. Nodes = {}
      BY <1>2, <2>2 DEF WaitInv, SleepWaiters, PidsOf
    <3> QED BY <2>2, <3>1, FS_EmptySet
  <2> QED BY <2>1, <2>2
<1>3. WaitInv => WaitersMatchQueues
  BY <1>1, <1>2 DEF WaitersMatchQueues, WaitInv, EventWaiters
<1> QED BY <1>3, WaitInvariant, PTL

\* Only the display process is ever found in an event queue without waiting there.
THEOREM EventQueuesAreExact == Spec => []EventQueuesExact
<1>1. WaitInv => EventQueuesExact
  BY DEF WaitInv, EventWaiters, EventQueuesExact
<1> QED BY <1>1, WaitInvariant, PTL

\* Whoever waits for a device has a request there or a driver about to notify it: no
\* completion is lost, however early it comes.
THEOREM NoCompletionIsLost == Spec => []IOWaitIsAnswered
<1>1. WaitInv => IOWaitIsAnswered
  BY DEF WaitInv, IOWaiters
<1> QED BY <1>1, WaitInvariant, PTL

-----------------------------------------------------------------------------
(***************************************************************************)
(* The sleep list by itself (SleepQueue) implements a timer for every      *)
(* process, for any number of sleepers and any delays.                     *)
(*                                                                         *)
(* The refinement maps a sleeper to the sum of the relative delays up to   *)
(* its node.  What has to be shown of the list is that an insertion leaves *)
(* the sums of all the other nodes alone, and that a tick takes one off    *)
(* every sum, or none if somebody's sum is zero already, and removes the   *)
(* nodes whose sum becomes zero.                                           *)
(***************************************************************************)

\* The absolute delay of p in list q.
DelayIn(q, p) ==
    IF p \in PidsOf(q) THEN DelaySums(q)[CHOOSE j \in DOMAIN q : q[j].pid = p] ELSE -1

\* Each sleeper has one node, and none has a negative delay.
ListInv == list \in NodeList(Sleepers) /\ Distinct(list) /\ NonNegative(list)

-----------------------------------------------------------------------------
(***************************************************************************)
(* Running totals.                                                         *)
(***************************************************************************)

\* A list has one running total.
LEMMA SumUnique ==
    ASSUME NEW q, NEW n \in Nat, NEW f, NEW g, IsSum(f, q, n), IsSum(g, q, n)
    PROVE  f = g
<1> DEFINE S == {i \in Nat : i <= n => f[i] = g[i]}
<1>1. 0 \in S
  BY DEF IsSum
<1>2. ASSUME NEW i \in S PROVE i + 1 \in S
  <2>1. CASE i + 1 <= n
    <3>1. i + 1 \in 1 .. n /\ (i + 1) - 1 = i /\ i <= n
      BY <2>1
    <3>2. f[i + 1] = f[i] + q[i + 1].delay /\ g[i + 1] = g[i] + q[i + 1].delay
      BY <3>1 DEF IsSum
    <3> QED BY <3>1, <3>2
  <2> QED BY <2>1
<1>3. S \in SUBSET Nat
  OBVIOUS
<1> HIDE DEF S
<1>4. S = Nat
  BY <1>1, <1>2, <1>3, SetInduction
<1>5. \A i \in 0 .. n : f[i] = g[i]
  BY <1>4 DEF S
<1> QED BY <1>5 DEF IsSum

\* With no negative delay the running total never falls.
LEMMA SumMonotone ==
    ASSUME NEW P, NEW q \in NodeList(P), NonNegative(q), NEW i \in 0 .. Len(q), NEW j \in i .. Len(q)
    PROVE  DelaySums(q)[i] <= DelaySums(q)[j]
<1> DEFINE f == DelaySums(q)
<1>1. Len(q) \in Nat /\ DOMAIN q = 1 .. Len(q) /\ \A k \in 1 .. Len(q) : q[k].delay \in Int
  BY NodeListProperties
<1>2. IsSum(f, q, Len(q))
  BY DelaySumsProperties
<1> HIDE DEF f
<1> DEFINE S == {k \in Nat : i + k <= Len(q) => f[i] <= f[i + k]}
<1>3. 0 \in S
  BY <1>1, <1>2 DEF IsSum
<1>4. ASSUME NEW k \in S PROVE k + 1 \in S
  <2>1. CASE i + (k + 1) <= Len(q)
    <3>1. i + (k + 1) \in 1 .. Len(q) /\ (i + (k + 1)) - 1 = i + k /\ i + k <= Len(q) /\ i + k \in 0 .. Len(q)
      BY <2>1, <1>1
    <3>2. f[i + (k + 1)] = f[i + k] + q[i + (k + 1)].delay
      BY <3>1, <1>2 DEF IsSum
    <3>3. q[i + (k + 1)].delay \in Int /\ q[i + (k + 1)].delay >= 0
      BY <3>1, <1>1 DEF NonNegative
    <3>4. f[i] \in Int /\ f[i + k] \in Int /\ f[i] <= f[i + k]
      BY <3>1, <1>1, <1>2 DEF IsSum
    <3> QED BY <3>2, <3>3, <3>4
  <2> QED BY <2>1
<1>5. S \in SUBSET Nat
  OBVIOUS
<1> HIDE DEF S
<1>6. S = Nat
  BY <1>3, <1>4, <1>5, SetInduction
<1>7. j - i \in Nat /\ i + (j - i) = j
  BY <1>1
<1>8. j - i \in S
  BY <1>6, <1>7
<1> QED BY <1>1, <1>7, <1>8 DEF S, f

\* The absolute delay of a sleeper is the running total at its node.
LEMMA DelayAtNode ==
    ASSUME NEW q, Distinct(q), NEW j \in DOMAIN q
    PROVE  DelayIn(q, q[j].pid) = DelaySums(q)[j]
<1>1. (CHOOSE k \in DOMAIN q : q[k].pid = q[j].pid) = j
  BY DEF Distinct
<1> QED BY <1>1 DEF DelayIn, PidsOf

-----------------------------------------------------------------------------
(***************************************************************************)
(* sleep(): the new node has the delay asked for, the others what they had.*)
(***************************************************************************)

LEMMA InsertSums ==
    ASSUME NEW P, NEW q \in NodeList(P), NEW pid \in P, NEW delay \in Int
    PROVE  LET n == Cardinality(Passed(q, delay))
               f == DelaySums(q)
               g == DelaySums(Insert(q, pid, delay))
           IN  /\ \A j \in 1 .. n : g[j] = f[j]
               /\ g[n + 1] = delay
               /\ \A j \in n + 1 .. Len(q) : g[j + 1] = f[j]
<1> DEFINE n == Cardinality(Passed(q, delay))
<1> DEFINE f == DelaySums(q)
<1> DEFINE r == Insert(q, pid, delay)
<1> DEFINE rel == delay - f[n]
<1> DEFINE g == [j \in 0 .. Len(q) + 1 |-> IF j <= n THEN f[j] ELSE IF j = n + 1 THEN delay ELSE f[j - 1]]
<1>1. /\ n \in 0 .. Len(q) /\ rel \in Int
      /\ \A j \in 1 .. n : r[j] = q[j]
      /\ r[n + 1] = [pid |-> pid, delay |-> rel]
      /\ n < Len(q) => r[n + 2] = [pid |-> q[n + 1].pid, delay |-> q[n + 1].delay - rel]
      /\ \A j \in n + 3 .. Len(q) + 1 : r[j] = q[j - 1]
  <2>1. Inserted(q, pid, n, rel, r)
    BY InsertNodes
  <2> HIDE DEF n, rel, r
  <2> QED BY <2>1 DEF Inserted
<1>2. /\ Len(q) \in Nat /\ \A k \in 1 .. Len(q) : q[k].delay \in Int
      /\ r \in NodeList(P) /\ Len(r) = Len(q) + 1
  <2>1. r \in NodeList(P) /\ Len(r) = Len(q) + 1
    BY InsertProperties
  <2> QED BY <2>1, NodeListProperties
<1>3. IsSum(f, q, Len(q)) /\ IsSum(DelaySums(r), r, Len(q) + 1)
  BY <1>2, DelaySumsProperties
<1>4. f \in [0 .. Len(q) -> Int] /\ f[0] = 0 /\ \A j \in 1 .. Len(q) : f[j] = f[j - 1] + q[j].delay
  BY <1>3 DEF IsSum
<1>5. f[n] \in Int /\ rel = delay - f[n]
  BY <1>1, <1>4
<1> HIDE DEF n, f, r, rel
<1>6. g \in [0 .. Len(q) + 1 -> Int] /\ g[0] = 0
  <2>1. ASSUME NEW j \in 0 .. Len(q) + 1, j > n + 1 PROVE f[j - 1] \in Int
    <3>1. j - 1 \in 0 .. Len(q)
      BY <2>1, <1>1, <1>2
    <3> QED BY <3>1, <1>4
  <2>2. ASSUME NEW j \in 0 .. Len(q) + 1, j <= n PROVE f[j] \in Int
    <3>1. j \in 0 .. Len(q)
      BY <2>2, <1>1, <1>2
    <3> QED BY <3>1, <1>4
  <2>3. \A j \in 0 .. Len(q) + 1 : j <= n \/ j = n + 1 \/ j > n + 1
    BY <1>1, <1>2
  <2>4. \A j \in 0 .. Len(q) + 1 : (IF j <= n THEN f[j] ELSE IF j = n + 1 THEN delay ELSE f[j - 1]) \in Int
    BY <2>1, <2>2, <2>3
  <2>5. 0 \in 0 .. Len(q) + 1 /\ 0 <= n
    BY <1>1, <1>2
  <2> QED BY <2>4, <2>5, <1>4
<1>7. ASSUME NEW j \in 1 .. Len(q) + 1 PROVE g[j] = g[j - 1] + r[j].delay
  <2>0. j \in 0 .. Len(q) + 1 /\ j - 1 \in 0 .. Len(q) + 1
    BY <1>2
  <2>1. CASE j <= n
    <3>1. j \in 1 .. n /\ j \in 1 .. Len(q) /\ j - 1 <= n
      BY <2>1, <1>1, <1>2
    <3>2. g[j] = f[j] /\ g[j - 1] = f[j - 1] /\ r[j] = q[j]
      BY <2>0, <2>1, <3>1, <1>1
    <3> QED BY <3>1, <3>2, <1>4
  <2>2. CASE j = n + 1
    <3>1. g[j] = delay /\ g[j - 1] = f[n]
      BY <2>0, <2>2, <1>1, <1>2
    <3> QED BY <3>1, <2>2, <1>1, <1>5
  <2>3. CASE j = n + 2
    <3>1. n < Len(q) /\ n + 1 \in 1 .. Len(q) /\ (n + 1) - 1 = n /\ j - 1 = n + 1
      BY <2>3, <1>1, <1>2
    <3>2. g[j] = f[n + 1] /\ g[j - 1] = delay
      BY <2>0, <2>3, <3>1, <1>1, <1>2
    <3>3. f[n + 1] = f[n] + q[n + 1].delay /\ r[j].delay = q[n + 1].delay - rel
      <4>1. f[n + 1] = f[n] + q[n + 1].delay
        BY <3>1, <1>4
      <4>2. r[j].delay = q[n + 1].delay - rel
        BY <2>3, <3>1, <1>1
      <4> QED BY <4>1, <4>2
    <3>4. q[n + 1].delay \in Int
      BY <3>1, <1>2
    <3> HIDE DEF g
    <3>5. f[n + 1] \in Int /\ rel \in Int /\ delay \in Int
      BY <3>1, <1>1, <1>4
    <3>6. f[n] + q[n + 1].delay = delay + (q[n + 1].delay - (delay - f[n]))
      BY <3>4, <1>5
    <3> QED BY <3>2, <3>3, <3>6, <1>5
  <2>4. CASE j > n + 2
    <3>1. j \in n + 3 .. Len(q) + 1 /\ j - 1 \in 1 .. Len(q) /\ j - 1 > n + 1
      BY <2>4, <1>1, <1>2
    <3>2. g[j] = f[j - 1] /\ g[j - 1] = f[(j - 1) - 1]
      BY <2>0, <2>4, <3>1, <1>1, <1>2
    <3>3. r[j] = q[j - 1]
      BY <3>1, <1>1
    <3> QED BY <3>1, <3>2, <3>3, <1>4
  <2> QED BY <2>1, <2>2, <2>3, <2>4, <1>1, <1>2
<1>8. IsSum(g, r, Len(q) + 1)
  <2> HIDE DEF g
  <2> QED BY <1>6, <1>7 DEF IsSum
<1>9. DelaySums(r) = g
  <2>1. Len(q) + 1 \in Nat
    BY <1>2
  <2> HIDE DEF g
  <2> QED BY <2>1, <1>3, <1>8, SumUnique
<1>10. /\ \A j \in 1 .. n : g[j] = f[j]
       /\ g[n + 1] = delay
       /\ \A j \in n + 1 .. Len(q) : g[j + 1] = f[j]
  <2>1. \A j \in 1 .. n : j \in 0 .. Len(q) + 1 /\ j <= n
    BY <1>1, <1>2
  <2>2. \A j \in n + 1 .. Len(q) : j + 1 \in 0 .. Len(q) + 1 /\ ~(j + 1 <= n) /\ j + 1 # n + 1 /\ (j + 1) - 1 = j
    BY <1>1, <1>2
  <2>3. n + 1 \in 0 .. Len(q) + 1 /\ ~(n + 1 <= n)
    BY <1>1, <1>2
  <2> QED BY <2>1, <2>2, <2>3
<1>11. /\ \A j \in 1 .. n : DelaySums(r)[j] = f[j]
       /\ DelaySums(r)[n + 1] = delay
       /\ \A j \in n + 1 .. Len(q) : DelaySums(r)[j + 1] = f[j]
  <2> HIDE DEF g
  <2> QED BY <1>9, <1>10
<1> QED BY <1>11 DEF n, f, r

LEMMA InsertDelays ==
    ASSUME NEW P, NEW q \in NodeList(P), Distinct(q), NEW pid \in P, pid \notin PidsOf(q),
           NEW delay \in Int, NEW p \in P
    PROVE  DelayIn(Insert(q, pid, delay), p) = IF p = pid THEN delay ELSE DelayIn(q, p)
<1> DEFINE n == Cardinality(Passed(q, delay))
<1> DEFINE r == Insert(q, pid, delay)
<1> DEFINE rel == delay - DelaySums(q)[n]
<1>1. /\ n \in 0 .. Len(q) /\ DOMAIN r = 1 .. Len(q) + 1
      /\ \A j \in 1 .. n : r[j] = q[j]
      /\ r[n + 1] = [pid |-> pid, delay |-> rel]
      /\ n < Len(q) => r[n + 2] = [pid |-> q[n + 1].pid, delay |-> q[n + 1].delay - rel]
      /\ \A j \in n + 3 .. Len(q) + 1 : r[j] = q[j - 1]
  <2>1. Inserted(q, pid, n, rel, r)
    BY InsertNodes
  <2> HIDE DEF n, rel, r
  <2> QED BY <2>1 DEF Inserted
<1>2. /\ \A j \in 1 .. n : DelaySums(r)[j] = DelaySums(q)[j]
      /\ DelaySums(r)[n + 1] = delay
      /\ \A j \in n + 1 .. Len(q) : DelaySums(r)[j + 1] = DelaySums(q)[j]
  BY InsertSums
<1>3. Len(q) \in Nat /\ DOMAIN q = 1 .. Len(q)
  BY NodeListProperties
<1>4. Distinct(r) /\ PidsOf(r) = PidsOf(q) \cup {pid}
  BY InsertDistinct, InsertProperties
<1> HIDE DEF n, r, rel
<1>5. CASE p = pid
  <2>1. n + 1 \in DOMAIN r /\ r[n + 1].pid = pid
    BY <1>1, <1>3
  <2>2. DelayIn(r, r[n + 1].pid) = DelaySums(r)[n + 1]
    BY <2>1, <1>4, DelayAtNode
  <2> QED BY <1>2, <1>5, <2>1, <2>2 DEF r
<1>6. CASE p # pid /\ p \in PidsOf(q)
  <2>1. PICK j \in DOMAIN q : q[j].pid = p
    BY <1>6 DEF PidsOf
  <2>2. DelayIn(q, p) = DelaySums(q)[j]
    BY <2>1, DelayAtNode
  <2>3. PICK k \in DOMAIN r : r[k].pid = p /\ DelaySums(r)[k] = DelaySums(q)[j]
    <3>1. CASE j <= n
      <4>1. j \in 1 .. n /\ j \in DOMAIN r
        BY <3>1, <1>1, <1>3
      <4> QED BY <4>1, <2>1, <1>1, <1>2
    <3>2. CASE j = n + 1
      <4>1. n < Len(q) /\ j + 1 \in DOMAIN r /\ j + 1 = n + 2 /\ j \in n + 1 .. Len(q)
        BY <3>2, <1>1, <1>3
      <4>2. r[n + 2].pid = q[n + 1].pid
        BY <4>1, <1>1
      <4> QED BY <4>1, <4>2, <3>2, <2>1, <1>2
    <3>3. CASE j > n + 1
      <4>1. j + 1 \in n + 3 .. Len(q) + 1 /\ j + 1 \in DOMAIN r /\ (j + 1) - 1 = j /\ j \in n + 1 .. Len(q)
        BY <3>3, <1>1, <1>3
      <4>2. r[j + 1] = q[j]
        BY <4>1, <1>1
      <4> QED BY <4>1, <4>2, <2>1, <1>2
    <3> QED BY <3>1, <3>2, <3>3, <1>1, <1>3
  <2>4. DelayIn(r, p) = DelaySums(r)[k]
    BY <2>3, <1>4, DelayAtNode
  <2> QED BY <1>6, <2>2, <2>3, <2>4 DEF r
<1>7. CASE p # pid /\ p \notin PidsOf(q)
  BY <1>4, <1>7 DEF DelayIn, r
<1> QED BY <1>5, <1>6, <1>7

-----------------------------------------------------------------------------
(***************************************************************************)
(* wakeup(): every running total loses one, or none if the front node has  *)
(* no delay left, and the nodes whose total is zero then are removed.      *)
(***************************************************************************)

\* What a tick takes off the front node.
Taken(q) == IF q # << >> /\ q[1].delay >= 1 THEN 1 ELSE 0

LEMMA DecrementNodes ==
    ASSUME NEW P, NEW q \in NodeList(P), NonNegative(q), q # << >>
    PROVE  /\ 1 \in 1 .. Len(q) /\ Decrement(q)[1].delay = q[1].delay - Taken(q)
           /\ \A j \in 2 .. Len(q) : Decrement(q)[j].delay = q[j].delay
           /\ NonNegative(Decrement(q))
<1> DEFINE x == [pid |-> q[1].pid, delay |-> IF q[1].delay >= 1 THEN q[1].delay - 1 ELSE q[1].delay]
<1>1. /\ Len(q) \in Nat /\ DOMAIN q = 1 .. Len(q)
      /\ \A k \in 1 .. Len(q) : q[k].delay \in Int /\ q[k].delay >= 0
  BY NodeListProperties DEF NonNegative
<1>2. Len(q) # 0
  BY DEF NodeList
<1>3. 1 \in 1 .. Len(q) /\ q[1].delay \in Int /\ q[1].delay >= 0
  BY <1>1, <1>2
<1>4. Decrement(q) = [q EXCEPT ![1] = x]
  BY DEF Decrement, ProcessDelay
<1>5. x.delay = q[1].delay - Taken(q) /\ x.delay >= 0
  BY <1>3 DEF Taken
<1> HIDE DEF x
<1>6. /\ DOMAIN Decrement(q) = 1 .. Len(q) /\ Decrement(q)[1] = x
      /\ \A j \in 1 .. Len(q) : j # 1 => Decrement(q)[j] = q[j]
  BY <1>1, <1>3, <1>4
<1>7. \A j \in 2 .. Len(q) : Decrement(q)[j].delay = q[j].delay
  BY <1>1, <1>6
<1>8. NonNegative(Decrement(q))
  BY <1>1, <1>5, <1>6 DEF NonNegative
<1> QED BY <1>3, <1>5, <1>6, <1>7, <1>8

LEMMA DecrementSums ==
    ASSUME NEW P, NEW q \in NodeList(P), NonNegative(q), NEW j \in 1 .. Len(q)
    PROVE  DelaySums(Decrement(q))[j] = DelaySums(q)[j] - Taken(q)
<1> DEFINE d == Decrement(q)
<1> DEFINE f == DelaySums(q)
<1> DEFINE g == [i \in 0 .. Len(q) |-> IF i = 0 THEN 0 ELSE f[i] - Taken(q)]
<1>1. /\ Len(q) \in Nat /\ \A k \in 1 .. Len(q) : q[k].delay \in Int
      /\ d \in NodeList(P) /\ Len(d) = Len(q)
  <2>1. d \in NodeList(P) /\ Len(d) = Len(q)
    BY DecrementProperties
  <2> QED BY <2>1, NodeListProperties
<1>2. q # << >>
  BY <1>1
<1>3. /\ 1 \in 1 .. Len(q) /\ d[1].delay = q[1].delay - Taken(q)
      /\ \A k \in 2 .. Len(q) : d[k].delay = q[k].delay
  BY <1>2, DecrementNodes
<1>4. IsSum(f, q, Len(q)) /\ IsSum(DelaySums(d), d, Len(q))
  BY <1>1, DelaySumsProperties
<1>5. f \in [0 .. Len(q) -> Int] /\ f[0] = 0 /\ \A k \in 1 .. Len(q) : f[k] = f[k - 1] + q[k].delay
  BY <1>4 DEF IsSum
<1>6. Taken(q) \in Int
  BY DEF Taken
<1> HIDE DEF d, f
<1>7. g \in [0 .. Len(q) -> Int] /\ g[0] = 0
  BY <1>1, <1>5, <1>6
<1>8. ASSUME NEW k \in 1 .. Len(q) PROVE g[k] = g[k - 1] + d[k].delay
  <2>0. k \in 0 .. Len(q) /\ k - 1 \in 0 .. Len(q) /\ k # 0 /\ q[k].delay \in Int
    BY <1>1
  <2>1. CASE k = 1
    <3>1. g[k] = f[k] - Taken(q) /\ g[k - 1] = 0
      BY <2>0, <2>1
    <3>2. f[k] = 0 + q[k].delay
      <4>1. f[k] = f[k - 1] + q[k].delay
        BY <1>5
      <4>2. f[k - 1] = 0
        BY <2>1, <1>5
      <4> QED BY <4>1, <4>2
    <3>3. d[k].delay = q[k].delay - Taken(q)
      BY <2>1, <1>3
    <3> HIDE DEF g
    <3> QED BY <3>1, <3>2, <3>3, <2>0, <1>6
  <2>2. CASE k # 1
    <3>1. k \in 2 .. Len(q) /\ k - 1 # 0
      BY <2>0, <2>2, <1>1
    <3>2. g[k] = f[k] - Taken(q) /\ g[k - 1] = f[k - 1] - Taken(q) /\ f[k - 1] \in Int
      BY <2>0, <3>1, <1>5
    <3>3. f[k] = f[k - 1] + q[k].delay /\ d[k].delay = q[k].delay
      BY <3>1, <1>3, <1>5
    <3> HIDE DEF g
    <3> QED BY <3>2, <3>3, <2>0, <1>6
  <2> QED BY <2>1, <2>2
<1>9. g[j] = f[j] - Taken(q)
  BY <1>1
<1> HIDE DEF g
<1>10. IsSum(g, d, Len(q))
  BY <1>7, <1>8 DEF IsSum
<1>11. DelaySums(d) = g
  BY <1>1, <1>4, <1>10, SumUnique
<1> QED BY <1>9, <1>11 DEF d, f

\* After a tick the nodes that go are those whose total is zero, the others keep it.
LEMMA TickSums ==
    ASSUME NEW P, NEW q \in NodeList(P), NonNegative(q)
    PROVE  LET d == Decrement(q)
               n == Cardinality(Expired(d))
           IN  /\ \A j \in 1 .. n : DelaySums(d)[j] = 0
               /\ \A j \in n + 1 .. Len(q) : DelaySums(d)[j] > 0
               /\ \A j \in 1 .. Len(q) - n : DelaySums(Tick(q))[j] = DelaySums(d)[j + n]
<1> DEFINE d == Decrement(q)
<1> DEFINE n == Cardinality(Expired(d))
<1> DEFINE t == Tick(q)
<1> DEFINE f == DelaySums(d)
<1>1. /\ n \in 0 .. Len(q) /\ DOMAIN t = 1 .. Len(q) - n
      /\ \A j \in 1 .. Len(q) - n : t[j] = d[j + n]
      /\ \A j \in 1 .. n : d[j].delay = 0
      /\ n < Len(q) => d[n + 1].delay # 0
  BY TickNodes
<1>2. Len(q) \in Nat /\ d \in NodeList(P) /\ Len(d) = Len(q) /\ t \in NodeList(P)
  BY NodeListProperties, DecrementProperties, TickProperties
<1>3. Len(t) = Len(q) - n
  <2> HIDE DEF t, n
  <2>1. Len(t) \in Nat /\ DOMAIN t = 1 .. Len(t)
    BY <1>2, NodeListProperties
  <2> QED BY <2>1, <1>1, <1>2
<1>4. NonNegative(d)
  <2>1. CASE q = << >>
    BY <2>1 DEF Decrement
  <2>2. CASE q # << >>
    BY <2>2, DecrementNodes
  <2> QED BY <2>1, <2>2
<1> HIDE DEF d, t
<1>5. IsSum(f, d, Len(q)) /\ IsSum(DelaySums(t), t, Len(q) - n)
  BY <1>2, <1>3, DelaySumsProperties
<1>6. f \in [0 .. Len(q) -> Int] /\ f[0] = 0 /\ \A k \in 1 .. Len(q) : f[k] = f[k - 1] + d[k].delay
  BY <1>5 DEF IsSum
<1>7. \A i \in 0 .. Len(q) : \A j \in i .. Len(q) : f[i] <= f[j]
  BY <1>2, <1>4, SumMonotone
<1>8. \A k \in 1 .. Len(q) : d[k].delay \in Int /\ d[k].delay >= 0
  BY <1>2, <1>4, NodeListProperties DEF NonNegative
<1> HIDE DEF n, f
<1>9. \A j \in 0 .. n : f[j] = 0
  <2> DEFINE S == {k \in Nat : k <= n => f[k] = 0}
  <2>1. 0 \in S
    BY <1>6
  <2>2. ASSUME NEW k \in S PROVE k + 1 \in S
    <3>1. CASE k + 1 <= n
      <4>1. k + 1 \in 1 .. n /\ k + 1 \in 1 .. Len(q) /\ (k + 1) - 1 = k /\ k <= n
        BY <3>1, <1>1, <1>2
      <4> QED BY <4>1, <1>1, <1>6
    <3> QED BY <3>1
  <2>3. S \in SUBSET Nat
    OBVIOUS
  <2> HIDE DEF S
  <2>4. S = Nat
    BY <2>1, <2>2, <2>3, SetInduction
  <2> QED BY <2>4, <1>1, <1>2 DEF S
<1>10. ASSUME NEW j \in n + 1 .. Len(q) PROVE f[j] > 0
  <2>1. n \in 0 .. n /\ n + 1 \in 1 .. Len(q) /\ n + 1 \in 0 .. Len(q) /\ (n + 1) - 1 = n /\ n < Len(q)
        /\ j \in n + 1 .. Len(q) /\ j \in 0 .. Len(q)
    BY <1>1, <1>2
  <2>2. f[n + 1] = 0 + d[n + 1].delay
    BY <2>1, <1>6, <1>9
  <2>3. f[n + 1] > 0
    BY <2>1, <2>2, <1>1, <1>8
  <2>4. f[n + 1] <= f[j] /\ f[n + 1] \in Int /\ f[j] \in Int
    BY <2>1, <1>6, <1>7
  <2> QED BY <2>3, <2>4
<1>11. ASSUME NEW j \in 1 .. Len(q) - n PROVE DelaySums(t)[j] = f[j + n]
  <2> DEFINE g == [i \in 0 .. Len(q) - n |-> f[i + n]]
  <2>1. \A i \in 0 .. Len(q) - n : i + n \in 0 .. Len(q)
    BY <1>1, <1>2
  <2>2. g \in [0 .. Len(q) - n -> Int]
    BY <2>1, <1>6
  <2>3. 0 \in 0 .. Len(q) - n /\ 0 + n = n /\ n \in 0 .. n
    BY <1>1, <1>2
  <2>4. g[0] = 0
    BY <2>3, <1>9
  <2>5. ASSUME NEW i \in 1 .. Len(q) - n PROVE g[i] = g[i - 1] + t[i].delay
    <3>1. /\ i \in 0 .. Len(q) - n /\ i - 1 \in 0 .. Len(q) - n
          /\ i + n \in 1 .. Len(q) /\ (i + n) - 1 = (i - 1) + n
      BY <1>1, <1>2
    <3>2. g[i] = f[i + n] /\ g[i - 1] = f[(i - 1) + n] /\ t[i] = d[i + n]
      BY <3>1, <1>1
    <3> QED BY <3>1, <3>2, <1>6
  <2>6. g[j] = f[j + n]
    BY <1>1, <1>2
  <2> HIDE DEF g
  <2>7. IsSum(g, t, Len(q) - n)
    BY <2>2, <2>4, <2>5 DEF IsSum
  <2>8. Len(q) - n \in Nat
    BY <1>1, <1>2
  <2>9. DelaySums(t) = g
    BY <1>5, <2>7, <2>8, SumUnique
  <2> QED BY <2>6, <2>9
<1>12. \A j \in 1 .. n : f[j] = 0
  BY <1>9, <1>1, <1>2
<1> QED BY <1>10, <1>11, <1>12 DEF d, n, t, f

\* A tick is counted unless some sleeper has no delay left.
LEMMA TakenUnlessZero ==
    ASSUME NEW P, NEW q \in NodeList(P), Distinct(q), NonNegative(q), q # << >>
    PROVE  IF \E p \in P : DelayIn(q, p) = 0 THEN Taken(q) = 0 ELSE Taken(q) = 1
<1>1. /\ Len(q) \in Nat /\ DOMAIN q = 1 .. Len(q)
      /\ \A k \in 1 .. Len(q) : q[k].pid \in P /\ q[k].delay \in Int /\ q[k].delay >= 0
  BY NodeListProperties DEF NonNegative
<1>2. 1 \in 1 .. Len(q) /\ (1 - 1) = 0
  <2>1. Len(q) # 0
    BY DEF NodeList
  <2> QED BY <2>1, <1>1
<1>3. IsSum(DelaySums(q), q, Len(q))
  BY DelaySumsProperties
<1>4. /\ DelaySums(q)[1] = q[1].delay
      /\ \A j \in 1 .. Len(q) : DelaySums(q)[j] \in Int
  BY <1>1, <1>2, <1>3 DEF IsSum
<1>5. \A j \in 1 .. Len(q) : 1 \in 0 .. Len(q) /\ j \in 1 .. Len(q)
  BY <1>1, <1>2
<1>6. \A j \in 1 .. Len(q) : DelaySums(q)[1] <= DelaySums(q)[j]
  BY <1>5, SumMonotone
<1>7. \A j \in 1 .. Len(q) : DelayIn(q, q[j].pid) = DelaySums(q)[j]
  BY <1>1, DelayAtNode
<1>8. CASE q[1].delay >= 1
  <2>1. ASSUME NEW p \in P, DelayIn(q, p) = 0 PROVE FALSE
    <3>1. p \in PidsOf(q)
      BY <2>1 DEF DelayIn
    <3>2. PICK j \in 1 .. Len(q) : q[j].pid = p
      BY <3>1, <1>1 DEF PidsOf
    <3>3. DelaySums(q)[j] = 0
      BY <3>2, <2>1, <1>7
    <3>4. DelaySums(q)[j] >= DelaySums(q)[1]
      BY <1>6, <1>4, <1>2
    <3> QED BY <3>3, <3>4, <1>8, <1>1, <1>2, <1>4
  <2> QED BY <2>1, <1>8 DEF Taken
<1>9. CASE ~(q[1].delay >= 1)
  <2>1. q[1].delay = 0
    BY <1>9, <1>1, <1>2
  <2>2. DelayIn(q, q[1].pid) = 0 /\ q[1].pid \in P
    BY <2>1, <1>1, <1>2, <1>4, <1>7
  <2> QED BY <2>2, <1>9 DEF Taken
<1> QED BY <1>8, <1>9

LEMMA TickDelays ==
    ASSUME NEW P, NEW q \in NodeList(P), Distinct(q), NonNegative(q), NEW p \in P
    PROVE  DelayIn(Tick(q), p) =
               IF p \in Due(q) THEN -1
               ELSE IF p \notin PidsOf(q) THEN -1 ELSE DelayIn(q, p) - Taken(q)
<1> DEFINE n == Cardinality(Expired(Decrement(q)))
<1> DEFINE t == Tick(q)
<1>1. /\ n \in 0 .. Len(q) /\ DOMAIN t = 1 .. Len(q) - n
      /\ \A j \in 1 .. Len(q) - n : t[j] = Decrement(q)[j + n]
      /\ \A j \in 1 .. Len(q) : Decrement(q)[j].pid = q[j].pid
      /\ Due(q) = {q[j].pid : j \in 1 .. n}
  BY TickNodes
<1>2. Distinct(t) /\ PidsOf(t) \cap Due(q) = {} /\ PidsOf(q) = PidsOf(t) \cup Due(q)
  BY TickDistinct, TickProperties
<1>3. Len(q) \in Nat /\ DOMAIN q = 1 .. Len(q)
  BY NodeListProperties
<1>4. \A j \in 1 .. Len(q) - n : DelaySums(t)[j] = DelaySums(Decrement(q))[j + n]
  BY TickSums
<1>5. \A j \in 1 .. Len(q) : DelaySums(Decrement(q))[j] = DelaySums(q)[j] - Taken(q)
  BY DecrementSums
<1> HIDE DEF n, t
<1>6. CASE p \in Due(q) \/ p \notin PidsOf(q)
  <2>1. p \notin PidsOf(t)
    BY <1>2, <1>6
  <2>2. DelayIn(t, p) = -1
    BY <2>1 DEF DelayIn
  <2> QED BY <2>2, <1>6 DEF t
<1>7. CASE p \notin Due(q) /\ p \in PidsOf(q)
  <2>1. PICK j \in 1 .. Len(q) : q[j].pid = p
    BY <1>3, <1>7 DEF PidsOf
  <2>2. ~(j \in 1 .. n)
    BY <2>1, <1>1, <1>7
  <2>3. j - n \in 1 .. Len(q) - n /\ (j - n) + n = j
    BY <2>2, <1>1, <1>3
  <2>4. t[j - n].pid = p /\ j - n \in DOMAIN t
    BY <2>1, <2>3, <1>1
  <2>5. DelayIn(t, p) = DelaySums(t)[j - n]
    BY <2>4, <1>2, DelayAtNode
  <2>6. DelaySums(t)[j - n] = DelaySums(q)[j] - Taken(q)
    BY <2>3, <1>4, <1>5
  <2>7. DelayIn(q, p) = DelaySums(q)[j]
    BY <2>1, <1>3, DelayAtNode
  <2> QED BY <2>5, <2>6, <2>7, <1>7 DEF t
<1> QED BY <1>6, <1>7

\* The processes wakeup() finds due are those whose delay is what it takes off.
LEMMA DueDelays ==
    ASSUME NEW P, NEW q \in NodeList(P), Distinct(q), NonNegative(q), NEW p \in P
    PROVE  p \in Due(q) <=> p \in PidsOf(q) /\ DelayIn(q, p) = Taken(q)
<1> DEFINE n == Cardinality(Expired(Decrement(q)))
<1> DEFINE f == DelaySums(q)
<1>1. n \in 0 .. Len(q) /\ Due(q) = {q[j].pid : j \in 1 .. n}
  BY TickNodes
<1>2. Len(q) \in Nat /\ DOMAIN q = 1 .. Len(q)
  BY NodeListProperties
<1>3. /\ \A j \in 1 .. n : DelaySums(Decrement(q))[j] = 0
      /\ \A j \in n + 1 .. Len(q) : DelaySums(Decrement(q))[j] > 0
  BY TickSums
<1>4. \A j \in 1 .. Len(q) : DelaySums(Decrement(q))[j] = f[j] - Taken(q)
  BY DecrementSums
<1>5. \A j \in 1 .. Len(q) : DelayIn(q, q[j].pid) = f[j]
  BY <1>2, DelayAtNode
<1>6. \A j \in 1 .. Len(q) : f[j] \in Int
  <2>1. IsSum(f, q, Len(q))
    BY DelaySumsProperties
  <2> HIDE DEF f
  <2> QED BY <2>1, <1>2 DEF IsSum
<1>7. Taken(q) \in Int
  BY DEF Taken
<1> HIDE DEF n, f
<1>8. ASSUME NEW j \in 1 .. Len(q), q[j].pid = p
      PROVE  DelayIn(q, p) = Taken(q) <=> j <= n
  <2>1. DelayIn(q, p) = f[j] /\ f[j] \in Int
    BY <1>5, <1>6, <1>8
  <2>2. CASE j <= n
    <3>1. j \in 1 .. n
      BY <2>2, <1>1, <1>2
    <3>2. f[j] - Taken(q) = 0
      BY <3>1, <1>3, <1>4
    <3> QED BY <3>2, <2>1, <2>2, <1>7
  <2>3. CASE ~(j <= n)
    <3>1. j \in n + 1 .. Len(q)
      BY <2>3, <1>1, <1>2
    <3>2. f[j] - Taken(q) > 0
      BY <3>1, <1>3, <1>4
    <3> QED BY <3>2, <2>1, <2>3, <1>7
  <2> QED BY <2>2, <2>3
<1>9. ASSUME p \in Due(q) PROVE p \in PidsOf(q) /\ DelayIn(q, p) = Taken(q)
  <2>1. PICK j \in 1 .. n : q[j].pid = p
    BY <1>1, <1>9
  <2>2. j \in 1 .. Len(q) /\ j <= n
    BY <1>1, <1>2
  <2> QED BY <2>1, <2>2, <1>2, <1>8 DEF PidsOf
<1>10. ASSUME p \in PidsOf(q), DelayIn(q, p) = Taken(q) PROVE p \in Due(q)
  <2>1. PICK j \in 1 .. Len(q) : q[j].pid = p
    BY <1>2, <1>10 DEF PidsOf
  <2>2. j \in 1 .. n
    BY <2>1, <1>1, <1>2, <1>8, <1>10
  <2> QED BY <2>1, <2>2, <1>1
<1> QED BY <1>9, <1>10

\* A sleeper's delay is never that of a process that is awake.
LEMMA DelayNonNegative ==
    ASSUME NEW P, NEW q \in NodeList(P), Distinct(q), NonNegative(q), NEW p \in P
    PROVE  DelayIn(q, p) \in Int /\ (p \in PidsOf(q) => DelayIn(q, p) >= 0)
<1>1. Len(q) \in Nat /\ DOMAIN q = 1 .. Len(q)
  BY NodeListProperties
<1>2. CASE p \in PidsOf(q)
  <2>1. PICK j \in 1 .. Len(q) : q[j].pid = p
    BY <1>1, <1>2 DEF PidsOf
  <2>2. DelayIn(q, p) = DelaySums(q)[j]
    BY <2>1, <1>1, DelayAtNode
  <2>3. IsSum(DelaySums(q), q, Len(q))
    BY DelaySumsProperties
  <2>4. DelaySums(q)[0] = 0 /\ DelaySums(q)[j] \in Int
    BY <2>3, <1>1 DEF IsSum
  <2>5. 0 \in 0 .. Len(q) /\ j \in 0 .. Len(q)
    BY <1>1
  <2>6. DelaySums(q)[0] <= DelaySums(q)[j]
    BY <2>5, SumMonotone
  <2> QED BY <2>2, <2>4, <2>6
<1>3. CASE p \notin PidsOf(q)
  BY <1>3 DEF DelayIn
<1> QED BY <1>2, <1>3

-----------------------------------------------------------------------------
(***************************************************************************)
(* The invariant and the refinement.                                       *)
(***************************************************************************)

LEMMA SleepInvInit == SleepInit => ListInv
<1> SUFFICES ASSUME SleepInit PROVE ListInv
  OBVIOUS
<1>1. list = << >>
  BY DEF SleepInit
<1>2. list \in NodeList(Sleepers)
  BY <1>1 DEF NodeList
<1>3. Distinct(list) /\ NonNegative(list)
  BY <1>1 DEF Distinct, NonNegative
<1> QED BY <1>2, <1>3 DEF ListInv

LEMMA SleepInvStep == ListInv /\ [SleepNext]_sleepVars => ListInv'
<1> SUFFICES ASSUME ListInv, [SleepNext]_sleepVars PROVE ListInv'
  OBVIOUS
<1>0. list \in NodeList(Sleepers) /\ Distinct(list) /\ NonNegative(list)
  BY DEF ListInv
<1>1. ASSUME NEW p \in Sleepers, NEW delay \in SleepDelays, GoToSleep(p, delay) PROVE ListInv'
  <2>1. delay \in Nat /\ delay \in Int
    BY SleepDelaysAreNaturals
  <2>2. p \notin PidsOf(list) /\ list' = Insert(list, p, delay)
    BY <1>1 DEF GoToSleep
  <2>3. Insert(list, p, delay) \in NodeList(Sleepers)
    BY <1>0, <2>1, InsertProperties
  <2>4. Distinct(Insert(list, p, delay))
    BY <1>0, <2>1, <2>2, InsertDistinct
  <2>5. NonNegative(Insert(list, p, delay))
    BY <1>0, <2>1, InsertNonNegative
  <2> QED BY <2>2, <2>3, <2>4, <2>5 DEF ListInv
<1>2. CASE Wakeup
  <2>1. list' = Tick(list)
    BY <1>2 DEF Wakeup
  <2>2. Tick(list) \in NodeList(Sleepers) /\ Distinct(Tick(list)) /\ NonNegative(Tick(list))
    BY <1>0, TickProperties, TickDistinct, TickNonNegative
  <2> QED BY <2>1, <2>2 DEF ListInv
<1>3. CASE UNCHANGED sleepVars
  BY <1>0, <1>3 DEF ListInv, sleepVars
<1> QED BY <1>1, <1>2, <1>3 DEF SleepNext

\* What sleep() and wakeup() keep of the list: a node for each sleeper at most
\* once, and no relative delay that has underflowed.
THEOREM SleepInvariant == SleepSpec => []ListInv
<1> QED BY SleepInvInit, SleepInvStep, PTL DEF SleepSpec

\* The refinement mapping is the absolute delay in the list.
LEMMA MappedDelay ==
    /\ \A p \in Sleepers : AbsoluteDelay(p) = DelayIn(list, p)
    /\ \A p \in Sleepers : AbsoluteDelay(p)' = DelayIn(list', p)
<1> QED BY DEF AbsoluteDelay, DelayIn

LEMMA TimersStart == SleepInit => Timer!TimersInit
<1> SUFFICES ASSUME SleepInit PROVE Timer!TimersInit
  OBVIOUS
<1>1. \A p \in Sleepers : AbsoluteDelay(p) = -1
  BY DEF SleepInit, AbsoluteDelay, PidsOf
<1> QED BY <1>1 DEF Timer!TimersInit, Timer!Awake

\* sleep() sets the timer of the caller and leaves the others alone.
LEMMA SleepSetsTimer ==
    ASSUME ListInv, NEW p \in Sleepers, NEW delay \in SleepDelays, GoToSleep(p, delay)
    PROVE  Timer!Set(p, delay)
<1>1. delay \in Int /\ list \in NodeList(Sleepers) /\ Distinct(list)
  BY SleepDelaysAreNaturals DEF ListInv
<1>2. p \notin PidsOf(list) /\ list' = Insert(list, p, delay)
  BY DEF GoToSleep
<1>3. AbsoluteDelay(p) = -1
  BY <1>2 DEF AbsoluteDelay
<1>4. ASSUME NEW r \in Sleepers
      PROVE  AbsoluteDelay(r)' = IF r = p THEN delay ELSE AbsoluteDelay(r)
  <2>1. DelayIn(Insert(list, p, delay), r) = IF r = p THEN delay ELSE DelayIn(list, r)
    BY <1>1, <1>2, InsertDelays
  <2> QED BY <2>1, <1>2, MappedDelay
<1> DEFINE L == [r \in Sleepers |-> AbsoluteDelay(r)]
<1>5. L[p] = -1
  BY <1>3
<1>6. [r \in Sleepers |-> AbsoluteDelay(r)'] = [L EXCEPT ![p] = delay]
  BY <1>4
<1> QED BY <1>5, <1>6 DEF Timer!Set, Timer!Awake

\* wakeup() is one tick of every timer.
LEMMA WakeupElapses ==
    ASSUME ListInv, Wakeup
    PROVE  Timer!Elapse
<1> DEFINE L == [r \in Sleepers |-> AbsoluteDelay(r)]
<1> DEFINE Zero == \E r \in Sleepers : L[r] = 0
<1>1. list \in NodeList(Sleepers) /\ Distinct(list) /\ NonNegative(list)
  BY DEF ListInv
<1>2. list' = Tick(list)
  BY DEF Wakeup
<1>3. \A r \in Sleepers : L[r] = DelayIn(list, r)
  BY MappedDelay
<1>4. list # << >> => Taken(list) = IF Zero THEN 0 ELSE 1
  BY <1>1, <1>3, TakenUnlessZero
<1>5. ASSUME NEW p \in Sleepers
      PROVE  AbsoluteDelay(p)' =
                 IF L[p] = (IF Zero THEN 0 ELSE 1) THEN -1
                 ELSE IF L[p] = -1 \/ Zero THEN L[p]
                 ELSE L[p] - 1
  <2>1. AbsoluteDelay(p)' = DelayIn(Tick(list), p)
    BY <1>2, MappedDelay
  <2>2. DelayIn(Tick(list), p) =
            IF p \in Due(list) THEN -1
            ELSE IF p \notin PidsOf(list) THEN -1 ELSE DelayIn(list, p) - Taken(list)
    BY <1>1, TickDelays
  <2>3. p \in Due(list) <=> p \in PidsOf(list) /\ DelayIn(list, p) = Taken(list)
    BY <1>1, DueDelays
  <2>4. L[p] = DelayIn(list, p) /\ L[p] \in Int /\ (p \in PidsOf(list) => L[p] >= 0)
    BY <1>1, <1>3, DelayNonNegative
  <2>5. p \notin PidsOf(list) => L[p] = -1
    BY <2>4 DEF DelayIn
  <2>6. p \in PidsOf(list) => list # << >>
    BY DEF PidsOf
  <2> HIDE DEF L, Zero
  <2>7. CASE p \notin PidsOf(list)
    BY <2>1, <2>2, <2>5, <2>7
  <2>8. CASE p \in PidsOf(list)
    <3>1. Taken(list) = IF Zero THEN 0 ELSE 1
      BY <2>6, <2>8, <1>4
    <3> QED BY <3>1, <2>1, <2>2, <2>3, <2>4, <2>8
  <2> QED BY <2>7, <2>8
<1>6. \A p \in Sleepers : p \in Timer!Ringing <=> L[p] = (IF Zero THEN 0 ELSE 1)
  BY DEF Timer!Ringing
<1>7. [p \in Sleepers |-> AbsoluteDelay(p)'] =
          [p \in Sleepers |-> IF p \in Timer!Ringing THEN -1
                              ELSE IF L[p] = -1 \/ Zero THEN L[p] ELSE L[p] - 1]
  <2> HIDE DEF L, Zero
  <2> QED BY <1>5, <1>6
<1> QED BY <1>7 DEF Timer!Elapse, Timer!Awake

\* The delta list of sleep() and wakeup() implements one timer per process, for
\* any sleepers and any delays: no insertion changes the absolute delay of
\* another sleeper, each tick counts for all of them (for none, while it serves
\* a sleep(0)), and a process is removed exactly when its time has come.
THEOREM ListImplementsTimers == SleepSpec => ImplementsTimers
<1>1. ListInv /\ [SleepNext]_sleepVars => [Timer!TimersNext]_[p \in Sleepers |-> AbsoluteDelay(p)]
  <2> SUFFICES ASSUME ListInv, [SleepNext]_sleepVars PROVE [Timer!TimersNext]_[p \in Sleepers |-> AbsoluteDelay(p)]
    OBVIOUS
  <2>1. ASSUME NEW p \in Sleepers, NEW delay \in SleepDelays, GoToSleep(p, delay)
        PROVE  Timer!TimersNext
    BY <2>1, SleepSetsTimer DEF Timer!TimersNext
  <2>2. CASE Wakeup
    BY <2>2, WakeupElapses DEF Timer!TimersNext
  <2>3. CASE UNCHANGED sleepVars
    <3>1. \A r \in Sleepers : AbsoluteDelay(r)' = AbsoluteDelay(r)
      BY <2>3, MappedDelay DEF sleepVars
    <3> QED BY <3>1
  <2> QED BY <2>1, <2>2, <2>3 DEF SleepNext
<1> QED BY <1>1, TimersStart, SleepInvariant, PTL DEF SleepSpec, ImplementsTimers, Timer!TimersSpec
=============================================================================
