------------------------------ MODULE VirtioGpu -----------------------------
(***************************************************************************)
(* The GPU driver (src/arch/riscv64/virtio/virtio_gpu.rs), the Mutex the   *)
(* window system locks around it, the device, its interrupt, and the       *)
(* scheduling by priority that decides who runs meanwhile.                 *)
(*                                                                         *)
(* kproc has the highest priority, user processes and fs_proc the middle   *)
(* one, the null process the lowest.  Every request blocks the process     *)
(* that ran init_display(), which is kproc, whoever makes the request.     *)
(*                                                                         *)
(* Requests are made with interrupts on, so send_desc() is one action for  *)
(* each effect.  pending() readies kproc and is then left on the stack of  *)
(* the process it interrupted: the PLIC delivers no further interrupt of   *)
(* the GPU before that process has run again.  Ring indices are those of   *)
(* VirtioBlk and are left out: the rings are queues.                       *)
(***************************************************************************)
EXTENDS Integers, Sequences, FiniteSets, FiniteSetsExt

CONSTANTS
    Users,      \* the processes of the middle priority
    Kproc,      \* kproc, of the highest
    Null,       \* the null process
    Nobody,     \* no process
    RingSize,   \* VIRTIO_RING_SIZE
    MaxSema     \* counts of the semaphore above it are not told apart

ASSUME ProcsAssumption ==
    /\ Cardinality({Kproc, Null, Nobody}) = 3
    /\ {Kproc, Null, Nobody} \cap Users = {}
ASSUME SizesAssumption == RingSize \in Nat /\ RingSize >= 3 /\ MaxSema \in Nat \ {0}

VARIABLES
    running,      \* the process on the hart
    state,        \* "Running", "Ready", "IOWait", "EventWait" or "Sleep"
    pc,           \* position of each process
    todo,         \* the requests its call has still to make, the current one first
    chain,        \* the descriptors of its current request
    owner,        \* holder of the Mutex around the driver
    sema,         \* the driver's semaphore: its count
    free_desc,    \* VirtioGpu.free_desc, as a set
    desc_indexes, \* VirtioGpu.desc_indexes, as a set
    table,        \* the request each descriptor at the head of a chain leads to
    live,         \* the requests that are allocated on the heap
    avail,        \* the available ring: heads of chains
    used,         \* the used ring, from ack_used_index on: heads of chains
    answered,     \* the requests whose response is written
    kicked,       \* the device: QueueNotify was written
    irq,          \* the device: the interrupt line
    handling,     \* whose stack the rest of pending() is on, or Nobody
    events,       \* the queue of the mouse is not empty
    waiting,      \* kproc is in the process manager's queue for mouse events
    shared        \* history: a user process has locked the display

sched   == <<running, state>>
calls   == <<todo, chain, owner, shared>>
driver  == <<sema, free_desc, desc_indexes, table, live>>
device  == <<avail, used, answered, kicked, irq>>
mouse   == <<events, waiting>>
gpuVars == <<sched, pc, calls, driver, device, handling, mouse>>

Procs == Users \cup {Kproc, Null}
Desc  == 0 .. RingSize - 1

Priority(p) == IF p = Kproc THEN 2 ELSE IF p = Null THEN 0 ELSE 1

\* The requests: the number of descriptors of their chain, and whether the caller
\* panics on a response that is not the expected one.  The panics of the last two
\* are commented out.
Req(cmd, descs, checked) == [cmd |-> cmd, descs |-> descs, checked |-> checked]

GetDisplayInfo        == Req("get_display_info", 2, TRUE)
ResourceCreate2d      == Req("resource_create_2d", 2, TRUE)
ResourceAttachBacking == Req("resource_attach_backing", 3, TRUE)
SetScanout            == Req("set_scanout", 2, TRUE)
TransferToHost2d      == Req("transfer_to_host_2d", 2, FALSE)
ResourceFlush         == Req("resource_flush", 2, FALSE)

\* The requests of init_display() and those of update_display().
InitOps  == <<GetDisplayInfo, ResourceCreate2d, ResourceAttachBacking, SetScanout>>
FlushOps == <<TransferToHost2d, ResourceFlush>>

\* The block of memory that process p has for its request and the response.
Request(p) == <<p, Head(todo[p]).cmd>>

NoRequest == <<Nobody, "none">>

GpuInit ==
    /\ running = Null
    /\ state = [p \in Procs |-> IF p = Null THEN "Running" ELSE "Ready"]
    /\ pc = [p \in Procs |-> IF p = Kproc THEN "boot" ELSE "idle"]
    /\ todo = [p \in Procs |-> << >>] /\ chain = [p \in Procs |-> {}]
    /\ owner = Nobody /\ sema = 1
    /\ free_desc = Desc /\ desc_indexes = {}
    /\ table = [d \in Desc |-> NoRequest] /\ live = {}
    /\ avail = << >> /\ used = << >> /\ answered = {} /\ kicked = FALSE /\ irq = FALSE
    /\ handling = Nobody /\ events = FALSE /\ waiting = FALSE
    /\ shared = FALSE

-----------------------------------------------------------------------------
(***************************************************************************)
(* What the driver uses of the process manager.                            *)
(***************************************************************************)

\* schedule(), called on the hart with states st: the most important Ready
\* process n takes over, unless the one on the hart is Running and more important.
Schedule(st) ==
    \E n \in {q \in Procs : st[q] = "Ready"} \cup {running} :
        /\ \A q \in Procs : st[q] = "Ready" => Priority(q) <= Priority(n)
        /\ n = running => st[n] \in {"Running", "Ready"}
        /\ st[running] = "Running" =>
               IF n = running THEN \A q \in Procs : st[q] = "Ready" => Priority(q) < Priority(n)
                              ELSE Priority(running) <= Priority(n)
        /\ running' = n
        /\ state' = [q \in Procs |->
                        IF q = n THEN "Running"
                        ELSE IF q = running /\ st[q] = "Running" THEN "Ready" ELSE st[q]]

\* ready(p): nothing for a process that is not blocked.
Readied(p) == IF state[p] \in {"Running", "Ready"} THEN state ELSE [state EXCEPT ![p] = "Ready"]

Ready(p) ==
    IF state[p] \in {"Running", "Ready"} THEN UNCHANGED sched ELSE Schedule(Readied(p))

\* The process on the hart is not in a handler: interrupts are on.
InterruptsOn == handling # running

\* Process p is on the hart, not interrupted, and at position l.
At(p, l) == running = p /\ handling # p /\ pc[p] = l

Goto(p, l) == pc' = [pc EXCEPT ![p] = l]

-----------------------------------------------------------------------------
(***************************************************************************)
(* Painting: Painter for Mutex<VirtioGpu>.                                 *)
(***************************************************************************)

\* The display and the layers exist: a user process that draws earlier panics.
Initialised == pc[Kproc] # "boot" /\ (todo[Kproc] # << >> => ~Head(todo[Kproc]).checked)

\* gpu.lock().init_display() up to its first request.
InitDisplay ==
    /\ At(Kproc, "boot")
    /\ owner = Nobody
    /\ owner' = Kproc
    /\ sema' = sema - 1
    /\ todo' = [todo EXCEPT ![Kproc] = InitOps]
    /\ Goto(Kproc, "alloc")
    /\ UNCHANGED <<sched, chain, shared, free_desc, desc_indexes, table, live, device, handling, mouse>>

\* A system call of a user process that draws a window.
SysSyncWindow(u) ==
    /\ At(u, "idle")
    /\ Initialised
    /\ Goto(u, "draw")
    /\ UNCHANGED <<sched, calls, driver, device, handling, mouse>>

\* draw_at() takes the lock for one pixel.
LockPixel(p) ==
    /\ At(p, "draw")
    /\ owner = Nobody
    /\ owner' = p
    /\ shared' = (shared \/ p # Kproc)
    /\ Goto(p, "pixel")
    /\ UNCHANGED <<sched, todo, chain, driver, device, handling, mouse>>

\* draw_at() ends: another pixel ("draw") or flush() is next.
DrawAt(p, next) ==
    /\ At(p, "pixel")
    /\ owner' = Nobody
    /\ Goto(p, next)
    /\ UNCHANGED <<sched, todo, chain, shared, driver, device, handling, mouse>>

\* flush() takes the lock for both requests of update_display().
Flush(p) ==
    /\ At(p, "flush")
    /\ owner = Nobody
    /\ owner' = p
    /\ todo' = [todo EXCEPT ![p] = FlushOps]
    /\ shared' = (shared \/ p # Kproc)
    /\ Goto(p, "alloc")
    /\ UNCHANGED <<sched, chain, driver, device, handling, mouse>>

-----------------------------------------------------------------------------
(***************************************************************************)
(* A request.                                                              *)
(***************************************************************************)

\* allocate_desc(n): find_free_desc() takes the lowest free one n times.
Lowest(n) == {d \in free_desc : Cardinality({e \in free_desc : e < d}) < n}

DescsNeeded(p) == Head(todo[p]).descs

\* Mutation of AllocDesc: the descriptors are not marked as taken.
AllocDesc_Unmarked(p) ==
    LET descs == Lowest(DescsNeeded(p))
    IN  /\ At(p, "alloc")
        /\ Cardinality(free_desc) >= DescsNeeded(p)
        /\ chain' = [chain EXCEPT ![p] = descs]
        /\ table' = [table EXCEPT ![Min(descs)] = Request(p)]
        /\ live' = live \cup {Request(p)}
        /\ answered' = answered \ {Request(p)}
        /\ Goto(p, "publish")
        /\ UNCHANGED <<sched, todo, owner, shared, sema, free_desc, desc_indexes, avail, used, kicked, irq, handling, mouse>>

\* Request::new(), allocate_desc() and write_desc(); find_free_desc() panics when
\* there are none left.
AllocDesc(p) ==
    LET descs == Lowest(DescsNeeded(p))
    IN  /\ At(p, "alloc")
        /\ Cardinality(free_desc) >= DescsNeeded(p)
        /\ chain' = [chain EXCEPT ![p] = descs]
        /\ free_desc' = free_desc \ descs
        /\ table' = [table EXCEPT ![Min(descs)] = Request(p)]
        /\ live' = live \cup {Request(p)}
        /\ answered' = answered \ {Request(p)}
        /\ Goto(p, "publish")
        /\ UNCHANGED <<sched, todo, owner, shared, sema, desc_indexes, avail, used, kicked, irq, handling, mouse>>

\* send_desc(): the head goes into the available ring.
Publish(p) ==
    /\ At(p, "publish")
    /\ avail' = Append(avail, Min(chain[p]))
    /\ Goto(p, "save")
    /\ UNCHANGED <<sched, calls, driver, used, answered, kicked, irq, handling, mouse>>

\* self.desc_indexes = Some(desc_indexes).
SaveIndexes(p) ==
    /\ At(p, "save")
    /\ desc_indexes' = chain[p]
    /\ Goto(p, "iowait")
    /\ UNCHANGED <<sched, calls, sema, free_desc, table, live, device, handling, mouse>>

\* Mutation of IoWait: nobody is blocked.
IoWait_Missing(p) ==
    /\ At(p, "iowait")
    /\ Goto(p, "notify")
    /\ UNCHANGED <<sched, calls, driver, device, handling, mouse>>

\* io_wait(self.pid): self.pid is kproc.
IoWait(p) ==
    /\ At(p, "iowait")
    /\ state' = [state EXCEPT ![Kproc] = "IOWait"]
    /\ Goto(p, "notify")
    /\ UNCHANGED <<running, calls, driver, device, handling, mouse>>

\* write_reg32(QueueNotify).
NotifyDevice(p) ==
    /\ At(p, "notify")
    /\ kicked' = TRUE
    /\ Goto(p, "call")
    /\ UNCHANGED <<sched, calls, driver, avail, used, answered, irq, handling, mouse>>

\* schedule() at the end of send_desc(): it keeps a user process on the hart.
CallSchedule(p) ==
    /\ At(p, "call")
    /\ Schedule(state)
    /\ Goto(p, "return")
    /\ UNCHANGED <<calls, driver, device, handling, mouse>>

\* The caller reads the response, and goes on to its next request.
Return(p) ==
    /\ At(p, "return")
    /\ Len(todo[p]) > 1
    /\ Head(todo[p]).checked => Request(p) \in answered
    /\ todo' = [todo EXCEPT ![p] = Tail(todo[p])]
    /\ chain' = [chain EXCEPT ![p] = {}]
    /\ Goto(p, "alloc")
    /\ UNCHANGED <<sched, owner, shared, driver, device, handling, mouse>>

Saturated(n) == IF n > MaxSema THEN MaxSema ELSE n

\* The last response; the lock is released, and after init_display() the semaphore.
ReturnLast(p) ==
    /\ At(p, "return")
    /\ Len(todo[p]) = 1
    /\ Head(todo[p]).checked => Request(p) \in answered
    /\ owner' = Nobody
    /\ sema' = IF Initialised THEN sema ELSE Saturated(sema + 1)
    /\ todo' = [todo EXCEPT ![p] = << >>]
    /\ chain' = [chain EXCEPT ![p] = {}]
    /\ Goto(p, IF ~Initialised THEN "draw" ELSE IF p = Kproc THEN "loop" ELSE "idle")
    /\ UNCHANGED <<sched, shared, free_desc, desc_indexes, table, live, device, handling, mouse>>

-----------------------------------------------------------------------------
(***************************************************************************)
(* The loop of kproc(), and what other processes do.                       *)
(***************************************************************************)

\* The queue of the mouse is tested; its events end with one that draws.
TestQueue ==
    /\ At(Kproc, "loop")
    /\ events' = FALSE
    /\ Goto(Kproc, IF events THEN "draw" ELSE "wait")
    /\ UNCHANGED <<sched, calls, driver, device, handling, waiting>>

\* event_wait(MouseEvent)
EventWait ==
    /\ At(Kproc, "wait")
    /\ waiting' = TRUE
    /\ Schedule([state EXCEPT ![Kproc] = "EventWait"])
    /\ Goto(Kproc, "loop")
    /\ UNCHANGED <<calls, driver, device, handling, events>>

\* A user process waits for the disk or sleeps.
Block(u) ==
    /\ At(u, "idle")
    /\ Schedule([state EXCEPT ![u] = "Sleep"])
    /\ UNCHANGED <<pc, calls, driver, device, handling, mouse>>

-----------------------------------------------------------------------------
(***************************************************************************)
(* The device (external) and the interrupts.                               *)
(***************************************************************************)

\* The device executes the next request, as the descriptors have it now.
Serve ==
    /\ kicked /\ avail # << >>
    /\ avail' = Tail(avail)
    /\ used' = Append(used, Head(avail))
    /\ answered' = answered \cup {table[Head(avail)]}
    /\ kicked' = (Tail(avail) # << >>)
    /\ irq' = TRUE
    /\ UNCHANGED <<sched, pc, calls, driver, handling, mouse>>

\* The requests that pending() frees.
Freed == {table[used[i]] : i \in DOMAIN used}

\* Mutation of Pending: the descriptors are not given back.
Pending_Leaks ==
    /\ irq /\ handling = Nobody
    /\ irq' = FALSE
    /\ used' = << >>
    /\ live' = live \ Freed
    /\ handling' = running
    /\ Ready(Kproc)
    /\ UNCHANGED <<pc, calls, sema, free_desc, desc_indexes, table, avail, answered, kicked, mouse>>

\* Mutation of Pending: kproc is not readied.
Pending_Silent ==
    /\ irq /\ handling = Nobody
    /\ irq' = FALSE
    /\ used' = << >>
    /\ live' = live \ Freed
    /\ free_desc' = free_desc \cup desc_indexes
    /\ handling' = running
    /\ UNCHANGED <<sched, pc, calls, sema, desc_indexes, table, avail, answered, kicked, mouse>>

\* The interrupt of the GPU, up to io_signal(self.pid) in pending().
Pending ==
    /\ irq /\ handling = Nobody
    /\ irq' = FALSE
    /\ used' = << >>
    /\ live' = live \ Freed
    /\ free_desc' = free_desc \cup desc_indexes
    /\ handling' = running
    /\ Ready(Kproc)
    /\ UNCHANGED <<pc, calls, sema, desc_indexes, table, avail, answered, kicked, mouse>>

\* The rest: signal_semaphore(), for which nobody waits, and plic::complete().
Complete ==
    /\ handling = running
    /\ handling' = Nobody
    /\ sema' = Saturated(sema + 1)
    /\ UNCHANGED <<sched, pc, calls, free_desc, desc_indexes, table, live, device, mouse>>

\* The interrupt of the mouse: event_signal() readies kproc if it is in the queue.
MouseInterrupt ==
    /\ InterruptsOn
    /\ Initialised
    /\ events' = TRUE
    /\ waiting' = FALSE
    /\ IF waiting THEN Ready(Kproc) ELSE UNCHANGED sched
    /\ UNCHANGED <<pc, calls, driver, device, handling>>

\* The tick: schedule().
Preempt ==
    /\ InterruptsOn
    /\ Schedule(state)
    /\ UNCHANGED <<pc, calls, driver, device, handling, mouse>>

\* The tick or the disk wakes a user process.
Wakeup(u) ==
    /\ InterruptsOn
    /\ state[u] = "Sleep"
    /\ Schedule(Readied(u))
    /\ UNCHANGED <<pc, calls, driver, device, handling, mouse>>

-----------------------------------------------------------------------------
Draw(p) ==
    \/ LockPixel(p) \/ DrawAt(p, "draw") \/ DrawAt(p, "flush") \/ Flush(p)
    \/ AllocDesc(p) \/ Publish(p) \/ SaveIndexes(p) \/ IoWait(p) \/ NotifyDevice(p)
    \/ CallSchedule(p) \/ Return(p) \/ ReturnLast(p)

KprocStep == InitDisplay \/ TestQueue \/ EventWait \/ Draw(Kproc)

GpuNext ==
    \/ KprocStep
    \/ \E u \in Users : SysSyncWindow(u) \/ Draw(u) \/ Block(u) \/ Wakeup(u)
    \/ Serve \/ Pending \/ Complete \/ MouseInterrupt \/ Preempt

GpuSpec == GpuInit /\ [][GpuNext]_gpuVars

-----------------------------------------------------------------------------
(***************************************************************************)
(* What the display relies on.  Until a user process draws, kproc is the   *)
(* only client and all of it holds; what remains of it afterwards is the   *)
(* subject of ResponseBeforeReturn.                                        *)
(***************************************************************************)

\* Until a user process draws, kproc never returns from send_desc() before the
\* device has answered: no interrupt of the mouse, no tick and no interrupt that
\* overtakes io_wait(), QueueNotify or schedule() lets it go on early.  The
\* requests of init_display() would panic, and width and height would be garbage.
KprocGetsResponses ==
    At(Kproc, "return") /\ ~shared => Request(Kproc) \in answered

\* send_desc() returns when there is a response, for every process: the comment
\* "send an request and wait for response" above its first call.
ResponseBeforeReturn ==
    \A p \in Procs : At(p, "return") => Request(p) \in answered

\* Until a user process draws, the descriptors that find_free_desc() passes over
\* are those of the one request whose memory pending() has not freed: none of a
\* request in flight is reused, and none is lost, so that it never panics.
DescriptorsExact ==
    ~shared => Desc \ free_desc =
        UNION {chain[p] : p \in {q \in Procs : todo[q] # << >> /\ Request(q) \in live}}

\* Until a user process draws, kproc is never blocked for a response that cannot come:
\* it has still to write QueueNotify, or the device has its request, or the interrupt
\* is raised; and the process whose stack an earlier pending() is on, which has to
\* complete that interrupt first, is not blocked itself.  (Whether kproc gets to the
\* write, and that process to the hart, is up to the scheduler.)
AnswerOnItsWay ==
    ~shared /\ state[Kproc] = "IOWait" =>
        /\ pc[Kproc] = "notify" \/ (kicked /\ avail # << >>) \/ irq
        /\ handling # Nobody => state[handling] \in {"Running", "Ready"}
=============================================================================
