----------------------------- MODULE VirtioBlk ------------------------------
(***************************************************************************)
(* The virtio block driver (src/arch/riscv64/virtio/virtio_blk.rs) and its *)
(* surroundings: the processes that read files, the spin lock around the   *)
(* file system under which every block_op() is made, the device with its   *)
(* two rings, and the interrupt, which the PLIC does not deliver again     *)
(* until the handler has completed it.                                     *)
(*                                                                         *)
(* block_op() runs with interrupts on, so it is one action for each effect *)
(* the handler or another process can come between.  pending() runs with   *)
(* interrupts off, but readies the waiting process and so calls schedule() *)
(* before it is through: handling is the process on whose stack the rest   *)
(* of the handler waits meanwhile.  Which process the scheduler picks is   *)
(* left open here; ProcessManager says what it does.                       *)
(***************************************************************************)
EXTENDS Integers, Sequences, FiniteSets, FiniteSetsExt

CONSTANTS
    Clients,        \* the processes that read files
    Null,           \* the null process, which never blocks
    Nobody,         \* no process
    RingSize,       \* VIRTIO_RING_SIZE
    IdxModulus,     \* 2^16: the ring indices are u16 and wrap
    MaxSema         \* bound on the count of the driver's semaphore

ASSUME ClientsAssumption == Null \notin Clients /\ Nobody \notin Clients \cup {Null}
ASSUME RingAssumption    == RingSize \in Nat /\ RingSize >= 3
ASSUME IdxAssumption     == IdxModulus \in Nat \ {0} /\ IdxModulus % RingSize = 0
ASSUME SemaAssumption    == MaxSema \in Nat

VARIABLES
    fs_owner,       \* holder of the Mutex around the file system
    pc,             \* position of each client in a file operation
    chain,          \* the descriptors block_op() allocated for each client
    result,         \* what became of each client's request
    state,          \* "Ready" (which includes running), "IOWait" or "SemaWait"
    running,        \* the process on the hart
    count,          \* the driver's semaphore: its count
    queue,          \* the driver's semaphore: the processes waiting
    pid,            \* VirtioBlk.pid
    free_desc,      \* VirtioBlk.free_desc, as a set
    desc_indexes,   \* VirtioBlk.desc_indexes, as a set
    ack_used_index, \* VirtioBlk.ack_used_index
    avail_idx,      \* the available ring: its index
    avail_ring,     \* the available ring: the head of each request
    used_idx,       \* the used ring: its index
    used_ring,      \* the used ring: the head of each completed request
    dev_idx,        \* the device: the next available index it will look at
    notified,       \* the device: QueueNotify was written
    irq,            \* the device: the interrupt line
    handling,       \* whose stack the interrupt handler is on, or Nobody
    phase           \* what is left of the handler: "signal" or "complete"

client    == <<fs_owner, chain, result>>
sched     == <<state, running>>
semaphore == <<count, queue>>
driver    == <<pid, free_desc, desc_indexes, ack_used_index>>
availRing == <<avail_idx, avail_ring>>
dev       == <<used_idx, used_ring, dev_idx, notified, irq>>
handler   == <<handling, phase>>
blkVars   == <<client, pc, sched, semaphore, driver, availRing, dev, handler>>

Procs == Clients \cup {Null}
Desc  == 0 .. RingSize - 1

\* The driver after new() and init(), which leave the semaphore free.
BlkInit ==
    /\ fs_owner = Nobody
    /\ pc = [p \in Clients |-> "idle"]
    /\ chain = [p \in Clients |-> {}]
    /\ result = [p \in Clients |-> "none"]
    /\ state = [p \in Procs |-> "Ready"]
    /\ running = Null
    /\ count = 1 /\ queue = << >>
    /\ pid = Null
    /\ free_desc = Desc /\ desc_indexes = {}
    /\ ack_used_index = 0 /\ avail_idx = 0 /\ used_idx = 0 /\ dev_idx = 0
    /\ avail_ring = [i \in Desc |-> 0] /\ used_ring = [i \in Desc |-> 0]
    /\ notified = FALSE /\ irq = FALSE
    /\ handling = Nobody /\ phase = "signal"

-----------------------------------------------------------------------------
(***************************************************************************)
(* What the driver uses of the process manager, and its helpers.           *)
(***************************************************************************)

\* The processes schedule() can pick when the states are s.
Runnable(s) == {p \in Procs : s[p] = "Ready"}

\* Client p is on the hart, not interrupted, and at position l.
At(p, l) == running = p /\ handling # p /\ pc[p] = l

Goto(p, l) == pc' = [pc EXCEPT ![p] = l]

\* ready(p): nothing for a process that is not blocked.
StatesAfterReady(p) == [state EXCEPT ![p] = "Ready"]

\* Mutation of WrappingAdd: the index wraps one too early.
WrappingAdd_TooEarly(i) == (i + 1) % (IdxModulus - 1)

\* u16::wrapping_add(1) on a ring index of the driver.
WrappingAdd(i) == (i + 1) % IdxModulus

\* allocate_desc(n): find_free_desc() takes the lowest free one n times.
Lowest(n) == {d \in free_desc : Cardinality({e \in free_desc : e < d}) < n}

-----------------------------------------------------------------------------
(***************************************************************************)
(* File operations: the lock, any number of block_op() calls, the unlock.  *)
(***************************************************************************)

\* Mutation of Lock: the file system is entered without its lock.
Lock_Ignored(p) ==
    /\ At(p, "idle")
    /\ fs_owner' = p
    /\ Goto(p, "locked")
    /\ UNCHANGED <<chain, result, sched, semaphore, driver, availRing, dev, handler>>

\* file_system().lock() in sys_open(), sys_read() and load_exe().
Lock(p) ==
    /\ At(p, "idle")
    /\ fs_owner = Nobody
    /\ fs_owner' = p
    /\ Goto(p, "locked")
    /\ UNCHANGED <<chain, result, sched, semaphore, driver, availRing, dev, handler>>

\* The guard is dropped.
Unlock(p) ==
    /\ At(p, "locked")
    /\ fs_owner' = Nobody
    /\ Goto(p, "idle")
    /\ UNCHANGED <<chain, result, sched, semaphore, driver, availRing, dev, handler>>

\* wait_semaphore(sid) at the head of block_op().
WaitSema(p) ==
    /\ At(p, "locked")
    /\ count < MaxSema
    /\ count' = count - 1
    /\ queue' = IF count' < 0 THEN Append(queue, p) ELSE queue
    /\ state' = IF count' < 0 THEN [state EXCEPT ![p] = "SemaWait"] ELSE state
    /\ running' \in IF count' < 0 THEN Runnable(state') ELSE {running}
    /\ Goto(p, "pid")
    /\ UNCHANGED <<client, driver, availRing, dev, handler>>

\* self.pid = pm.running.
SetPid(p) ==
    /\ At(p, "pid")
    /\ pid' = p
    /\ Goto(p, "alloc")
    /\ UNCHANGED <<client, sched, semaphore, free_desc, desc_indexes, ack_used_index,
                   availRing, dev, handler>>

\* Mutation of AllocDesc: the descriptors are not marked as taken.
AllocDesc_Unmarked(p) ==
    /\ At(p, "alloc")
    /\ Cardinality(free_desc) >= 3
    /\ chain' = [chain EXCEPT ![p] = Lowest(3)]
    /\ Goto(p, "release")
    /\ UNCHANGED <<fs_owner, result, sched, semaphore, driver, availRing, dev, handler>>

\* allocate_desc(3) and the writing of the three descriptors; find_free_desc()
\* panics when there are none left.
AllocDesc(p) ==
    /\ At(p, "alloc")
    /\ Cardinality(free_desc) >= 3
    /\ chain' = [chain EXCEPT ![p] = Lowest(3)]
    /\ free_desc' = free_desc \ Lowest(3)
    /\ Goto(p, "release")
    /\ UNCHANGED <<fs_owner, result, sched, semaphore, pid, desc_indexes, ack_used_index,
                   availRing, dev, handler>>

\* signal_semaphore(sid), by the client or by the handler: the states change if
\* a process waits, and the ready() call then schedules.
SignalSema ==
    /\ count' = count + 1
    /\ queue' = IF count < 0 THEN Tail(queue) ELSE queue
    /\ state' = IF count < 0 THEN StatesAfterReady(Head(queue)) ELSE state
    /\ running' \in IF count < 0 THEN Runnable(state') ELSE {running}

\* Mutation of Release: the semaphore is kept.
Release_Kept(p) ==
    /\ At(p, "release")
    /\ Goto(p, "publish")
    /\ UNCHANGED <<client, sched, semaphore, driver, availRing, dev, handler>>

\* block_op() releases the semaphore before the request is even published.
Release(p) ==
    /\ At(p, "release")
    /\ SignalSema
    /\ Goto(p, "publish")
    /\ UNCHANGED <<client, driver, availRing, dev, handler>>

\* The head of the chain goes into the available ring, then the index moves.
Publish(p) ==
    /\ At(p, "publish")
    /\ avail_ring' = [avail_ring EXCEPT ![avail_idx % RingSize] = Min(chain[p])]
    /\ avail_idx' = WrappingAdd(avail_idx)
    /\ result' = [result EXCEPT ![p] = "pending"]
    /\ Goto(p, "save")
    /\ UNCHANGED <<fs_owner, chain, sched, semaphore, driver, dev, handler>>

\* self.desc_indexes = Some(desc_indexes).
SaveIndexes(p) ==
    /\ At(p, "save")
    /\ desc_indexes' = chain[p]
    /\ Goto(p, "iowait")
    /\ UNCHANGED <<client, sched, semaphore, pid, free_desc, ack_used_index, availRing, dev, handler>>

\* Mutation of IoWait: the caller does not block.
IoWait_Missing(p) ==
    /\ At(p, "iowait")
    /\ Goto(p, "notify")
    /\ UNCHANGED <<client, sched, semaphore, driver, availRing, dev, handler>>

\* io_wait(self.pid): whoever self.pid names now.
IoWait(p) ==
    /\ At(p, "iowait")
    /\ state' = [state EXCEPT ![pid] = "IOWait"]
    /\ Goto(p, "notify")
    /\ UNCHANGED <<client, running, semaphore, driver, availRing, dev, handler>>

\* write_reg32(QueueNotify).
NotifyDevice(p) ==
    /\ At(p, "notify")
    /\ notified' = TRUE
    /\ Goto(p, "call")
    /\ UNCHANGED <<client, sched, semaphore, driver, availRing, used_idx, used_ring, dev_idx, irq, handler>>

\* schedule() at the end of block_op(): a process in IOWait leaves the hart.
CallSchedule(p) ==
    /\ At(p, "call")
    /\ running' \in Runnable(state)
    /\ Goto(p, "return")
    /\ UNCHANGED <<client, state, semaphore, driver, availRing, dev, handler>>

\* block_op() returns and its caller reads the buffer.
Return(p) ==
    /\ At(p, "return")
    /\ result' = [result EXCEPT ![p] = "none"]
    /\ chain' = [chain EXCEPT ![p] = {}]
    /\ Goto(p, "locked")
    /\ UNCHANGED <<fs_owner, sched, semaphore, driver, availRing, dev, handler>>

-----------------------------------------------------------------------------
(***************************************************************************)
(* The device and the interrupt.                                           *)
(***************************************************************************)

\* The device serves the next available request.
Serve ==
    /\ notified
    /\ dev_idx # avail_idx
    /\ dev_idx' = (dev_idx + 1) % IdxModulus
    /\ used_ring' = [used_ring EXCEPT ![used_idx % RingSize] = avail_ring[dev_idx % RingSize]]
    /\ used_idx' = (used_idx + 1) % IdxModulus
    /\ notified' = ((dev_idx + 1) % IdxModulus # avail_idx)
    /\ result' = [p \in Clients |->
                    IF result[p] = "pending" /\ Min(chain[p]) = avail_ring[dev_idx % RingSize]
                    THEN "done" ELSE result[p]]
    /\ irq' = TRUE
    /\ UNCHANGED <<fs_owner, chain, pc, sched, semaphore, driver, availRing, handler>>

\* Mutation of Pending: the descriptors are not given back.
Pending_Leaks ==
    /\ irq /\ handling = Nobody
    /\ irq' = FALSE
    /\ ack_used_index' = used_idx
    /\ state' = StatesAfterReady(pid)
    /\ running' \in IF state[pid] = "Ready" THEN {running} ELSE Runnable(state')
    /\ handling' = running
    /\ phase' = "signal"
    /\ UNCHANGED <<client, pc, semaphore, pid, free_desc, desc_indexes, availRing,
                   used_idx, used_ring, dev_idx, notified>>

\* The interrupt, up to io_signal(self.pid) in pending(): the used ring is
\* acknowledged, the saved descriptors are freed, and the waiting process is
\* readied, which may take the hart away from the handler.
Pending ==
    /\ irq /\ handling = Nobody
    /\ irq' = FALSE
    /\ ack_used_index' = used_idx
    /\ free_desc' = free_desc \cup desc_indexes
    /\ state' = StatesAfterReady(pid)
    /\ running' \in IF state[pid] = "Ready" THEN {running} ELSE Runnable(state')
    /\ handling' = running
    /\ phase' = "signal"
    /\ UNCHANGED <<client, pc, semaphore, pid, desc_indexes, availRing,
                   used_idx, used_ring, dev_idx, notified>>

\* The rest of pending(): signal_semaphore(sid) once more.
HandlerSignal ==
    /\ running = handling
    /\ phase = "signal"
    /\ SignalSema
    /\ phase' = "complete"
    /\ UNCHANGED <<client, pc, driver, availRing, dev, handling>>

\* plic::complete(): the next interrupt can be delivered.
Complete ==
    /\ running = handling
    /\ phase = "complete"
    /\ handling' = Nobody
    /\ phase' = "signal"
    /\ UNCHANGED <<client, pc, sched, semaphore, driver, availRing, dev>>

\* The timer takes the hart from a process that is not in the handler.
Preempt ==
    /\ running # handling
    /\ running' \in Runnable(state) \ {running}
    /\ UNCHANGED <<client, pc, state, semaphore, driver, availRing, dev, handler>>

BlockOp(p) ==
    \/ WaitSema(p) \/ SetPid(p) \/ AllocDesc(p) \/ Release(p) \/ Publish(p) \/ SaveIndexes(p)
    \/ IoWait(p) \/ NotifyDevice(p) \/ CallSchedule(p) \/ Return(p)

BlkNext ==
    \/ \E p \in Clients : Lock(p) \/ Unlock(p) \/ BlockOp(p)
    \/ Serve \/ Pending \/ HandlerSignal \/ Complete \/ Preempt

BlkSpec == BlkInit /\ [][BlkNext]_blkVars

-----------------------------------------------------------------------------
\* p is in block_op(), between reading pm.running and its return.
InDriver(p) == pc[p] \in {"alloc", "release", "publish", "save", "iowait", "notify", "call"}

\* The driver's one pid and one desc_indexes are enough: while a process is in
\* block_op(), nobody else overwrites the pid that io_wait() and io_signal() use.
OneOperationInDriver == \A p \in Clients : InDriver(p) => pid = p

\* block_op() returns only when the device has served the request: no interrupt,
\* semaphore or preemption lets the caller read its buffer early.
DataBeforeReturn ==
    \A p \in Clients : pc[p] = "return" /\ state[p] = "Ready" => result[p] = "done"

\* The descriptors of a request in flight are not free for another request.
InFlightNotFree ==
    \A p \in Clients : result[p] = "pending" => chain[p] # {} /\ chain[p] \cap free_desc = {}

\* find_free_desc() never panics: pending() gives back what block_op() took, also
\* when the next block_op() starts while the handler is still suspended.
DescriptorsSuffice == \A p \in Clients : pc[p] = "alloc" => Cardinality(free_desc) >= 3

\* When no request is under way the driver has acknowledged all the device did and
\* the device has seen all the driver offered, across the wrap of the indices.
RingsDrained ==
    (\A p \in Clients : pc[p] \in {"idle", "locked"}) =>
        ack_used_index = used_idx /\ dev_idx = avail_idx /\ ~irq

\* The lock around the file system does all the waiting: nobody ever waits for
\* the driver's semaphore, even when the handler is suspended before its signal.
SemaphoreUncontended == queue = << >>
=============================================================================
