# Verification of citron

Citron is a small operating system in Rust for one RISC-V hart: preemptive
kernel and user processes, virtio drivers for a disk, a GPU, a mouse and a
keyboard, a read-only FAT32 file system and a window system. This directory
holds TLA+ models of its core, TLC configurations that check them on small
instances, and TLAPS proofs for every value of the constants.

`PROJECT.json` maps every definition to the source lines it stands for, and
lists the runs, the mutations that show each property can fail, the hazards of
the code, the findings and the theorems.

## 1. The system

| Part | State it keeps | Operations | What makes it correct |
|---|---|---|---|
| process manager (`src/process.rs`) | `ptable`, `pqueue` (ready heap), `stable` (semaphores), `sleep_queue`, `event_queue`, `defer`, `running`, `curr_pid`, `curr_sid` | `create_process`, `ready`, `schedule`, `defer_schedule`, semaphores, `sleep`, `wakeup`, `kill`, `io_wait`, `io_signal`, `event_wait`, `event_signal`, `wait_exit` | table, heap, queues and hart agree; nobody is lost, revived or woken out of turn |
| kernel processes (`src/kmain.rs`) | none of their own | `kmain` (becomes the null process), `fs_proc`, `kproc` | the null process never blocks |
| trap entry (`arch/riscv64/process.rs`, `trap.rs`, `interrupt.rs`) | interrupt mask, saved contexts | timer interrupt: `wakeup`, `schedule`; external interrupt: claim, driver, complete | handlers leave the deferral as they found it |
| block driver (`virtio_blk.rs`) | descriptors, two rings, one `pid`, one `desc_indexes`, a semaphore | `block_op`, `pending` | data before return, no descriptor shared or leaked |
| GPU driver (`virtio_gpu.rs`) | the same, the pid of the display process, a heap block for each request; a Mutex around it | `init_display`, `update_display`, `pending` | response before return, no descriptor shared or lost, nobody waits for an answer that cannot come |
| input driver (`virtio_input.rs`) | event ring, queue of events | `pending`, `init_input_event` | no event without a wake-up |
| spin lock (`spinlock.rs`) | a read-write lock and the pid of the last user | `lock`, `lock_mut` | whom a writer keeps out, and when the hart spins for ever |
| file system (`fs.rs`, `fs/fat.rs`) | open files, FAT cursor | `open_file`, `read`, `seek` | offsets and cluster chains |
| paging, loader (`paging.rs`, `loader.rs`) | page tables | `map`, `unmap`, `virt_to_phys`, `load_exe` | what is mapped is found again |
| graphics (`graphics.rs`) | layers, windows, z order | layer and window operations | the order of layers and ids |

How they interact: user processes enter by system calls, which call the
process manager, the file system or the window system directly. Drivers block
the caller with `io_wait` and are resumed by an interrupt, whose handler calls
`io_signal` and `signal_semaphore` or `event_signal`. A handler reaches the
driver through `get_mut()`, past the Mutex that processes use. `schedule()`
called inside a handler may change stacks, so the rest of the handler runs
whenever the interrupted process is next on the hart.

What is hard: there is one hart, but interrupts may come between any two
instructions of the operations that run with interrupts on (`create_process`,
`ready`, `defer_schedule`, `block_op`, `send_desc`), and a switch may come out
of any `schedule()` call, nested in handlers included.

## 2. The modules

| Module | Models | Proofs |
|---|---|---|
| `DeltaList` | the list operations of `sleep()` and `wakeup()`, pure operators | `DeltaListProofs` |
| `Timers` | abstract: one timer for each process | |
| `SleepQueue` | the sleep list as a machine of its own, refines `Timers` | `ProcessManagerProofs` |
| `ProcessManager` | the whole of `src/process.rs` and the code that calls it | `ProcessManagerProofs` |
| `VirtioBlk` | block driver, its clients, the device, the PLIC's gate | `StorageProofs` |
| `Fat32` | mounting, path lookup and cluster chains of `fs/fat.rs` | `StorageProofs` |
| `FileSystem` | `fs.rs` over `Fat32`, its system calls, the file side of `load_exe` | `StorageProofs` |
| `PageTable` | page tables and the memory of processes, from `create_process` to `kill` | `PageTableProofs` |
| `VirtioGpu` | GPU driver, the Mutex around it, the device, the PLIC's gate, scheduling by priority | `VirtioGpuProofs` |
| `SpinLock` | the lock of the process table and the calls that use it | `SpinLockProofs` |
| `VirtioInput` | the mouse driver, its device and the loop of `kproc` | `VirtioInputProofs` |
| `Layers` | layers, windows, repainting and the mouse events of `kproc` | `LayersProofs` |
| `MCProcessManager`, `MCSleepQueue`, `MCVirtioBlk`, `MCVirtioGpu`, `MCSpinLock`, `MCFileSystem`, `MCPageTable`, `MCVirtioInput`, `MCLayers` | instances for TLC | |

Operators named `X_Suffix`, commented "Mutation of X", are plausible wrong
versions of `X`. No specification uses them; each property is shown to fail
when one of them takes the place of `X`.

### ProcessManager

The variables are the fields of `ProcessManager` and of the process table:
`pqueue[p]` counts the heap entries of `p` (entries go stale, so there may be
several), `sem[s]` is a semaphore, `sleep_queue` the delta list. Three
variables make up the machine state: `running`, `resched[p]`, the number of
`schedule()` calls still to be made on the stack of `p` with interrupts off,
and `pc[p]`, the position of `p` in an operation that runs with interrupts on.
`requested` and `gpu_pid` are what the drivers keep.

An operation that disables interrupts is one action up to the `schedule()`
calls in it; each `schedule()` call is an action. So `TimerInterrupt` runs
`wakeup()` and leaves one, two or three calls pending on the stack it
interrupted: the one of `defer_schedule(Stop)` if it ended a deferral in which
somebody was readied, the one at the end of `wakeup()` if the list was not
empty, and the handler's own. `ready()`, `create_process()`,
`defer_schedule(Stop)` and the drivers' `io_wait`, notify, `schedule` are split
into one action for each effect that an interrupt can separate.

`Remaining(n)` is the set of heaps that `pop_ready_proc()` may leave when it
returns `n`: `ProcessDesc` compares priorities only, so which of several equal
entries comes out first is left open.

Restrictions taken from the code: only the null process opens a deferral of
its own (`kmain`), before any other process exists; the null process never
blocks; the display process waits only for events and its own requests after
`init_display`; no process has children, since nothing fills `children`, so
`wait_exit` waits for nothing. `sys_fork` readies pid 0, on which `ready()`
returns at once. The semaphores taken and released at boot with interrupts off
are part of the initial state.

### SleepQueue and Timers

`SleepQueue` runs `Insert` and `Tick` of `DeltaList` for more sleepers than
`ProcessManager` can be checked with. The refinement maps each process to the
sum of the relative delays up to its node. `Timers` states what the code
really promises: a delay of `d > 0` ends on the `d`-th tick, except that a tick
which serves a `sleep(0)` is not counted for anybody else. So a process that
asks for `sleep(0)` again and again may take every tick, and the others sleep
on: `SleepersWake` says that this is the only way to sleep for ever.

### VirtioBlk

One action for each effect of `block_op()`. `pending()` is split at its
`io_signal`, where the handler may be suspended; the PLIC delivers no further
disk interrupt until `Complete`. Scheduling is an arbitrary choice among the
processes that are not blocked, which includes every choice of the real
scheduler. All clients call `block_op()` under the Mutex around the file
system (`syscall.rs`, `loader.rs`); `fat::init` runs before there is a second
client. The device serves requests in order and never fails one (the driver
panics if it does). The heap block of a request is not modelled.

### VirtioGpu

Every request is the same sequence: a heap block, descriptors, the available
ring, `desc_indexes`, `io_wait(self.pid)`, `QueueNotify`, `schedule()`, the
response; one action for each effect, since interrupts are on. `todo[p]` is
what is left of the requests of `init_display()` or `update_display()`, a
record for each with the length of its chain and whether the caller panics on
a wrong response. `Schedule` is `schedule()` with the three priorities of the
system, so that who runs while `kproc` waits, and when the interrupted process
gets to `plic::complete`, are what they really are. `Pending` is the handler
up to `io_signal`, `Complete` the rest of it, on the stack of the process that
was interrupted (`handling`). Drawing takes the Mutex pixel by pixel
(`LockPixel`, `DrawAt`); how many pixels there are is left open.

What the code does beside the properties: `pending()` signals the semaphore
once for each interrupt, so its count grows (it is capped, `MaxSema`); it frees
the request with the length of its first descriptor alone, and the caller
reads the response after that; it is the interrupted process that completes
the interrupt, and if that was the null process, a busy process of the middle
priority keeps the next interrupt from being delivered. A user process that
draws before `graphics::init()` panics, which is a guard (`Initialised`). As
soon as a user process draws, three things break: it does not wait for its own
requests but makes `kproc` wait (finding `display_response`), descriptors are
freed under requests in flight or lost, and `kproc` spins for ever when it
preempts the holder of the Mutex. `KprocGetsResponses`, `DescriptorsExact` and
`AnswerOnItsWay` are therefore about the time before that, and say so (`shared`).
`AnswerOnItsWay` says that no answer is lost, not that it comes: `kproc` may be
switched away from before it writes `QueueNotify` (finding `lost_notify`), and
the process that has to complete an interrupt may never get the hart.

### SpinLock

`lock()` and `lock_mut()` go past the inner lock when the process on the hart
also made the previous access (`recent_pid`). What uses the process table is
split in two kinds. With interrupts off it is one step (`Operation`): the first
access decides whether it spins, all later ones are by the same process. With
interrupts on it is a section: the lookups of system calls, `setup_process`,
`ready`, `create_process` under its deferral, `load_program`, which waits for
the disk with the guard in hand, and the last lookup of `sys_execve`, whose
guard is never dropped because `user_trap_return` does not return. Interrupts
are on in the lock itself too, so a section is entered in three steps: the
comparison with `recent_pid` (`Compare`, line 89), the inner lock if it is
needed (`Acquire`, lines 94 to 99) and the store to `recent_pid` (`Store`, line
101); `Leave` drops the guard. A handler, and a switch to any other process, may
come between any two. Which process `schedule()` picks is left open, which
includes every choice of the real one. The locks of the heap, the sleep list and
the semaphores follow the same pattern and are not modelled apart.

What the lock really gives is little. A process that has gone past the inner
lock, or has only decided to, and is then preempted, is not kept out by a writer
that takes the lock meanwhile, neither from its section nor from the sections it
goes on to. `earlier` is the history of these processes; `RealWriteExcludes` says that
all others are kept out. A section that itself went past the lock is not
protected at all. `FreezeIsExplained` lists how the hart comes to spin for ever:
the holder was switched away from, or somebody else has accessed the table since
it took the lock, or an interrupt came between the inner lock and the store. The
last freezes even `create_process()`, which is never switched away from.

### Fat32 and FileSystem

A disk is a function from sectors to offsets to what is stored there; the
sizes of sectors and entries and the widths of integers are parameters. Every
iteration of `find_file()` and `read_at()` reads the disk and is an action,
so the process may be switched away from between any two; `job` is the request
that holds the Mutex. `load_exe` takes the Mutex three times and is three
actions, with calls of others between them. A release build is modelled:
arithmetic wraps, so the read of an empty file (first cluster 0) returns a
sector before the clusters. The properties compare with a description of the
disk (`dirs`, `data`) that the code never looks at. `VolumeAssumption` says
which disks are meant and how the description is stored on them: one sector in
a cluster, allocation tables before the clusters, chains that end at an end or
bad mark and have less than 2^32 bytes, and directories with the pieces of a
long name before each entry and an end mark if there is room. Any of the files
may have been deleted: its entries stay with their mark, and its clusters are
free or another file's. TLC evaluates it on every disk of the run.

`find_file()` computes the mark of deleted entries (`_is_unused`, `fat.rs:247`)
and does not look at it. So a deleted file is found by its long name, and before
a file of the same name that comes later in the directory. By its short name it
is not found, since the mark takes the place of the first byte of that name.
`LookupExact` states the search as the code makes it, deleted entries included.
A read of a deleted file follows whatever is in the allocation table now; what
it returns is left out of `ReadsFileBytes`, `StreamInOrder` and
`LoadsWholeFile`.

What the code does and the properties leave out: `read_at` does not look at
the size, so a read may return the unused end of the last cluster; pieces of
a long name are compared one by one and never joined, so a long name of more
than one piece is found by its short name only; a volume must have one sector
in a cluster (the directory buffer has 512 bytes); offsets are cut to 32 bits;
`read_at` does not free its buffer when the chain ends first; an `open_file`
that fails has used up a descriptor. The inputs are paths that go through
directories only, whose names are not among several pieces of a long name and
do not start with the mark of deleted entries (`PathAssumption`). A descriptor
is a small integer and the table is shared by all processes, so a program may
read or seek with any descriptor that is open, that of a `load_exe()` under way
included; the history variable `touched` has these, and `LoadsWholeFile` is
about loads whose descriptor nobody else has used. A load of a missing file or of one that is not
an ELF image is a panic, as in the code (`init_program` unwraps).

### PageTable

Pages of a heap, tables as functions from indices to entries, and for each
process the fields of `ArchProcess` that own memory. `space` and `lost` are
history: what each address should lead to, and what is allocated and
forgotten. Three things are lost: the trap frame that `Process::new()`
allocates before `setup_process()` replaces it, the whole `ArchProcess` in
`sys_execve()` (the `free()` is commented out), and the file buffer of
`load_exe()`. `NothingLeaks` says that these are all. A call is one step:
allocations of two processes never share a page, whatever the order. The
allocator is taken to return the first pages that fit. When none do, it returns
a null pointer, which no caller looks at: `full` marks a heap after that, and
the actions exclude it, as nothing the code does then is meant. `map_range` rounds the
virtual address down without counting its offset in the page, so a segment
that does not start at a page is placed at the start of its page;
`TranslationExact` is about pages as `map_range` lays them out.

Segments and the frame buffers of windows start at a page but are allocated with
their length in bytes (`loader.rs:69`, `graphics.rs:447`) from a first-fit heap,
while `map_range` maps all of their last page to the user. The model gives that
page to the segment or window. `MemoryPrivate` is about the blocks that start at
a page; small blocks of the kernel's heap, which may lie in the rest of such a
page and are then mapped too, are not in the model.

### VirtioInput

The driver posts half as many buffers as there are descriptors; for each event
it takes the next descriptor in turn and points it at the buffer numbered like
the descriptor that was used. `pending()` is split where the buffer has been
given back and the event not yet read, since the device works on meanwhile,
and at its end, where `event_signal` may switch to `kproc` and leave
`plic::complete` to the interrupted process. `kproc` is the most important
process and leaves the hart only when it waits for an event or the display.
Events are numbered modulo `Events`, which is more than can be on their way,
so a lost, doubled or reordered event shows.

Two races are excepted from `EventsInOrder`, by the history variable `raced`:
an interrupt inside the loop of `init_input_event()`, which posts through the
same `event_index`, and a device that fills all its buffers (64 in the code)
between two instructions of the handler. `pop_front` and the handler's
`push_back` are each one step; an interrupt inside `pop_front` is a data race
on the `VecDeque` that is not modelled. `kproc` may go to wait with events in
its queue, when the interrupt comes after `is_empty()`; `EventsHandled` says
that the next event ends this, and nothing else does.

### Layers

A pixel is the layer it came from, with a bit for the contents of a window.
`Update` is `LayerManager::update()`: the layers below in the rectangle where
the layer was last drawn, then the layer and all above it. The events of the
mouse are actions of their own, and calls of user processes come between
them. `ScreenExact` has one exception that the code really has, an image of
the cursor whose place nobody recorded and that stays until something is drawn
over it. `draw_all()` at boot leaves one; so does `update()` of a window
between a move of the cursor and its `EV_SYN`, which draws the cursor where it
has moved to, and if it moves on before `EV_SYN`, only the place recorded
earlier is repainted. `trail` is the history of such pixels. The second case
came to light in the search for an invariant that is inductive: with one move
between two `EV_SYN` it cannot happen. `WindowsStayVisible` and
`PressHitsVisible` have another: `is_overlapping` is strict, so a press on the
left or upper edge meets no layer and leaves `pressed_id` of an earlier press,
and the release then moves that window. One call is one step, although the
layer manager has no lock; that interleaving is in the plan.

## 3. The runs

| Run | Instance | Shows |
|---|---|---|
| `waiters` | null, a process and the display process, a semaphore, delays 1 and 2, one event, I/O | `OneRunning`, `ReadyIsQueued`, `BlockedNeverRuns`, `SemaphoreQueueMatchesCount`, `DelaysNeverUnderflow`, `WaitersMatchQueues`, `SchedulerInv` (the inductive invariant, with the types), `EventQueuesExact`, `IOWaitIsAnswered`, `HighestPriorityRuns`, `DeadStaysDead` |
| `fair` | null and two processes that sleep, delays 0, 1 and 2, under fairness | `NotStarvedFromBelow`, `SleepersWake` |
| `lost_notify` | null and one process, under fairness | violated: `RequestsAreSent` |
| `sleep_list` | four sleepers, delays 0, 1, 2, 3, 5 | `ImplementsTimers` |
| `block_driver` | two clients, 4 descriptors, indices modulo 8 | `OneOperationInDriver`, `DataBeforeReturn`, `InFlightNotFree`, `DescriptorsSuffice`, `RingsDrained`, `SemaphoreUncontended` |
| `volumes` | one client and one open file on disks laid out in every order, with long names and deleted files, and on two bad ones; two clients on one more | `LookupExact`, `ReadsFileBytes`, `StreamInOrder`, `LoadsWholeFile`, `CallsReturn` |
| `page_tables` | two processes, three levels of two entries, one program, one window | `TranslationExact`, `MemoryPrivate`, `NothingLeaks`, `NoMappingToFreed` |
| `mouse_events` | 4 descriptors, indices modulo 8, under fairness | `EventsInOrder`, `EventsHandled` |
| `display` | `kproc`, one user process, null, 4 descriptors | `KprocGetsResponses`, `DescriptorsExact`, `AnswerOnItsWay` |
| `display_response` | the same | violated: `ResponseBeforeReturn` |
| `spin_lock` | two user processes, `fs_proc`, null | `RealWriteExcludes`, `FreezeIsExplained` |
| `layers` | a display of 3 by 2, two windows, a press and a release, two moves between `EV_SYN` | `StackSound`, `ScreenExact`, `WindowsStayVisible`, `PressHitsVisible` |

Bounds. Two processes of either priority and the null process give every role
(the one on the hart, the one readied, the one passed over). Two blocking
processes are enough for a queue of two and for a waiter and a signaller;
longer sleep lists are in `sleep_list`, longer semaphore queues in the proof.
`MaxCount` caps semaphore counts, `MaxEntries` the stale heap entries of the
display process, `MaxSema` the count of the block driver's semaphore, which
the code lets grow with every operation; 11 lets the ring indices wrap.
In `volumes` chains of up to three clusters lie in every order, so that a
table, a directory and a file all cross sectors, and a long name and its entry
lie on both sides of a boundary; `MaxFd` bounds the number of opens. `Bounded`
keeps the interleavings of two clients to one disk, one length of buffers and
positions near the files, and the many disks to one client. In
`page_tables` two entries in a table make every path branch at every level;
`MaxLost` allows one `sys_execve` at any time, and `MaxPage` is large enough
that no action waits for memory before all have happened. In
`mouse_events` `MaxQueue` bounds the events not yet handled, with room for one
more when `kproc` waits. In `layers` `MaxClicks` allows one drag or raise at any time, `MaxRel` two moves
between two `EV_SYN`, enough to leave an image of the cursor behind; windows
are 2 by 2 with a title bar of one row, so they overlap and a drag takes them
over the edge; `InTurn` fixes the order of the two places. The proofs are for
every display and any number of windows, clicks and moves. In `display` there is
one user process, which can keep the hart, hold the Mutex and be interrupted;
with two the run takes too long, and the proofs are for any number. A ring of 4 is one more than the longest chain, so a descriptor that
is lost is missed at once. In `spin_lock` two users and `fs_proc` make a holder, a
last user of the table and a third that wants it; the proof is for any number.
Deadlock is checked in every run except
`page_tables`, where all processes may have been killed.

Fairness. `FairSpec` assumes that a pending `schedule()` call is made (weak
fairness: interrupts are off), that a process which is on the hart again and
again inside an operation gets on with it (strong fairness for each process:
an interrupt does not come before every instruction), and that the timer
keeps ticking (strong fairness: a tick stays pending while interrupts are
off). The last holds once `kmain` has passed line 129. Nothing is assumed of
device interrupts, or of processes beginning an operation.
`FairInputSpec` assumes that a handler runs on, that the display answers, that
`kproc` gets on with its loop although interrupts come (strong fairness), and
that the mouse is used again and again: without the last a lost wake-up is
never made good. The other runs
assume no fairness. `CallsReturn` has its premise in the formula: if steps of
calls are taken again and again, calls return. That they are taken is not claimed,
since a caller may lose its notify (finding `lost_notify`) or the hart.

## 4. Findings

`lost_notify`: `send_desc` (`virtio_gpu.rs:462`) and `block_op`
(`virtio_blk.rs:292`) put the caller in `IOWait` and then write `QueueNotify`,
with interrupts on. An interrupt between the two takes the hart from a process
that is not `Running`: it is not queued again, the device is never notified,
and the process waits for ever. The comment at `virtio_gpu.rs:508` promises
"send an request and wait for response". Disabling interrupts from `io_wait`
to `schedule`, or notifying first, would mend it; `IOWaitIsAnswered` shows that
an early completion would not be lost.

`display_response`: every GPU request blocks `self.pid`, the process that ran
`init_display()` (`virtio_gpu.rs:381`), which is `kproc`. A user process that
draws stays `Running` through `io_wait` and `schedule()` and reads the response
before it is there; the same comment promises that it waits. The two panics
that would show it (lines 736 and 786) are commented out.

No run of its own, but worth knowing: the comment at `virtio_blk.rs:233` says
that the block driver's semaphore is taken "until disk operation end", but it
is released at line 282, before the request is published, and signalled again
by `pending()`. It never makes anyone wait (`SemaphoreUncontended`), and its
count grows by one with every operation. The Mutex around the file system is
what `OneOperationInDriver` rests on: without it (mutation `Lock_Ignored`) one
process's `io_wait` blocks another and the wrong descriptors are freed.

## 5. The proofs

`DeltaListProofs`: lemmas about the list operators for lists of every length.
The induction theorems of the library take an operator as parameter, which
the backends cannot instantiate; `LeastNatural` and `SetInduction` restate
induction for sets, starting from the well-foundedness of `<`. From them
`SumExists` and `DelaySumsProperties` give the meaning of the recursive prefix
sums, `CursorStops` says between which two nodes the loop of `sleep()` stops,
and `InsertNonNegative` and `TickNonNegative` that no subtraction underflows.

`ProcessManagerProofs`: `SchedulerInvariant` proves `Spec => []SchedulerInv`
from the named assumptions on the constants alone. `SchedulerInv` is the
conjunction of the type invariant, `TableMatchesPids`, `OneRunning`,
`BlockedNeverRuns`, `ReadyIsQueued`, `NullSchedulable`, `DeferralOwned`,
`SemaphoreQueueMatchesCount` and three strengthenings. None of the parts is
inductive alone. A switch keeps `OneRunning` only if the process that leaves
is the one that was `Running`; a schedule() call with an empty heap keeps
`BlockedNeverRuns` only because the null process is then the running one
(`NullSchedulable`); a blocked process leaves the hart only because it has no
deferral open (`DeferralOwned`, `DeferralKeepsRunning`); the pids a request
may block are alive (`DisplayAlive`), and the pid a creator will fill exists
(`CreateInBounds`). The proof has one lemma for each action or group of
actions with the same effect.

From it follow, each with a theorem of its own, the invariants above
(`OnlyOneRuns`, `BlockedProcessesStayOff`, `ReadyIsNeverLost`,
`NullIsSchedulable`, `DeferralsAreOwned`, `SemaphoreQueuesMatch`), the sleep
list's `SleepListSound`, and the action properties `MostImportantRuns` and
`KilledForGood`.

`WaitInvariant`, in the same module, adds who waits where: `WaitInv` is
`SchedulerInv` with `SemaphoreWaiters`, `SleepWaiters`, `EventWaiters` and
`IOWaiters`. Each says more than the property it gives (`WaitersMatchQueues`,
`EventQueuesExact`, `IOWaitIsAnswered`): that a signal takes one process from
its queue leaves the others matched only because nobody is queued twice, in one
queue or in two; `kill()`, which touches no queue, leaves them matched because
only the process on the hart is killed, and that one is in none; and an `IOWait` is answered only because a driver between
`io_wait` and the notification still has its request to make. The display
process is the exception in all of them: requests of others block it, whatever
it waits for.

`ListImplementsTimers`, in the same module, is the refinement `SleepSpec =>
ImplementsTimers` for any sleepers and any natural delays. The mapping takes
the running total up to a sleeper's node. `sleep()` puts a node between two
totals and corrects the next delay, so no other total changes; `wakeup()`
lowers the first delay, so all totals fall by one, or removes the nodes at
zero. The totals are recursive functions; what they are at each position is
proved by induction over sets of positions.

`SpinLockProofs`: `TableWritersExclude` and `FreezesAreExplained` for every set
of processes. `LockInv` is the conjunction of the types, `PlacesMatch` (who
is in the lock has a section to finish, and has the inner lock before the store),
`CreatorRuns` (the holder of the lock in `create_process()` is on the hart, because
scheduling is deferred) and both properties. Neither property is inductive
alone: that a process which goes past the lock is one of `earlier` needs that
`recent_pid` is, which is part of `RealWriteExcludes`; and that the hart spins on the
lock of `create_process()` only before the store needs `CreatorRuns`. There is
one lemma for each action.

`StorageProofs`, for `VirtioBlk`: the six invariants for any number of clients, any ring of at
least three descriptors and any index width that is a multiple of it. `BlkInv`
follows one operation: all clients but the holder of the file system's lock
are at rest, and the position of the holder says where its request is (not
made, published, at the device, answered, acknowledged). `CountPositive` says
that the semaphore is at least one outside the few lines that hold it, and
`HartSound` that only a driver between `io_wait` and `schedule()` is on the
hart and blocked: without it the device could answer a process that runs on.

`StorageProofs`, for `FileSystem`: `LookupExact`, `ReadsFileBytes`,
`StreamInOrder` and `LoadsWholeFile` for any number of callers, any sizes of
sectors and entries, any buffers and offsets and every set of disks and paths
that satisfies the two assumptions above. `ReadsFileBytes` and `StreamInOrder`
themselves leave out files without a cluster and offsets of more than 32 bits;
`LoadsWholeFile` holds for an empty file too, since its buffer has no bytes.
None of the four is inductive: each speaks of the end of a loop. `FsInv` is the
conjunction of `DiskOK` (the geometry is that of the disk), `TableOK` (an open
file has the size of the file its path names), `StreamOK`, `LoadOK` (each
`load_exe` has a descriptor of its own, still at offset 0 unless a program has
used it) and `JobOK`, which says where a request is. In `find_file()`, `Searched`
says that no file before the place reached has the name and that the place is
not between a piece of a long name that is the whole name and its entry;
`OutcomeOfIteration` shows that one iteration ends the search rightly or comes
to such a place, with the clusters of a directory changing under it. In
`read_at()`, `Passed` relates the number of clusters gone through, the clusters
still to skip, the byte in the cluster and the bytes copied to the offset asked
for; `ReadStepReads` keeps it. What a path leads to (`Walk`) and what is on a
chain are recursive or indexed by position; the lemmas about them go by
induction over sets of positions.

`VirtioGpuProofs`: `KprocGetsResponses`, `DescriptorsExact` and `AnswerOnItsWay`
for any number of user processes and any ring. All are claimed until a user process draws
(`shared`); until then `Alone` gives the position of `kproc`'s request in the
same way, and `WaitsForMouse` says that no mouse event makes `kproc` runnable
in the middle of a request. `AnswersAreOnTheirWay` adds `WaitsForDisplay`, where the
request of a `kproc` in `IOWait` is, and `HandlerRunnable`, that who has an
interrupt to complete is not blocked.

`VirtioInputProofs`: `EventsInOrder` for every even ring size, every index width
that is a multiple of it and any number of events. The ring indices wrap and
the descriptors drift from the buffers, so an invariant about the indices as
they are has no useful form. `InputInv` says instead that there are counters
that only grow (acknowledged, completed, posted and taken) of which the
indices are remainders, that outside `init_input_event()` exactly half a ring
is posted, and that the buffer of a posted descriptor is that of its counter
modulo half the ring: so the descriptor being reposted never takes a buffer
that is in use, and the event being read is overwritten only when the device
fills all its buffers, which is the race `raced` names. The lemmas about
remainders (`ModAdd`, `ModMod`, `ModApart`, `Slot`) come first.

`LayersProofs`: `StackSound`, `ScreenExact`, `WindowsStayVisible` and the action
property `PressHitsVisible`, for every display, any windows and any moves.
`LayersInv` says that the stack is a permutation of the layers between desktop
and cursor; that a window was last drawn where it is (so that the rectangle
`update()` repaints is the right one); that a held window is held right of and
below its corner; and that each pixel shows the topmost layer below the cursor
there, or the cursor, which is nowhere but where its place was recorded or on
the `trail`. A step that repaints is treated pixel by pixel: what `TransferAll`
leaves at a pixel is the last layer that covers it, by induction over the
layers drawn. `WindowsStayVisible` is proved for programs that create their
windows on the display (`Places \subseteq Display`, as in the run):
`sys_create_window` does not check it.

`PageTableProofs`: `TranslationExact`, `MemoryPrivate`, `NothingLeaks` and
`NoMappingToFreed` for trees of any depth and width and any processes, programs
and windows. Assumed of the constants: what a process is set up with lies at
four different pages, and nothing that is mapped is larger than the address
space. None of the four is inductive, since what `virt_to_phys` finds depends on
every table on the way. `PtInv` says that there are an owner for each table (its
tree, its level and the first page it stands for) and a space for each tree
such that: a valid entry of a table above the last level leads to a table of
the same tree, one level down, that stands for the pages of the entry; every
table but a root has exactly one entry that leads to it; an entry of the last
level holds what the space says; and every page in use is a table or belongs to
exactly one process, window or the lost pages. The trees of processes that
called `sys_execve()` stay: their tables are lost but never written to or
freed. `MapShape` shows what one `map()` does to such a heap, with the tables it
makes on the way (`Reached`); `MapRangeShape`, `SetupShape` and `LoadShape`
follow it through the loops; `TablesOfTree` shows that the levels that `unmap()`
goes through are exactly the tables of the tree; `VirtToPhysExact` that the walk
ends at the entry of the address. `Advance` and `Drop` bring the processes,
windows and lost pages along.

Only model-checked, and why. The liveness properties (`NotStarvedFromBelow`,
`SleepersWake`, `CallsReturn`, `EventsHandled`): fairness and
ENABLED are beyond the prover. Every invariant that a passing run checks is
the subject of a theorem.

## 6. Not modelled, and the plan

Not modelled: the heap allocator, serial output, device configuration and
feature negotiation, register save and restore, the boot code, linker scripts,
the aarch64 stub and the user programs. They keep no state that the
properties depend on. Within the parts that are modelled, code that nothing
calls is left out: the GPU's cursor queue and `update_range`,
`list_all_files_in_dir`, `Table::clone`, `setup_config`, the keyboard's queue.
Parsing an ELF image is a library.

The order among Ready processes of one priority is left open in
`ProcessManager`. The real `BinaryHeap` is not fair: replaying its sift rules,
up to four busy equals take turns, but of six some never run, so nothing
stronger than `NotStarvedFromBelow` could be claimed.

Plan, in this order:

1. `Layers` with `update()` split at its layers, so that `kproc` preempts a
   user process in the loop.
2. `VirtioBlk` under the priorities of `VirtioGpu`: who may spin on the Mutex
   of the file system.
