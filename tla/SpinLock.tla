------------------------------ MODULE SpinLock ------------------------------
(***************************************************************************)
(* SpinLock (src/spinlock.rs) around the process table: a read-write lock  *)
(* that is passed by when the process on the hart also made the previous   *)
(* access.  Modelled with the calls that use the table:                    *)
(*                                                                         *)
(* - operations with interrupts off, which are one step: schedule(), the   *)
(*   calls that block, and the handlers of interrupts;                     *)
(* - sections with interrupts on, which a handler may come into and which  *)
(*   schedule() may switch away from; lock() and lock_mut() themselves are *)
(*   interrupted between the comparison with recent_pid, the inner lock    *)
(*   and the store to recent_pid.                                          *)
(*                                                                         *)
(* Which process schedule() switches to is left open.  A lock that is not  *)
(* free is spun for: with interrupts off that is the end, because no other *)
(* process gets the hart.                                                  *)
(***************************************************************************)
EXTENDS Integers, Sequences

CONSTANTS
    Users,   \* user processes, which make system calls
    FsProc,  \* fs_proc, which creates processes and loads their programs
    Others,  \* kproc and the null process: operations with interrupts off only
    Null     \* the null process, number 0

ASSUME LockProcsAssumption ==
    /\ Null \in Others
    /\ FsProc \notin Users \cup Others
    /\ Users \cap Others = {}

VARIABLES
    running,     \* ProcessManager.running
    recent_pid,  \* SpinLock.recent_pid
    todo,        \* sections of its call a process has not finished, the next one first
    at,          \* how far it is in the first of these
    real,        \* the section for which a process has the inner lock, or "none"
    frozen,      \* the hart spins with interrupts off
    earlier      \* history: who had gone past the lock when it was last taken for writing

lockVars == <<running, recent_pid, todo, at, real, frozen, earlier>>

Procs == Users \cup Others \cup {FsProc}

\* read    a table entry is read: sys_sleep(), sys_kill(), sys_fork()
\* update  lock_mut() in syscall_info(), get_arg_ptr(), sys_map_window(), setup_process(), ready()
\* create  create_process() and the setup_process() in it, which defers scheduling
\* load    load_program(): the lock is held over init_program(), which reads the disk
\* exec    user_trap_return() in sys_execve(), which does not return
Sections == {"read", "update", "create", "load", "exec"}

Kind(s) == IF s = "read" THEN "read" ELSE "write"

\* out    before lock() or lock_mut(), or after the guard is dropped
\* past   the process made the previous access, and goes past the inner lock
\* spin   it did not, and waits for the inner lock
\* taken  it has the inner lock and has not stored recent_pid
\* in     it has its guard
Places == {"out", "past", "spin", "taken", "in"}

\* The sections of each call.
FsCalls  == {<<"create", "create", "load", "update">>}
SysCalls == {<<"update">>, <<"update", "read">>, <<"update", "update">>, <<"update", "read", "update">>,
             <<"update", "update", "update", "load", "exec">>}
Calls(p) == IF p = FsProc THEN FsCalls ELSE SysCalls

LockInit ==
    /\ running = Null
    /\ recent_pid = Null
    /\ todo = [p \in Procs |-> << >>]
    /\ at = [p \in Procs |-> "out"]
    /\ real = [p \in Procs |-> "none"]
    /\ frozen = FALSE
    /\ earlier = {}

-----------------------------------------------------------------------------
(***************************************************************************)
(* lock() and lock_mut()                                                   *)
(***************************************************************************)

\* pm.running == self.recent_pid: the inner lock is not taken.
SameProcess == running = recent_pid

\* Mutation of Free: a reader does not wait for a writer.
Free_ForReaders(kind) == kind = "read" \/ \A p \in Procs : real[p] = "none"

\* The inner lock can be taken: by readers together, or by one writer.
Free(kind) == \A p \in Procs : real[p] # "none" => kind = "read" /\ Kind(real[p]) = "read"

Granted(kind) == SameProcess \/ Free(kind)

\* recent_pid after an access.
Recent == running

-----------------------------------------------------------------------------
(***************************************************************************)
(* Sections with interrupts on                                             *)
(***************************************************************************)

Goto(p, l) == at' = [at EXCEPT ![p] = l]

\* A call begins.
Call(p) ==
    /\ ~frozen /\ running = p
    /\ p \notin Others /\ todo[p] = << >>
    /\ \E c \in Calls(p) : todo' = [todo EXCEPT ![p] = c]
    /\ UNCHANGED <<running, recent_pid, at, real, frozen, earlier>>

\* The comparison of running with recent_pid.
Compare(p) ==
    /\ ~frozen /\ running = p
    /\ todo[p] # << >> /\ at[p] = "out"
    /\ Goto(p, IF SameProcess THEN "past" ELSE "spin")
    /\ UNCHANGED <<running, recent_pid, todo, real, frozen, earlier>>

\* The processes other than p that have gone past the inner lock and not finished.
PastLock(p) == {q \in Procs \ {p} : at[q] \in {"past", "in"}}

\* spin_lock.read() or spin_lock.write() gets the inner lock.
Acquire(p) ==
    LET s == Head(todo[p])
    IN  /\ ~frozen /\ running = p /\ at[p] = "spin"
        /\ Free(Kind(s))
        /\ real' = [real EXCEPT ![p] = s]
        /\ earlier' = IF Kind(s) = "write" THEN PastLock(p) ELSE earlier
        /\ Goto(p, "taken")
        /\ UNCHANGED <<running, recent_pid, todo, frozen>>

\* recent_pid is stored, and the caller has its guard.
Store(p) ==
    /\ ~frozen /\ running = p
    /\ at[p] \in {"past", "taken"}
    /\ recent_pid' = Recent
    /\ Goto(p, "in")
    /\ UNCHANGED <<running, todo, real, frozen, earlier>>

\* The guard is dropped, with the inner lock if it was taken for this section; the
\* guard of user_trap_return() never is.
Leave(p) ==
    /\ ~frozen /\ running = p /\ at[p] = "in"
    /\ Goto(p, "out")
    /\ todo' = [todo EXCEPT ![p] = Tail(todo[p])]
    /\ real' = IF real[p] = Head(todo[p]) /\ real[p] # "exec" THEN [real EXCEPT ![p] = "none"] ELSE real
    /\ UNCHANGED <<running, recent_pid, frozen, earlier>>

-----------------------------------------------------------------------------
(***************************************************************************)
(* Operations with interrupts off                                          *)
(***************************************************************************)

\* Mutation of MaySwitch: create_process() does not defer scheduling.
MaySwitch_Always == TRUE

\* schedule() is not deferred: create_process() is not between Start and Stop.
MaySwitch == ~(todo[running] # << >> /\ Head(todo[running]) = "create")

\* The table is accessed, first for kind, and schedule() ends with q on the hart.
\* All accesses after the first are by the same process.
Operation(kind, q) ==
    /\ ~frozen
    /\ Granted(kind)
    /\ q # running => MaySwitch
    /\ recent_pid' = Recent
    /\ running' = q
    /\ UNCHANGED <<todo, at, real, frozen, earlier>>

\* The tick, between two instructions of any process: schedule().
Tick == \E q \in Procs : Operation("read", q)

\* The interrupt of a device: ready() of the process it was for.
DeviceInterrupt == \E q \in Procs : Operation("write", q)

\* A process that waits for the disk in load_program(), or blocks between two calls.
Wait(p) ==
    /\ running = p
    /\ todo[p] = << >> \/ (at[p] = "in" /\ Head(todo[p]) = "load")
    /\ \E q \in Procs : Operation("write", q)

\* The first access of an operation finds the lock taken.
Spin(kind) ==
    /\ ~frozen
    /\ ~Granted(kind)
    /\ frozen' = TRUE
    /\ UNCHANGED <<running, recent_pid, todo, at, real, earlier>>

\* The hart spins on.
SpinOn == frozen /\ UNCHANGED lockVars

-----------------------------------------------------------------------------
LockNext ==
    \/ \E p \in Procs : Call(p) \/ Compare(p) \/ Acquire(p) \/ Store(p) \/ Leave(p) \/ Wait(p)
    \/ Tick \/ DeviceInterrupt
    \/ Spin("read") \/ Spin("write") \/ SpinOn

LockSpec == LockInit /\ [][LockNext]_lockVars

-----------------------------------------------------------------------------
(***************************************************************************)
(* Properties.                                                             *)
(***************************************************************************)

\* Process p has the inner lock for writing.
Writes(p) == real[p] # "none" /\ Kind(real[p]) = "write"

\* While a process has the inner lock for writing, nobody else has it, and only the
\* processes that had gone past the lock before it was taken are in the table or
\* were the last to access it: once such a process is preempted, the lock keeps it
\* out neither of its own section nor of the next ones.  All others it keeps out,
\* although every second access by one process goes past it.
RealWriteExcludes ==
    \A p \in Procs : Writes(p) =>
        /\ \A q \in Procs \ {p} : real[q] = "none" /\ (at[q] \in {"past", "in"} => q \in earlier)
        /\ recent_pid \in earlier \cup {p} \/ (p = running /\ at[p] = "taken")

\* When the hart spins for ever, a process was switched away from with the inner lock,
\* or has left sys_execve() with it; or it was interrupted between the inner lock and
\* the store to recent_pid; or another process was at the table since it took the
\* lock.  In create_process(), which is not switched away from, only the interrupt
\* before the store does it.
FreezeIsExplained ==
    frozen => \E p \in Procs :
        /\ real[p] # "none"
        /\ \/ p # running /\ real[p] # "create"
           \/ p = running /\ at[p] = "taken"
           \/ p = running /\ real[p] # "create" /\ recent_pid # p
=============================================================================
