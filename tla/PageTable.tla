----------------------------- MODULE PageTable ------------------------------
(***************************************************************************)
(* Page tables (src/arch/riscv64/paging.rs) and the memory of processes:   *)
(* what a process allocates when it is set up (ArchProcess::new,           *)
(* setup_pagetable), loads a program (load_exe), maps a window             *)
(* (sys_map_window) or replaces itself (sys_execve), and what kill() gives *)
(* back (ArchProcess::free).                                               *)
(*                                                                         *)
(* Memory is a heap of pages.  A page that holds a table maps indices to   *)
(* entries; an entry is a page number with a set of flags.  Addresses are  *)
(* bytes, PageSize to a page; a table has TableLen entries and a tree      *)
(* LEVELS levels (4096, 512 and 3 in the code).                            *)
(***************************************************************************)
EXTENDS Integers, Sequences, FiniteSets, Functions

CONSTANTS
    Procs,           \* processes
    MaxPage,         \* the heap has the pages 1 .. MaxPage
    PageSize,        \* bytes in a page
    TableLen,        \* entries in a table
    LEVELS,          \* levels of a tree of tables
    TRAMPOLINE,      \* address of the code that enters and leaves the kernel
    TRAPFRAME,       \* address of the saved registers
    KILLME,          \* address a program returns to
    USER_STACK_START,\* the end of the user stack, which has one page
    KernelStack,     \* pages of a kernel stack
    Programs,        \* executable files: size, and address and length of each segment
    WindowSizes,     \* sizes of the frame buffers of windows
    WindowAddrs,     \* where programs map them
    MaxWindows,      \* bound on the number of windows
    MaxLost,         \* sys_execve() is called while at most so many pages are lost
    None             \* no address

ASSUME TableAssumption ==
    /\ PageSize \in Nat \ {0} /\ TableLen \in Nat \ {0, 1} /\ LEVELS \in Nat \ {0}
    /\ MaxPage \in Nat /\ KernelStack \in Nat \ {0}
    /\ None \notin Nat

VARIABLES
    used,     \* the allocated pages
    table,    \* the contents of the pages that hold tables
    proc,     \* the ArchProcess of each live process
    dead,     \* the processes that were killed; a pid is not used again
    windows,  \* the frame buffers of windows, as sequences of pages
    space,    \* history: what each address of a process should stand for
    lost      \* history: pages that are allocated and that nothing refers to

vars == <<used, table, proc, dead, windows, space, lost>>

Pages == 1 .. MaxPage

\* Pages of the kernel's own code, outside the heap.
TrampolineCode == MaxPage + 1
KillmeCode     == MaxPage + 2

\* The pages that an entry at level i stands for.
Span[i \in 0 .. LEVELS] == IF i = 0 THEN 1 ELSE TableLen * Span[i - 1]

AddressSpace == PageSize * Span[LEVELS]
VPages       == 0 .. Span[LEVELS] - 1

\* The page of an address: the bits of the address above the space are dropped.
PageOf(vaddr) == (vaddr \div PageSize) % Span[LEVELS]

\* What a process is set up with is at four different pages.
ASSUME AddressAssumption ==
    LET at == <<TRAMPOLINE, TRAPFRAME, KILLME, USER_STACK_START - PageSize>>
    IN  /\ \A i \in 1 .. 4 : at[i] \in Nat
        /\ \A i, j \in 1 .. 4 : i # j => PageOf(at[i]) # PageOf(at[j])

\* What is mapped is no larger than the address space.
ASSUME SizeAssumption ==
    /\ \A prog \in Programs :
        prog.size \in Nat /\ prog.segments \in Seq([start : Nat, size : 0 .. AddressSpace])
    /\ WindowSizes \subseteq 0 .. AddressSpace
    /\ WindowAddrs \subseteq Nat

-----------------------------------------------------------------------------
(***************************************************************************)
(* Entries.                                                                *)
(***************************************************************************)

Zero == [ppn |-> 0, flags |-> {}]

IsValid(e) == "V" \in e.flags
IsLeaf(e)  == e.flags \cap {"R", "W", "X"} # {}

EmptyTable == [i \in 0 .. TableLen - 1 |-> Zero]

\* The index of an address at level i.
Vpn(vaddr, i) == ((vaddr \div PageSize) \div Span[i]) % TableLen

-----------------------------------------------------------------------------
(***************************************************************************)
(* The heap: h has the fields used, table and full.  The allocator hands   *)
(* out the first pages that fit.  If there are none it returns a null      *)
(* pointer, here page 0, and the callers, which do not look, would go on   *)
(* with it: h.full says so, and the actions exclude it.                    *)
(***************************************************************************)

\* n adjacent pages.
Fits(h, first, n) == first .. first + n - 1 \subseteq Pages \ h.used

FirstFit(h, n) ==
    IF \E q \in Pages : Fits(h, q, n)
    THEN CHOOSE first \in Pages : Fits(h, first, n) /\ \A q \in 1 .. first - 1 : ~Fits(h, q, n)
    ELSE 0

\* Mutation of Take: only the first of the pages is marked.
Take_FirstOnly(h, first, n) ==
    [used |-> h.used \cup {first}, table |-> h.table, full |-> h.full \/ first = 0]

\* alloc() of n pages.
Take(h, first, n) ==
    [used |-> h.used \cup first .. first + n - 1, table |-> h.table, full |-> h.full \/ first = 0]

\* alloc_zeroed() of a page that becomes a table.
TakeTable(h, page) ==
    [used  |-> h.used \cup {page},
     table |-> [q \in DOMAIN h.table \cup {page} |-> IF q = page THEN EmptyTable ELSE h.table[q]],
     full  |-> h.full \/ page = 0]

SetEntry(h, page, i, e) ==
    [used |-> h.used, table |-> [h.table EXCEPT ![page][i] = e], full |-> h.full]

-----------------------------------------------------------------------------
(***************************************************************************)
(* map() and map_range().                                                  *)
(***************************************************************************)

\* Mutation of StepDown: a table that exists is replaced.
StepDown_Always(w, i, vaddr) ==
    LET page == FirstFit(w.heap, 1)
    IN  [heap |-> SetEntry(TakeTable(w.heap, page), w.page, w.idx, [ppn |-> page, flags |-> {"V"}]),
         page |-> page, idx |-> Vpn(vaddr, i)]

\* From an entry to the entry one level down, with a new table if there is none.
StepDown(w, i, vaddr) ==
    LET e    == w.heap.table[w.page][w.idx]
        page == IF IsValid(e) THEN e.ppn ELSE FirstFit(w.heap, 1)
    IN  [heap |-> IF IsValid(e) THEN w.heap
                  ELSE SetEntry(TakeTable(w.heap, page), w.page, w.idx, [ppn |-> page, flags |-> {"V"}]),
         page |-> page, idx |-> Vpn(vaddr, i)]

\* map() at level 0.
Map(h, root, vaddr, page, bits) ==
    LET walk[n \in 0 .. LEVELS - 1] ==
            IF n = 0 THEN [heap |-> h, page |-> root, idx |-> Vpn(vaddr, LEVELS - 1)]
            ELSE StepDown(walk[n - 1], LEVELS - 1 - n, vaddr)
        last == walk[LEVELS - 1]
    IN  SetEntry(last.heap, last.page, last.idx, [ppn |-> page, flags |-> bits \cup {"V"}])

\* The pages map_range() maps.  The offset of the address in its page does not
\* count: only the physical address, here always that of a page, is rounded.
NumPages(size) == (size + PageSize - 1) \div PageSize

MapRange(h, root, vaddr, page, size, bits) ==
    LET base == (vaddr \div PageSize) * PageSize
        heap[k \in 0 .. NumPages(size)] ==
            IF k = 0 THEN h
            ELSE Map(heap[k - 1], root, base + ((k - 1) * PageSize), page + (k - 1), bits)
    IN  heap[NumPages(size)]

\* What the call is for: size bytes from the page of the address on are those of
\* the buffer.
Covered(s, vaddr, page, size) ==
    LET nth(v) == (v - (vaddr \div PageSize)) % Span[LEVELS]
    IN  [v \in VPages |-> IF nth(v) * PageSize < size THEN page + nth(v) ELSE s[v]]

\* A step of virt_to_phys(): the walk ends at a leaf of any level, or at nothing.
LookUp(w, i, vaddr) ==
    IF w.page = None THEN w
    ELSE LET e    == table[w.page][Vpn(vaddr, i)]
             mask == PageSize * Span[i]
         IN  IF ~IsValid(e) THEN [page |-> None, addr |-> None]
             ELSE IF IsLeaf(e)
             THEN [page |-> None, addr |-> (((e.ppn * PageSize) \div mask) * mask) + (vaddr % mask)]
             ELSE [page |-> e.ppn, addr |-> None]

VirtToPhys(root, vaddr) ==
    LET walk[n \in 0 .. LEVELS] ==
            IF n = 0 THEN [page |-> root, addr |-> None]
            ELSE LookUp(walk[n - 1], LEVELS - n, vaddr)
    IN  walk[LEVELS].addr

-----------------------------------------------------------------------------
(***************************************************************************)
(* unmap()                                                                 *)
(***************************************************************************)

\* The tables that the entries of some tables point to.
Branches(pages) ==
    {e.ppn : e \in {x \in UNION {Range(table[q]) : q \in pages} : IsValid(x) /\ ~IsLeaf(x)}}

\* The tables of a tree, by their distance from the root.
TablesAt(root) ==
    LET tables[n \in 0 .. LEVELS] == IF n = 0 THEN {root} ELSE Branches(tables[n - 1])
    IN  tables

\* Mutation of TablesBelow: the last level is not freed.
TablesBelow_OneLevel(root) == Branches({root})

\* The tables unmap() frees: those of each level below the root, which it leaves.
TablesBelow(root) == UNION {TablesAt(root)[n] : n \in 1 .. LEVELS}

-----------------------------------------------------------------------------
(***************************************************************************)
(* The life of a process.                                                  *)
(***************************************************************************)

PtInit ==
    /\ used = {}
    /\ table = << >>
    /\ proc = << >>
    /\ dead = {}
    /\ windows = {}
    /\ space = << >>
    /\ lost = {}

Live == DOMAIN proc

\* setup_process(): the heap after ArchProcess::new() and setup_pagetable(): trap frame, root
\* table, the three kernel pages, and the stack, allocated when they are mapped.
Setup(h, kernel_stack) ==
    LET trap  == FirstFit(h, 1)
        h1    == Take(h, trap, 1)
        root  == FirstFit(h1, 1)
        h2    == Map(TakeTable(h1, root), root, TRAMPOLINE, TrampolineCode, {"R", "X"})
        h3    == Map(h2, root, TRAPFRAME, trap, {"R", "W"})
        h4    == Map(h3, root, KILLME, KillmeCode, {"R", "X", "U"})
        stack == FirstFit(h4, 1)
        h5    == Map(Take(h4, stack, 1), root, USER_STACK_START - PageSize, stack, {"R", "W", "U"})
    IN  [heap |-> h5,
         arch |-> [page_table |-> root, trap_frame |-> trap, user_stack |-> stack,
                  kernel_stack |-> kernel_stack, segments |-> {}]]

\* The addresses of a process that was just set up.
FreshSpace(arch) ==
    [v \in VPages |->
        CASE v = PageOf(TRAMPOLINE)                  -> TrampolineCode
          [] v = PageOf(TRAPFRAME)                   -> arch.trap_frame
          [] v = PageOf(KILLME)                      -> KillmeCode
          [] v = PageOf(USER_STACK_START - PageSize) -> arch.user_stack
          [] OTHER                                   -> None]

Heap == [used |-> used, table |-> table, full |-> FALSE]

With(f, p, x) == [q \in DOMAIN f \cup {p} |-> IF q = p THEN x ELSE f[q]]

\* create_process().  Process::new() makes an ArchProcess with a trap frame, and
\* setup_process() puts another one in its place: the first trap frame is lost.
Create(p) ==
    LET trap   == FirstFit(Heap, 1)
        h1     == Take(Heap, trap, 1)
        kstack == FirstFit(h1, KernelStack)
        s      == Setup(Take(h1, kstack, KernelStack), kstack)
    IN  /\ p \notin Live \cup dead
        /\ ~s.heap.full
        /\ used' = s.heap.used
        /\ table' = s.heap.table
        /\ proc' = With(proc, p, s.arch)
        /\ space' = With(space, p, FreshSpace(s.arch))
        /\ lost' = lost \cup {trap}
        /\ UNCHANGED <<dead, windows>>

\* Tables and pages that belong to an ArchProcess.
Owned(arch) ==
    {arch.page_table, arch.trap_frame, arch.user_stack} \cup TablesBelow(arch.page_table) \cup arch.segments

StackOf(arch) == arch.kernel_stack .. arch.kernel_stack + KernelStack - 1

\* sys_execve(), up to load_program(): setup_process() puts a new ArchProcess in
\* the place of the old one, which is not freed.  The kernel stack stays.
Execve(p) ==
    /\ p \in Live
    /\ Cardinality(lost) <= MaxLost
    /\ LET s == Setup(Heap, proc[p].kernel_stack)
       IN  /\ ~s.heap.full
           /\ used' = s.heap.used
           /\ table' = s.heap.table
           /\ proc' = [proc EXCEPT ![p] = s.arch]
           /\ space' = [space EXCEPT ![p] = FreshSpace(s.arch)]
           /\ lost' = lost \cup Owned(proc[p])
    /\ UNCHANGED <<dead, windows>>

\* A program header of load_exe(): a buffer of the segment's size is mapped at
\* its address.  It starts at a page but has the segment's length in bytes, while
\* map_range() maps all of its last page: the model gives the whole page to the
\* segment, where the heap may put small blocks of the kernel in the rest of it.
LoadSegment(l, root, seg) ==
    LET n     == NumPages(seg.size)
        first == FirstFit(l.heap, n)
    IN  [heap  |-> MapRange(Take(l.heap, first, n), root, seg.start, first, seg.size, {"R", "W", "X", "U"}),
         pages |-> l.pages \cup first .. first + n - 1,
         space |-> Covered(l.space, seg.start, first, seg.size)]

\* The loop of load_exe() over the program headers.
LoadSegments(l, root, segs) ==
    LET load[k \in 0 .. Len(segs)] == IF k = 0 THEN l ELSE LoadSegment(load[k - 1], root, segs[k])
    IN  load[Len(segs)]

\* load_program() of a process that was just set up.  The buffer for the file is
\* not freed.
LoadExe(p, prog) ==
    LET n   == NumPages(prog.size)
        bin == FirstFit(Heap, n)
        l   == LoadSegments([heap |-> Take(Heap, bin, n), pages |-> {}, space |-> space[p]],
                            proc[p].page_table, prog.segments)
    IN  /\ p \in Live
        /\ proc[p].segments = {}
        /\ ~l.heap.full
        /\ used' = l.heap.used
        /\ table' = l.heap.table
        /\ proc' = [proc EXCEPT ![p].segments = l.pages]
        /\ space' = [space EXCEPT ![p] = l.space]
        /\ lost' = lost \cup bin .. bin + n - 1
        /\ UNCHANGED <<dead, windows>>

\* sys_create_window(): a frame buffer, never freed.
CreateWindow(size) ==
    LET n     == NumPages(size)
        first == FirstFit(Heap, n)
        h     == Take(Heap, first, n)
    IN  /\ Cardinality(windows) < MaxWindows
        /\ ~h.full
        /\ used' = h.used
        /\ windows' = windows \cup {[first |-> first, size |-> size]}
        /\ UNCHANGED <<table, proc, dead, space, lost>>

\* sys_map_window(): any process may map any window, more than once.
MapWindow(p, w, vaddr) ==
    LET h == MapRange(Heap, proc[p].page_table, vaddr, w.first, w.size, {"R", "W", "U"})
    IN  /\ p \in Live
        /\ ~h.full
        /\ used' = h.used
        /\ table' = h.table
        /\ space' = [space EXCEPT ![p] = Covered(@, vaddr, w.first, w.size)]
        /\ UNCHANGED <<proc, dead, windows, lost>>

\* Mutation of Freed: unmap() also frees the pages the last level points to.
Freed_WithLeaves(arch) ==
    StackOf(arch) \cup Owned(arch) \cup {e.ppn : e \in UNION {Range(table[q]) : q \in TablesBelow(arch.page_table)}}

\* What ArchProcess::free() and kill() give back.
Freed(arch) == Owned(arch) \cup StackOf(arch)

\* kill(): the memory of the process.
Kill(p) ==
    /\ p \in Live
    /\ used' = used \ Freed(proc[p])
    /\ table' = [q \in DOMAIN table \ Freed(proc[p]) |-> table[q]]
    /\ proc' = [q \in Live \ {p} |-> proc[q]]
    /\ space' = [q \in Live \ {p} |-> space[q]]
    /\ dead' = dead \cup {p}
    /\ UNCHANGED <<windows, lost>>

PtNext ==
    \/ \E p \in Procs :
        \/ Create(p)
        \/ Execve(p)
        \/ Kill(p)
        \/ \E prog \in Programs : LoadExe(p, prog)
        \/ \E w \in windows, vaddr \in WindowAddrs : MapWindow(p, w, vaddr)
    \/ \E size \in WindowSizes : CreateWindow(size)

PtSpec == PtInit /\ [][PtNext]_vars

-----------------------------------------------------------------------------
(***************************************************************************)
(* Properties.                                                             *)
(***************************************************************************)

\* virt_to_phys() gives every address of a process what was last mapped there,
\* with the offset in its page, and nothing for the rest.
TranslationExact ==
    \A p \in Live, vaddr \in 0 .. AddressSpace - 1 :
        LET page == space[p][vaddr \div PageSize]
        IN  VirtToPhys(proc[p].page_table, vaddr)
                = IF page = None THEN None ELSE (page * PageSize) + (vaddr % PageSize)

\* A root table and all tables that can be reached from it.
Tree(root) == UNION {TablesAt(root)[n] : n \in 0 .. LEVELS}

\* The memory of a process, and that of the windows.
MemoryOf(p) ==
    Tree(proc[p].page_table) \cup {proc[p].trap_frame, proc[p].user_stack}
        \cup proc[p].segments \cup StackOf(proc[p])
WindowPages == UNION {w.first .. w.first + NumPages(w.size) - 1 : w \in windows}

\* Two processes share no table, stack, trap frame or segment, and none of these
\* is a window: the memory of a process is its own whatever was freed before.  (This is
\* about blocks that start at a page; smaller blocks of the kernel are not in it.)
MemoryPrivate ==
    \A p \in Live :
        /\ MemoryOf(p) \cap (WindowPages \cup lost) = {}
        /\ \A q \in Live \ {p} : MemoryOf(p) \cap MemoryOf(q) = {}

\* The heap accounts for its pages: each one in use belongs to a live process or
\* a window, or is one of the three kinds known to be lost (the first trap frame
\* of a process, the ArchProcess before sys_execve(), the buffer of load_exe()).
\* kill() gives back every table of the tree, and nothing that is still in use.
NothingLeaks == used = (UNION {MemoryOf(p) : p \in Live}) \cup WindowPages \cup lost

\* No process has a freed page in its tables, or a table among its pages.
NoMappingToFreed ==
    \A p \in Live, v \in VPages :
        space[p][v] \in (used \ DOMAIN table) \cup {None, TrampolineCode, KillmeCode}

=============================================================================
