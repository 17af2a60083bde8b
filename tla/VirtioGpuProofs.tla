--------------------------- MODULE VirtioGpuProofs --------------------------
(***************************************************************************)
(* VirtioGpu for every number of user processes and every ring size: what  *)
(* the display relies on until a user process draws.                       *)
(*                                                                         *)
(* Until then only kproc makes requests, and its position says where its   *)
(* request is: not made, written, published, at the device, answered, or   *)
(* freed by pending().  That it does not run before the last of these      *)
(* rests on its state, IOWait, which no mouse event changes because it is  *)
(* not in the queue of the mouse, and on schedule(), which leaves only     *)
(* Running processes on the hart.                                          *)
(***************************************************************************)
EXTENDS VirtioGpu, FiniteSetTheorems, TLAPS

States == {"Running", "Ready", "IOWait", "EventWait", "Sleep"}

Requests == {GetDisplayInfo, ResourceCreate2d, ResourceAttachBacking, SetScanout,
             TransferToHost2d, ResourceFlush}

Outside   == {"boot", "draw", "pixel", "flush", "loop", "wait"}
Requesting == {"alloc", "publish", "save", "iowait", "notify", "call", "return"}

GpuTypeOK ==
    /\ running \in Procs
    /\ state \in [Procs -> States]
    /\ pc \in [Procs -> Outside \cup Requesting \cup {"idle"}]
    /\ todo \in [Procs -> Seq(Requests)]
    /\ chain \in [Procs -> SUBSET Desc]
    /\ free_desc \in SUBSET Desc
    /\ table = [d \in Desc |-> table[d]]

\* Nothing is at the device.
Drained == avail = << >> /\ used = << >> /\ ~kicked /\ ~irq

\* The request of kproc has memory and descriptors, and no other has.
Written ==
    /\ live = {Request(Kproc)}
    /\ chain[Kproc] \in SUBSET Desc /\ Min(chain[Kproc]) \in Desc
    /\ free_desc = Desc \ chain[Kproc]
    /\ table[Min(chain[Kproc])] = Request(Kproc)

\* It is in the available ring, or in the used ring.
Offered == avail = <<Min(chain[Kproc])>> /\ used = << >> /\ ~irq
Served  == avail = << >> /\ used = <<Min(chain[Kproc])>> /\ ~kicked /\ irq /\ Request(Kproc) \in answered

\* Everything is given back.
Clean == live = {} /\ free_desc = Desc /\ Drained

InFlight ==
    /\ Written /\ desc_indexes = chain[Kproc] /\ state[Kproc] = "IOWait"
    /\ (Offered /\ kicked) \/ Served

\* The position of kproc says where its request is.
KprocUnderway ==
    /\ pc[Kproc] \in Outside => todo[Kproc] = << >> /\ chain[Kproc] = {} /\ Clean
    /\ pc[Kproc] = "alloc" => chain[Kproc] = {} /\ Clean
    /\ pc[Kproc] = "publish" => Written /\ Drained
    /\ pc[Kproc] = "save" => Written /\ Offered /\ ~kicked
    /\ pc[Kproc] = "iowait" => Written /\ Offered /\ ~kicked /\ desc_indexes = chain[Kproc]
    /\ pc[Kproc] = "notify" =>
           Written /\ Offered /\ ~kicked /\ desc_indexes = chain[Kproc] /\ state[Kproc] = "IOWait"
    /\ pc[Kproc] \in {"call", "return"} => InFlight \/ (Clean /\ Request(Kproc) \in answered)
    /\ pc[Kproc] \in Requesting => todo[Kproc] # << >>
    /\ pc[Kproc] # "idle"

\* Nobody else makes a request.
OthersIdle ==
    \A p \in Procs \ {Kproc} : pc[p] \in {"idle", "draw"} /\ todo[p] = << >> /\ chain[p] = {}

\* Only kproc on its way from io_wait() to schedule() is on the hart without running.
HartSound == state[running] = "Running" \/ (running = Kproc /\ pc[Kproc] \in {"notify", "call"})

\* In the queue of the mouse kproc waits for nothing else.
WaitsForMouse == waiting => pc[Kproc] = "loop" /\ state[Kproc] = "EventWait"

Alone == GpuTypeOK /\ KprocUnderway /\ OthersIdle /\ HartSound /\ WaitsForMouse

\* kproc in IOWait has not written QueueNotify yet, or its request is at the device or
\* in the used ring.
WaitsForDisplay ==
    state[Kproc] = "IOWait" =>
        pc[Kproc] = "notify" \/ (pc[Kproc] \in {"call", "return"} /\ (kicked \/ irq))

Runnable == {"Running", "Ready"}

\* The process that has to complete an interrupt is not blocked; kproc does so at once.
HandlerRunnable ==
    /\ handling \in Procs \cup {Nobody}
    /\ handling # Nobody => state[handling] \in Runnable
    /\ handling = Kproc => running = Kproc

\* A user process has drawn, or kproc is the only client.
GpuInv == shared \/ Alone

-----------------------------------------------------------------------------
(***************************************************************************)
(* Requests, descriptors and schedule().                                   *)
(***************************************************************************)

LEMMA ProcsDistinct ==
    /\ Kproc \in Procs /\ Null \in Procs /\ Nobody \notin Procs
    /\ Kproc # Null /\ Kproc \notin Users
<1>1. Kproc # Null /\ Kproc # Nobody /\ Null # Nobody
  <2>1. ASSUME NEW a, NEW b PROVE Cardinality({a, b}) <= 2
    <3>1. IsFiniteSet({a}) /\ Cardinality({a}) = 1 /\ {a, b} = {a} \cup {b}
      BY FS_Singleton
    <3>2. Cardinality({a} \cup {b}) = IF b \in {a} THEN Cardinality({a}) ELSE Cardinality({a}) + 1
      BY <3>1, FS_AddElement
    <3> QED BY <3>1, <3>2
  <2>2. Cardinality({Kproc, Null}) <= 2 /\ Cardinality({Kproc, Nobody}) <= 2
    BY <2>1
  <2>3. CASE Kproc = Null \/ Null = Nobody
    BY <2>3, <2>2, {Kproc, Null, Nobody} = {Kproc, Nobody}, ProcsAssumption
  <2>4. CASE Kproc = Nobody
    BY <2>4, <2>2, {Kproc, Null, Nobody} = {Kproc, Null}, ProcsAssumption
  <2> QED BY <2>3, <2>4
<1> QED BY <1>1, ProcsAssumption DEF Procs

\* What init_display() and update_display() ask for are requests, of two or three descriptors.
LEMMA OpsAreRequests ==
    /\ InitOps \in Seq(Requests) /\ InitOps # << >>
    /\ FlushOps \in Seq(Requests) /\ FlushOps # << >>
BY DEF InitOps, FlushOps, Requests

LEMMA RequestsAreSmall == \A r \in Requests : r.descs \in {2, 3}
BY DEF Requests, Req, GetDisplayInfo, ResourceCreate2d, ResourceAttachBacking, SetScanout,
       TransferToHost2d, ResourceFlush

\* After the first of several requests there is another.
LEMMA LongTail ==
    ASSUME NEW R, NEW s \in Seq(R), Len(s) > 1
    PROVE  Tail(s) \in Seq(R) /\ Tail(s) # << >>
<1>1. Tail(s) \in Seq(R) /\ Len(Tail(s)) = Len(s) - 1 /\ Len(s) \in Nat
    OBVIOUS
<1>2. Len(Tail(s)) # Len(<< >>)
    BY <1>1
<1> QED BY <1>1, <1>2

\* With all descriptors free those that allocate_desc() takes begin with descriptor 0.
LEMMA AllFree ==
    ASSUME free_desc = Desc, NEW n \in {2, 3}
    PROVE  Lowest(n) \subseteq Desc /\ Min(Lowest(n)) \in Desc
<1>1. 0 \in Lowest(n)
  <2>1. {e \in free_desc : e < 0} = {}
    BY SizesAssumption DEF Desc
  <2>2. Cardinality({e \in free_desc : e < 0}) = 0
    BY <2>1, FS_EmptySet
  <2> QED BY <2>2, SizesAssumption DEF Lowest, Desc
<1>2. \A d \in Lowest(n) : d \in Desc /\ 0 =< d
    BY SizesAssumption DEF Lowest, Desc
<1>3. Min(Lowest(n)) \in Lowest(n)
    BY <1>1, <1>2 DEF Min
<1> QED BY <1>2, <1>3

\* schedule() puts a process on the hart, which is then Running, and changes the
\* state of no process that is blocked.
LEMMA ScheduleSound ==
    ASSUME running \in Procs, NEW st \in [Procs -> States], Schedule(st)
    PROVE  /\ running' \in Procs
           /\ state' \in [Procs -> States]
           /\ state'[running'] = "Running"
           /\ st[Kproc] \notin {"Running", "Ready"} => state'[Kproc] = st[Kproc]
<1>1. PICK n \in {q \in Procs : st[q] = "Ready"} \cup {running} :
        /\ n = running => st[n] \in {"Running", "Ready"}
        /\ running' = n
        /\ state' = [q \in Procs |->
                        IF q = n THEN "Running"
                        ELSE IF q = running /\ st[q] = "Running" THEN "Ready" ELSE st[q]]
    BY DEF Schedule
<1>2. n \in Procs /\ st[n] \in {"Running", "Ready"}
    BY <1>1
<1>3. running' \in Procs /\ state'[running'] = "Running"
    BY <1>1, <1>2
<1>4. state' \in [Procs -> States]
    BY <1>1, <1>2 DEF States
<1>5. st[Kproc] \notin {"Running", "Ready"} => state'[Kproc] = st[Kproc]
    BY <1>1, <1>2, ProcsDistinct
<1> QED BY <1>3, <1>4, <1>5

-----------------------------------------------------------------------------
(***************************************************************************)
(* Init, and one lemma for each action.                                    *)
(***************************************************************************)

LEMMA InitHolds == GpuInit => Alone
<1> SUFFICES ASSUME GpuInit PROVE Alone
    OBVIOUS
<1> USE DEF GpuInit
<1>1. GpuTypeOK
  <2>1. table = [d \in Desc |-> table[d]]
    OBVIOUS
  <2>2. todo \in [Procs -> Seq(Requests)]
    OBVIOUS
  <2> QED BY <2>1, <2>2, ProcsDistinct DEF GpuTypeOK, States, Outside, Requesting
<1>2. KprocUnderway
    BY ProcsDistinct DEF KprocUnderway, Clean, Drained, Outside, Requesting
<1>3. OthersIdle /\ HartSound /\ WaitsForMouse
    BY ProcsDistinct DEF OthersIdle, HartSound, WaitsForMouse
<1> QED BY <1>1, <1>2, <1>3 DEF Alone

\* The history variable is never reset.
LEMMA SharedStays == ASSUME [GpuNext]_gpuVars, shared PROVE shared'
BY DEF GpuNext, gpuVars, sched, calls, driver, device, mouse, KprocStep, Draw, InitDisplay, TestQueue,
       EventWait, SysSyncWindow, Block, Wakeup, Serve, Pending, Complete, MouseInterrupt, Preempt,
       LockPixel, DrawAt, Flush, AllocDesc, Publish, SaveIndexes, IoWait, NotifyDevice, CallSchedule,
       Return, ReturnLast

\* What the invariant says of requests.
requests == <<todo, chain, free_desc, desc_indexes, table, live, device>>

\* A step that leaves the requests alone, and kproc where it is and blocked if it was,
\* leaves its request where it is.
LEMMA RequestStays ==
    ASSUME Alone, UNCHANGED <<pc, requests>>,
           state[Kproc] = "IOWait" => state'[Kproc] = "IOWait"
    PROVE  KprocUnderway' /\ OthersIdle'
<1> USE DEF requests, device
<1>1. Request(Kproc)' = Request(Kproc)
    BY DEF Request
<1>2. KprocUnderway'
    BY <1>1 DEF Alone, KprocUnderway, Written, Offered, Served, Clean, InFlight, Drained
<1>3. OthersIdle'
    BY DEF Alone, OthersIdle
<1> QED BY <1>2, <1>3

\* schedule() keeps the invariant, with states st in which kproc is still blocked.
LEMMA SchedulePreserves ==
    ASSUME Alone, NEW st \in [Procs -> States], Schedule(st), UNCHANGED <<pc, requests>>,
           state[Kproc] = "IOWait" => st[Kproc] = "IOWait", WaitsForMouse'
    PROVE  Alone'
<1>1. /\ running' \in Procs /\ state' \in [Procs -> States] /\ state'[running'] = "Running"
      /\ state[Kproc] = "IOWait" => state'[Kproc] = "IOWait"
    BY ScheduleSound DEF Alone, GpuTypeOK
<1>2. KprocUnderway' /\ OthersIdle'
    BY <1>1, RequestStays
<1>3. GpuTypeOK'
    BY <1>1 DEF Alone, GpuTypeOK, requests
<1> QED BY <1>1, <1>2, <1>3 DEF Alone, HartSound

\* A step that changes neither states nor requests.
LEMMA FramePreserves ==
    ASSUME Alone, UNCHANGED <<pc, requests, running, state, waiting>> PROVE Alone'
<1>1. KprocUnderway' /\ OthersIdle'
    BY RequestStays
<1> QED BY <1>1 DEF Alone, GpuTypeOK, requests, HartSound, WaitsForMouse

\* The tick, and processes that sleep and wake.
LEMMA PreemptPreserves == ASSUME Alone, Preempt PROVE Alone'
<1>1. state \in [Procs -> States] /\ running \in Procs /\ Schedule(state)
    BY DEF Alone, GpuTypeOK, Preempt
<1>2. UNCHANGED <<pc, requests, waiting>>
    BY DEF Preempt, calls, driver, requests, mouse
<1>3. WaitsForMouse'
    BY <1>1, <1>2, ScheduleSound DEF Alone, WaitsForMouse
<1> QED BY <1>1, <1>2, <1>3, SchedulePreserves

LEMMA SleepPreserves == ASSUME Alone, NEW u \in Users, Block(u) \/ Wakeup(u) PROVE Alone'
<1>1. PICK st \in [Procs -> States] : Schedule(st) /\ st[Kproc] = state[Kproc]
  <2>1. [state EXCEPT ![u] = "Sleep"] \in [Procs -> States]
        /\ [state EXCEPT ![u] = "Sleep"][Kproc] = state[Kproc]
    BY ProcsDistinct DEF Alone, GpuTypeOK, States, Procs
  <2>2. Readied(u) \in [Procs -> States] /\ Readied(u)[Kproc] = state[Kproc]
    BY ProcsDistinct DEF Alone, GpuTypeOK, States, Procs, Readied
  <2> QED BY <2>1, <2>2 DEF Block, Wakeup
<1>2. UNCHANGED <<pc, requests, waiting>>
    BY DEF Block, Wakeup, calls, driver, requests, mouse
<1>3. WaitsForMouse'
    BY <1>1, <1>2, ScheduleSound DEF Alone, GpuTypeOK, WaitsForMouse
<1> QED BY <1>1, <1>2, <1>3, SchedulePreserves

\* kproc is readied by the mouse only where it waits for it.
LEMMA MouseInterruptPreserves == ASSUME Alone, MouseInterrupt PROVE Alone'
<1>1. UNCHANGED <<pc, requests>> /\ ~waiting'
    BY DEF MouseInterrupt, calls, driver, requests, Alone
<1>2. WaitsForMouse'
    BY <1>1 DEF WaitsForMouse
<1>3. CASE ~waiting
  <2>1. UNCHANGED <<running, state>>
    BY <1>3 DEF MouseInterrupt, sched
  <2>2. KprocUnderway' /\ OthersIdle'
    BY <1>1, <2>1, RequestStays
  <2> QED BY <1>1, <1>2, <2>1, <2>2 DEF Alone, GpuTypeOK, requests, HartSound
<1>4. CASE waiting
  <2>1. state[Kproc] = "EventWait" /\ Schedule(Readied(Kproc))
    BY <1>4 DEF MouseInterrupt, Alone, WaitsForMouse, Ready
  <2>2. Readied(Kproc) \in [Procs -> States]
    BY ProcsDistinct DEF Readied, Alone, GpuTypeOK, States
  <2> QED BY <1>1, <1>2, <2>1, <2>2, SchedulePreserves
<1> QED BY <1>3, <1>4

-----------------------------------------------------------------------------
\* Steps of user processes that do not lock the display.
LEMMA SysSyncWindowPreserves == ASSUME Alone, NEW u \in Users, SysSyncWindow(u) PROVE Alone'
<1> USE DEF SysSyncWindow, At, Goto, sched, calls, driver, device, mouse
<1>1. pc'[Kproc] = pc[Kproc] /\ u \in Procs
    BY ProcsDistinct DEF Alone, GpuTypeOK, Procs
<1>2. GpuTypeOK'
    BY DEF Alone, GpuTypeOK, Outside
<1>3. KprocUnderway'
    BY <1>1 DEF Alone, KprocUnderway, Request, Written, Offered, Served, Clean, InFlight, Drained
<1>4. OthersIdle'
    BY <1>1 DEF Alone, GpuTypeOK, OthersIdle
<1>5. HartSound' /\ WaitsForMouse'
    BY <1>1 DEF Alone, HartSound, WaitsForMouse
<1> QED BY <1>2, <1>3, <1>4, <1>5 DEF Alone

\* A user process that draws locks the display first.
LEMMA UsersDoNotDraw == ASSUME Alone, ~shared', NEW u \in Users, Draw(u) PROVE FALSE
<1>1. pc[u] \in {"idle", "draw"}
    BY ProcsDistinct DEF Alone, OthersIdle, Procs
<1>2. LockPixel(u)
    BY <1>1 DEF Draw, At, LockPixel, DrawAt, Flush, AllocDesc, Publish, SaveIndexes, IoWait,
                NotifyDevice, CallSchedule, Return, ReturnLast
<1> QED BY <1>2, ProcsDistinct DEF LockPixel

\* kproc outside a request.
LEMMA DrawingPreserves ==
    ASSUME Alone, LockPixel(Kproc) \/ DrawAt(Kproc, "draw") \/ DrawAt(Kproc, "flush") \/ TestQueue
    PROVE  Alone'
<1> USE DEF LockPixel, DrawAt, TestQueue, At, Goto, sched, calls, driver, device, mouse
<1>1. pc[Kproc] \in Outside /\ pc'[Kproc] \in Outside \ {"boot"}
      /\ \A p \in Procs \ {Kproc} : pc'[p] = pc[p]
    BY ProcsDistinct DEF Alone, GpuTypeOK, Outside
<1>2. UNCHANGED <<requests, running, state, waiting>> /\ running = Kproc
    BY DEF requests
<1>3. GpuTypeOK'
    BY <1>2, ProcsDistinct DEF Alone, GpuTypeOK, Outside, requests
<1>4. KprocUnderway'
    BY <1>1, <1>2 DEF Alone, KprocUnderway, Clean, Drained, requests, Outside, Requesting
<1>5. OthersIdle'
    BY <1>1, <1>2 DEF Alone, OthersIdle, requests
<1>6. state[Kproc] = "Running"
    BY <1>1, <1>2 DEF Alone, HartSound, Outside
<1>7. HartSound' /\ WaitsForMouse'
    BY <1>2, <1>6 DEF Alone, HartSound, WaitsForMouse
<1> QED BY <1>3, <1>4, <1>5, <1>7 DEF Alone

LEMMA EventWaitPreserves == ASSUME Alone, EventWait PROVE Alone'
<1> USE DEF EventWait, At, Goto, calls, driver, mouse
<1>1. pc[Kproc] = "wait" /\ pc'[Kproc] = "loop" /\ \A p \in Procs \ {Kproc} : pc'[p] = pc[p]
    BY ProcsDistinct DEF Alone, GpuTypeOK
<1>2. [state EXCEPT ![Kproc] = "EventWait"] \in [Procs -> States]
      /\ [state EXCEPT ![Kproc] = "EventWait"][Kproc] = "EventWait"
    BY ProcsDistinct DEF Alone, GpuTypeOK, States
<1>3. /\ running' \in Procs /\ state' \in [Procs -> States] /\ state'[running'] = "Running"
      /\ state'[Kproc] = "EventWait"
    BY <1>2, ScheduleSound DEF Alone, GpuTypeOK
<1>4. UNCHANGED requests
    BY DEF requests
<1>5. GpuTypeOK'
    BY <1>3, <1>4 DEF Alone, GpuTypeOK, requests, Outside
<1>6. KprocUnderway' /\ OthersIdle'
    BY <1>1, <1>4 DEF Alone, KprocUnderway, OthersIdle, Clean, Drained, requests, device, Outside, Requesting
<1> QED BY <1>1, <1>3, <1>5, <1>6 DEF Alone, HartSound, WaitsForMouse

LEMMA StartPreserves == ASSUME Alone, InitDisplay \/ Flush(Kproc) PROVE Alone'
<1> USE DEF InitDisplay, Flush, At, Goto, sched, calls, driver, device, mouse
<1>1. pc[Kproc] \in {"boot", "flush"} /\ pc'[Kproc] = "alloc" /\ running = Kproc
      /\ \A p \in Procs \ {Kproc} : pc'[p] = pc[p] /\ todo'[p] = todo[p]
    BY ProcsDistinct DEF Alone, GpuTypeOK
<1>2. todo' \in [Procs -> Seq(Requests)] /\ todo'[Kproc] # << >>
    <2>1. PICK ops \in {InitOps, FlushOps} : todo' = [todo EXCEPT ![Kproc] = ops]
      OBVIOUS
    <2>2. ops \in Seq(Requests) /\ ops # << >>
      BY <2>1, OpsAreRequests
    <2>3. todo \in [Procs -> Seq(Requests)] /\ Kproc \in Procs
      BY ProcsDistinct DEF Alone, GpuTypeOK
    <2> QED BY <2>1, <2>2, <2>3
<1>3. GpuTypeOK'
    BY <1>2 DEF Alone, GpuTypeOK, Outside, Requesting
<1>4. KprocUnderway'
    BY <1>1, <1>2 DEF Alone, KprocUnderway, Clean, Drained, Outside, Requesting
<1>5. OthersIdle'
    BY <1>1 DEF Alone, OthersIdle
<1>6. HartSound' /\ WaitsForMouse'
    BY <1>1 DEF Alone, HartSound, WaitsForMouse
<1> QED BY <1>3, <1>4, <1>5, <1>6 DEF Alone

-----------------------------------------------------------------------------
(***************************************************************************)
(* The steps of a request of kproc.                                        *)
(***************************************************************************)

LEMMA AllocDescPreserves == ASSUME Alone, AllocDesc(Kproc) PROVE Alone'
<1> DEFINE descs == Lowest(DescsNeeded(Kproc))
<1> USE DEF At, Goto, sched, calls, mouse
<1>1. /\ pc[Kproc] = "alloc" /\ pc' = [pc EXCEPT ![Kproc] = "publish"] /\ running = Kproc
      /\ chain' = [chain EXCEPT ![Kproc] = descs] /\ free_desc' = free_desc \ descs
      /\ table' = [table EXCEPT ![Min(descs)] = Request(Kproc)]
      /\ live' = live \cup {Request(Kproc)}
      /\ UNCHANGED <<running, state, todo, avail, used, kicked, irq, waiting>>
    BY DEF AllocDesc
<1>2. pc'[Kproc] = "publish" /\ Clean /\ todo[Kproc] # << >> /\ todo[Kproc] \in Seq(Requests)
    BY <1>1, ProcsDistinct DEF Alone, GpuTypeOK, KprocUnderway, Requesting
<1>3. DescsNeeded(Kproc) \in {2, 3}
  <2>1. Head(todo[Kproc]) \in Requests
    BY <1>2
  <2> QED BY <2>1, RequestsAreSmall DEF DescsNeeded
<1>4. descs \subseteq Desc /\ Min(descs) \in Desc
    BY <1>2, <1>3, AllFree DEF Clean
<1> HIDE DEF descs
<1>5. GpuTypeOK'
    BY <1>1, <1>4 DEF Alone, GpuTypeOK, Requesting
<1>6. chain'[Kproc] = descs /\ Request(Kproc)' = Request(Kproc)
    BY <1>1, ProcsDistinct DEF Alone, GpuTypeOK, Request
<1>7. Written'
  <2>1. table'[Min(descs)] = Request(Kproc)
    BY <1>1, <1>4 DEF Alone, GpuTypeOK
  <2>2. live' = {Request(Kproc)} /\ free_desc' = Desc \ descs
    BY <1>1, <1>2 DEF Clean
  <2> QED BY <1>4, <1>6, <2>1, <2>2 DEF Written
<1>8. Drained'
    BY <1>1, <1>2 DEF Clean, Drained
<1>9. KprocUnderway'
    BY <1>1, <1>2, <1>7, <1>8 DEF KprocUnderway, Outside
<1>10. OthersIdle'
    BY <1>1, ProcsDistinct DEF Alone, GpuTypeOK, OthersIdle
<1>11. HartSound' /\ WaitsForMouse'
    BY <1>1 DEF Alone, HartSound, WaitsForMouse
<1> QED BY <1>5, <1>9, <1>10, <1>11 DEF Alone

LEMMA PublishPreserves == ASSUME Alone, Publish(Kproc) PROVE Alone'
<1> USE DEF Publish, At, Goto, sched, calls, driver, mouse
<1>1. pc[Kproc] = "publish" /\ pc'[Kproc] = "save" /\ Request(Kproc)' = Request(Kproc)
      /\ \A p \in Procs \ {Kproc} : pc'[p] = pc[p]
    BY ProcsDistinct DEF Alone, GpuTypeOK, Request
<1>2. Written' /\ todo[Kproc] # << >>
    BY <1>1 DEF Alone, KprocUnderway, Written, Requesting
<1>3. Offered' /\ ~kicked'
    BY <1>1 DEF Alone, KprocUnderway, Drained, Offered
<1>4. KprocUnderway'
    BY <1>1, <1>2, <1>3 DEF KprocUnderway, Outside
<1>5. GpuTypeOK' /\ OthersIdle'
    BY <1>1 DEF Alone, GpuTypeOK, OthersIdle, Requesting
<1>6. HartSound' /\ WaitsForMouse'
    BY <1>1 DEF Alone, HartSound, WaitsForMouse
<1> QED BY <1>4, <1>5, <1>6 DEF Alone

LEMMA SaveIndexesPreserves == ASSUME Alone, SaveIndexes(Kproc) PROVE Alone'
<1> USE DEF SaveIndexes, At, Goto, sched, calls, device, mouse
<1>1. pc[Kproc] = "save" /\ pc'[Kproc] = "iowait" /\ Request(Kproc)' = Request(Kproc)
      /\ \A p \in Procs \ {Kproc} : pc'[p] = pc[p]
    BY ProcsDistinct DEF Alone, GpuTypeOK, Request
<1>2. Written' /\ todo[Kproc] # << >>
    BY <1>1 DEF Alone, KprocUnderway, Written, Requesting
<1>3. Offered' /\ ~kicked'
    BY <1>1 DEF Alone, KprocUnderway, Offered
<1>4. KprocUnderway'
    BY <1>1, <1>2, <1>3 DEF KprocUnderway, Outside
<1>5. GpuTypeOK' /\ OthersIdle'
    BY <1>1 DEF Alone, GpuTypeOK, OthersIdle, Requesting
<1>6. HartSound' /\ WaitsForMouse'
    BY <1>1 DEF Alone, HartSound, WaitsForMouse
<1> QED BY <1>4, <1>5, <1>6 DEF Alone

LEMMA IoWaitPreserves == ASSUME Alone, IoWait(Kproc) PROVE Alone'
<1> USE DEF IoWait, At, Goto, calls, driver, device, mouse
<1>1. pc[Kproc] = "iowait" /\ pc'[Kproc] = "notify" /\ Request(Kproc)' = Request(Kproc)
      /\ \A p \in Procs \ {Kproc} : pc'[p] = pc[p]
    BY ProcsDistinct DEF Alone, GpuTypeOK, Request
<1>2. Written' /\ todo[Kproc] # << >> /\ desc_indexes = chain[Kproc]
    BY <1>1 DEF Alone, KprocUnderway, Written, Requesting
<1>3. Offered' /\ ~kicked' /\ state'[Kproc] = "IOWait"
    BY <1>1, ProcsDistinct DEF Alone, KprocUnderway, Offered, GpuTypeOK
<1>4. KprocUnderway'
    BY <1>1, <1>2, <1>3 DEF KprocUnderway, Outside
<1>5. GpuTypeOK' /\ OthersIdle'
    BY <1>1 DEF Alone, GpuTypeOK, OthersIdle, Requesting, States
<1>6. HartSound' /\ WaitsForMouse'
    BY <1>1 DEF Alone, HartSound, WaitsForMouse
<1> QED BY <1>4, <1>5, <1>6 DEF Alone

LEMMA NotifyDevicePreserves == ASSUME Alone, NotifyDevice(Kproc) PROVE Alone'
<1> USE DEF NotifyDevice, At, Goto, sched, calls, driver, mouse
<1>1. pc[Kproc] = "notify" /\ pc'[Kproc] = "call" /\ Request(Kproc)' = Request(Kproc)
      /\ \A p \in Procs \ {Kproc} : pc'[p] = pc[p]
    BY ProcsDistinct DEF Alone, GpuTypeOK, Request
<1>2. Written' /\ todo[Kproc] # << >> /\ desc_indexes = chain[Kproc] /\ state[Kproc] = "IOWait"
    BY <1>1 DEF Alone, KprocUnderway, Written, Requesting
<1>3. Offered' /\ kicked'
    BY <1>1 DEF Alone, KprocUnderway, Offered
<1>4. InFlight'
    BY <1>2, <1>3 DEF InFlight
<1>5. KprocUnderway'
    BY <1>1, <1>2, <1>4 DEF KprocUnderway, Outside
<1>6. GpuTypeOK' /\ OthersIdle'
    BY <1>1 DEF Alone, GpuTypeOK, OthersIdle, Requesting
<1>7. HartSound' /\ WaitsForMouse'
    BY <1>1 DEF Alone, HartSound, WaitsForMouse
<1> QED BY <1>5, <1>6, <1>7 DEF Alone

\* Where the request is does not depend on the position between schedule() and its return.
LEMMA CallSchedulePreserves == ASSUME Alone, CallSchedule(Kproc) PROVE Alone'
<1> USE DEF CallSchedule, At, Goto, calls, driver, device, mouse
<1>1. pc[Kproc] = "call" /\ pc'[Kproc] = "return" /\ Request(Kproc)' = Request(Kproc)
      /\ \A p \in Procs \ {Kproc} : pc'[p] = pc[p]
    BY ProcsDistinct DEF Alone, GpuTypeOK, Request
<1>2. /\ running' \in Procs /\ state' \in [Procs -> States] /\ state'[running'] = "Running"
      /\ state[Kproc] = "IOWait" => state'[Kproc] = "IOWait"
    BY ScheduleSound DEF Alone, GpuTypeOK
<1>3. InFlight' \/ (Clean' /\ Request(Kproc)' \in answered')
  <2>1. InFlight \/ (Clean /\ Request(Kproc) \in answered)
    BY <1>1 DEF Alone, KprocUnderway
  <2>2. CASE InFlight
    <3>1. Written' /\ desc_indexes' = chain'[Kproc] /\ state'[Kproc] = "IOWait"
      BY <2>2, <1>1, <1>2 DEF InFlight, Written
    <3>2. (Offered' /\ kicked') \/ Served'
      BY <2>2, <1>1 DEF InFlight, Offered, Served
    <3> QED BY <3>1, <3>2 DEF InFlight
  <2>3. CASE Clean /\ Request(Kproc) \in answered
    BY <2>3, <1>1 DEF Clean, Drained
  <2> QED BY <2>1, <2>2, <2>3
<1>4. todo[Kproc] # << >>
    BY <1>1 DEF Alone, KprocUnderway, Requesting
<1>5. KprocUnderway'
    BY <1>1, <1>3, <1>4 DEF KprocUnderway, Outside
<1>6. GpuTypeOK' /\ OthersIdle'
    BY <1>1, <1>2 DEF Alone, GpuTypeOK, OthersIdle, Requesting
<1>7. HartSound' /\ WaitsForMouse'
    BY <1>1, <1>2 DEF Alone, HartSound, WaitsForMouse
<1> QED BY <1>5, <1>6, <1>7 DEF Alone

\* Who is on the hart at the return is Running, and so pending() has freed its request.
LEMMA RunningIsAnswered ==
    ASSUME Alone, At(Kproc, "return") PROVE Clean /\ Request(Kproc) \in answered
<1>1. state[Kproc] = "Running"
    BY DEF Alone, HartSound, At
<1> QED BY <1>1 DEF Alone, KprocUnderway, InFlight, At

LEMMA ReturnPreserves == ASSUME Alone, Return(Kproc) \/ ReturnLast(Kproc) PROVE Alone'
<1> USE DEF Goto, sched, calls, driver, device, mouse
<1>1. Clean
    BY RunningIsAnswered DEF Return, ReturnLast
<1>2. Clean'
    BY <1>1 DEF Return, ReturnLast, Clean, Drained
<1>3. /\ pc[Kproc] = "return" /\ running = Kproc /\ UNCHANGED <<running, state, waiting, free_desc, table>>
      /\ chain' = [chain EXCEPT ![Kproc] = {}] /\ chain'[Kproc] = {}
      /\ \A p \in Procs \ {Kproc} : pc'[p] = pc[p] /\ todo'[p] = todo[p] /\ chain'[p] = chain[p]
    BY ProcsDistinct DEF Return, ReturnLast, At, Alone, GpuTypeOK
<1>4. todo[Kproc] \in Seq(Requests)
    BY ProcsDistinct DEF Alone, GpuTypeOK
<1>5. CASE Return(Kproc)
  <2>1. Tail(todo[Kproc]) \in Seq(Requests) /\ Tail(todo[Kproc]) # << >>
    <3>1. Len(todo[Kproc]) > 1
      BY <1>5 DEF Return
    <3> QED BY <3>1, <1>4, LongTail
  <2>2. todo' \in [Procs -> Seq(Requests)] /\ todo'[Kproc] # << >>
    BY <1>5, <2>1, ProcsDistinct DEF Return, Alone, GpuTypeOK
  <2>3. pc' = [pc EXCEPT ![Kproc] = "alloc"] /\ pc'[Kproc] = "alloc"
    BY <1>5, ProcsDistinct DEF Return, Alone, GpuTypeOK
  <2>4. GpuTypeOK'
    BY <1>3, <2>2, <2>3 DEF Alone, GpuTypeOK, Requesting
  <2>5. KprocUnderway'
    BY <1>2, <1>3, <2>2, <2>3 DEF KprocUnderway, Outside
  <2> QED BY <1>3, <2>4, <2>5 DEF Alone, OthersIdle, HartSound, WaitsForMouse
<1>6. CASE ReturnLast(Kproc)
  <2>1. todo' \in [Procs -> Seq(Requests)] /\ todo'[Kproc] = << >>
    BY <1>6, ProcsDistinct DEF ReturnLast, Alone, GpuTypeOK
  <2>2. PICK l \in {"draw", "loop"} : pc' = [pc EXCEPT ![Kproc] = l]
    BY <1>6 DEF ReturnLast
  <2>3. pc'[Kproc] \in {"draw", "loop"}
    BY <2>2, ProcsDistinct DEF Alone, GpuTypeOK
  <2>4. GpuTypeOK'
    BY <1>3, <2>1, <2>2 DEF Alone, GpuTypeOK, Outside
  <2>5. KprocUnderway'
    BY <1>2, <1>3, <2>1, <2>3 DEF KprocUnderway, Requesting
  <2> QED BY <1>3, <2>4, <2>5 DEF Alone, OthersIdle, HartSound, WaitsForMouse
<1> QED BY <1>5, <1>6

-----------------------------------------------------------------------------
(***************************************************************************)
(* The device and its interrupt.                                           *)
(***************************************************************************)

\* The device or its interrupt is busy only with the request kproc is blocked for.
LEMMA DeviceHasRequest ==
    ASSUME Alone, kicked \/ irq PROVE pc[Kproc] \in {"call", "return"} /\ InFlight
<1>1. pc[Kproc] \in Outside \cup Requesting \cup {"idle"}
    BY ProcsDistinct DEF Alone, GpuTypeOK
<1>2. pc[Kproc] \in {"call", "return"}
    BY <1>1 DEF Alone, KprocUnderway, Clean, Drained, Offered, Requesting
<1> QED BY <1>2 DEF Alone, KprocUnderway, Clean, Drained

LEMMA ServePreserves == ASSUME Alone, Serve PROVE Alone'
<1> USE DEF Serve, sched, calls, driver, mouse
<1>1. pc[Kproc] \in {"call", "return"} /\ InFlight
    BY DeviceHasRequest
<1>2. Offered /\ Written
    BY <1>1 DEF InFlight, Served
<1>3. Request(Kproc)' = Request(Kproc)
    BY DEF Request
<1>4. Head(avail) = Min(chain[Kproc]) /\ Tail(avail) = << >> /\ used = << >>
    BY <1>2 DEF Offered
<1>5. /\ avail' = << >> /\ used' = <<Min(chain[Kproc])>> /\ ~kicked' /\ irq'
      /\ Request(Kproc) \in answered'
  <2>1. avail' = << >> /\ used' = <<Min(chain[Kproc])>>
    BY <1>4
  <2>2. Request(Kproc) \in answered'
    BY <1>2, <1>4 DEF Written
  <2>3. ~kicked'
    BY <1>4
  <2> QED BY <2>1, <2>2, <2>3
<1>6. Served' /\ Written'
    BY <1>2, <1>3, <1>5 DEF Served, Written
<1>7. InFlight'
    BY <1>1, <1>6 DEF InFlight
<1>8. KprocUnderway'
    BY <1>1, <1>7 DEF Alone, KprocUnderway, Outside
<1> QED BY <1>8 DEF Alone, GpuTypeOK, OthersIdle, HartSound, WaitsForMouse

\* pending() finds the request answered, gives back all it had, and readies kproc.
LEMMA PendingPreserves == ASSUME Alone, Pending PROVE Alone'
<1> USE DEF Pending, calls, mouse
<1>1. pc[Kproc] \in {"call", "return"} /\ InFlight
    BY DeviceHasRequest
<1>2. Served /\ Written /\ desc_indexes = chain[Kproc] /\ state[Kproc] = "IOWait"
    BY <1>1 DEF InFlight, Offered
<1>3. Schedule(Readied(Kproc)) /\ Readied(Kproc) \in [Procs -> States]
    BY <1>2, ProcsDistinct DEF Ready, Readied, Alone, GpuTypeOK, States
<1>4. running' \in Procs /\ state' \in [Procs -> States] /\ state'[running'] = "Running"
    BY <1>3, ScheduleSound DEF Alone, GpuTypeOK
<1>5. Clean'
  <2>1. Freed = {Request(Kproc)}
    BY <1>2 DEF Freed, Served, Written
  <2>2. live' = {} /\ free_desc' = Desc
    BY <1>2, <2>1 DEF Written
  <2>3. Drained'
    BY <1>2 DEF Served, Drained
  <2> QED BY <2>2, <2>3 DEF Clean
<1>6. Request(Kproc)' = Request(Kproc) /\ Request(Kproc) \in answered'
    BY <1>2 DEF Request, Served
<1>7. KprocUnderway'
    BY <1>1, <1>5, <1>6 DEF Alone, KprocUnderway, Outside
<1>8. GpuTypeOK'
    BY <1>4, <1>5 DEF Alone, GpuTypeOK, Clean
<1>9. OthersIdle' /\ HartSound'
    BY <1>4 DEF Alone, OthersIdle, HartSound
<1>10. WaitsForMouse'
    BY <1>1 DEF Alone, WaitsForMouse
<1> QED BY <1>7, <1>8, <1>9, <1>10 DEF Alone

-----------------------------------------------------------------------------
LEMMA StepPreserves == ASSUME Alone, ~shared', [GpuNext]_gpuVars PROVE Alone'
<1>1. CASE KprocStep
  <2>1. CASE InitDisplay \/ Flush(Kproc)
    BY <2>1, StartPreserves
  <2>2. CASE LockPixel(Kproc) \/ DrawAt(Kproc, "draw") \/ DrawAt(Kproc, "flush") \/ TestQueue
    BY <2>2, DrawingPreserves
  <2>3. CASE EventWait
    BY <2>3, EventWaitPreserves
  <2>4. CASE AllocDesc(Kproc) \/ Publish(Kproc) \/ SaveIndexes(Kproc) \/ IoWait(Kproc)
    BY <2>4, AllocDescPreserves, PublishPreserves, SaveIndexesPreserves, IoWaitPreserves
  <2>5. CASE NotifyDevice(Kproc) \/ CallSchedule(Kproc) \/ Return(Kproc) \/ ReturnLast(Kproc)
    BY <2>5, NotifyDevicePreserves, CallSchedulePreserves, ReturnPreserves
  <2> QED BY <1>1, <2>1, <2>2, <2>3, <2>4, <2>5 DEF KprocStep, Draw
<1>2. ASSUME NEW u \in Users, SysSyncWindow(u) \/ Draw(u) \/ Block(u) \/ Wakeup(u) PROVE Alone'
    BY <1>2, SysSyncWindowPreserves, UsersDoNotDraw, SleepPreserves
<1>3. CASE Serve \/ Pending \/ MouseInterrupt \/ Preempt
    BY <1>3, ServePreserves, PendingPreserves, MouseInterruptPreserves, PreemptPreserves
<1>4. CASE Complete \/ UNCHANGED gpuVars
    BY <1>4, FramePreserves DEF Complete, gpuVars, sched, calls, driver, mouse, requests
<1> QED BY <1>1, <1>2, <1>3, <1>4 DEF GpuNext

\* The invariant holds in every behaviour: until a user process has drawn, kproc is
\* the driver's only client, and its position says where its request is.
THEOREM GpuInvariant == GpuSpec => []GpuInv
<1>1. GpuInit => GpuInv
    BY InitHolds DEF GpuInv
<1>2. GpuInv /\ [GpuNext]_gpuVars => GpuInv'
  <2> SUFFICES ASSUME GpuInv, [GpuNext]_gpuVars PROVE shared' \/ Alone'
    BY DEF GpuInv
  <2>1. CASE shared
    BY <2>1, SharedStays
  <2>2. CASE Alone
    BY <2>2, StepPreserves
  <2> QED BY <2>1, <2>2 DEF GpuInv
<1> QED BY <1>1, <1>2, PTL DEF GpuSpec

\* Until a user process draws, kproc returns from send_desc() only with its response.
THEOREM KprocIsAnswered == GpuSpec => []KprocGetsResponses
<1>1. GpuInv => KprocGetsResponses
    BY RunningIsAnswered DEF GpuInv, KprocGetsResponses
<1> QED BY <1>1, GpuInvariant, PTL

\* Until a user process draws, the descriptors in use are those of the one request
\* that is not freed: none is shared and none is lost.
THEOREM DescriptorsAccounted == GpuSpec => []DescriptorsExact
<1>1. ASSUME Alone PROVE DescriptorsExact
  <2> DEFINE Live == {q \in Procs : todo[q] # << >> /\ Request(q) \in live}
  <2>1. Live \subseteq {Kproc}
    BY <1>1 DEF Alone, OthersIdle
  <2>2. pc[Kproc] \in Outside \cup Requesting \cup {"idle"}
    BY <1>1, ProcsDistinct DEF Alone, GpuTypeOK
  <2>3. (Written /\ todo[Kproc] # << >>) \/ Clean
    BY <1>1, <2>2 DEF Alone, KprocUnderway, InFlight, Requesting
  <2>4. CASE Clean
    <3>1. Live = {}
      BY <2>4 DEF Clean
    <3> QED BY <2>4, <3>1 DEF Clean, DescriptorsExact
  <2>5. CASE Written /\ todo[Kproc] # << >>
    <3>1. Live = {Kproc}
      BY <2>1, <2>5, ProcsDistinct DEF Written
    <3>2. UNION {chain[p] : p \in Live} = chain[Kproc]
      BY <3>1
    <3>3. Desc \ free_desc = chain[Kproc]
      BY <2>5 DEF Written
    <3> QED BY <3>2, <3>3 DEF DescriptorsExact
  <2> QED BY <2>3, <2>4, <2>5
<1>2. GpuInv => DescriptorsExact
    BY <1>1 DEF GpuInv, DescriptorsExact
<1> QED BY <1>2, GpuInvariant, PTL

-----------------------------------------------------------------------------
(***************************************************************************)
(* The response that kproc waits for.                                      *)
(***************************************************************************)

\* schedule() blocks and wakes nobody, and prefers kproc.
LEMMA ScheduleKeeps ==
    ASSUME running \in Procs, NEW st \in [Procs -> States], Schedule(st)
    PROVE  /\ \A q \in Procs : st[q] \in Runnable => state'[q] \in Runnable
           /\ state'[Kproc] = "IOWait" => st[Kproc] = "IOWait"
           /\ st[Kproc] = "Ready" => running' = Kproc
<1>1. PICK n \in {q \in Procs : st[q] = "Ready"} \cup {running} :
        /\ \A q \in Procs : st[q] = "Ready" => Priority(q) <= Priority(n)
        /\ running' = n
        /\ state' = [q \in Procs |->
                        IF q = n THEN "Running"
                        ELSE IF q = running /\ st[q] = "Running" THEN "Ready" ELSE st[q]]
    BY DEF Schedule
<1>2. \A q \in Procs : st[q] \in Runnable => state'[q] \in Runnable
    BY <1>1 DEF Runnable
<1>3. state'[Kproc] = "IOWait" => st[Kproc] = "IOWait"
    BY <1>1, ProcsDistinct
<1>4. st[Kproc] = "Ready" => running' = Kproc
    BY <1>1, ProcsDistinct DEF Priority
<1> QED BY <1>2, <1>3, <1>4

\* schedule(), with states st in which only processes that are not the handler's have blocked.
LEMMA ScheduleWaits ==
    ASSUME Alone, WaitsForDisplay, HandlerRunnable,
           NEW st \in [Procs -> States], Schedule(st),
           st[Kproc] = "IOWait" => state[Kproc] = "IOWait",
           \A q \in Procs : state[q] \in Runnable /\ q = handling => st[q] \in Runnable,
           handling # Kproc, UNCHANGED <<kicked, irq, handling>>,
           pc'[Kproc] = pc[Kproc] \/ (pc[Kproc] = "call" /\ pc'[Kproc] = "return") \/ st[Kproc] # "IOWait"
    PROVE  WaitsForDisplay' /\ HandlerRunnable'
<1>1. /\ \A q \in Procs : st[q] \in Runnable => state'[q] \in Runnable
      /\ state'[Kproc] = "IOWait" => st[Kproc] = "IOWait"
    BY ScheduleKeeps DEF Alone, GpuTypeOK
<1>2. WaitsForDisplay'
    BY <1>1 DEF WaitsForDisplay
<1>3. HandlerRunnable'
    BY <1>1 DEF HandlerRunnable
<1> QED BY <1>2, <1>3

\* A step that leaves kproc in its state, and nobody blocked.
LEMMA QuietStep ==
    ASSUME WaitsForDisplay, HandlerRunnable, UNCHANGED <<running, state, handling>>,
           state[Kproc] = "IOWait" =>
               pc'[Kproc] = "notify" \/ (pc'[Kproc] \in {"call", "return"} /\ (kicked' \/ irq'))
    PROVE  WaitsForDisplay' /\ HandlerRunnable'
BY DEF WaitsForDisplay, HandlerRunnable

\* Where kproc is on the hart and outside send_desc() it is Running.
LEMMA OnHartRunning ==
    ASSUME Alone, running = Kproc, pc[Kproc] \notin {"notify", "call"} PROVE state[Kproc] # "IOWait"
BY DEF Alone, HartSound

LEMMA KprocStepWaits ==
    ASSUME Alone, WaitsForDisplay, HandlerRunnable, KprocStep
    PROVE  WaitsForDisplay' /\ HandlerRunnable'
<1> USE DEF At, Goto, sched, calls, driver, device, mouse
<1>1. CASE InitDisplay \/ Flush(Kproc) \/ LockPixel(Kproc) \/ DrawAt(Kproc, "draw")
           \/ DrawAt(Kproc, "flush") \/ TestQueue
  <2>1. state[Kproc] # "IOWait" /\ UNCHANGED <<running, state, handling>>
    BY <1>1, OnHartRunning DEF InitDisplay, Flush, LockPixel, DrawAt, TestQueue
  <2> QED BY <2>1, QuietStep
<1>2. CASE AllocDesc(Kproc) \/ Publish(Kproc) \/ SaveIndexes(Kproc) \/ Return(Kproc) \/ ReturnLast(Kproc)
  <2>1. state[Kproc] # "IOWait" /\ UNCHANGED <<running, state, handling>>
    BY <1>2, OnHartRunning DEF AllocDesc, Publish, SaveIndexes, Return, ReturnLast
  <2> QED BY <2>1, QuietStep
<1>3. CASE IoWait(Kproc)
  <2>1. pc'[Kproc] = "notify" /\ handling # Kproc /\ UNCHANGED <<running, handling>>
    BY <1>3, ProcsDistinct DEF IoWait, Alone, GpuTypeOK
  <2>2. \A q \in Procs \ {Kproc} : state'[q] = state[q]
    BY <1>3 DEF IoWait, Alone, GpuTypeOK
  <2> QED BY <2>1, <2>2 DEF WaitsForDisplay, HandlerRunnable
<1>4. CASE NotifyDevice(Kproc)
  <2>1. pc'[Kproc] = "call" /\ kicked' /\ UNCHANGED <<running, state, handling>>
    BY <1>4, ProcsDistinct DEF NotifyDevice, Alone, GpuTypeOK
  <2> QED BY <2>1, QuietStep
<1>5. CASE CallSchedule(Kproc)
  <2>1. /\ state \in [Procs -> States] /\ Schedule(state) /\ handling # Kproc
        /\ pc[Kproc] = "call" /\ pc'[Kproc] = "return" /\ UNCHANGED <<kicked, irq, handling>>
    BY <1>5, ProcsDistinct DEF CallSchedule, Alone, GpuTypeOK
  <2> QED BY <2>1, ScheduleWaits
<1>6. CASE EventWait
  <2> DEFINE st == [state EXCEPT ![Kproc] = "EventWait"]
  <2>1. /\ st \in [Procs -> States] /\ Schedule(st) /\ handling # Kproc
        /\ st[Kproc] # "IOWait" /\ \A q \in Procs \ {Kproc} : st[q] = state[q]
        /\ UNCHANGED <<kicked, irq, handling>>
    BY <1>6, ProcsDistinct DEF EventWait, Alone, GpuTypeOK, States
  <2> HIDE DEF st
  <2> QED BY <2>1, ScheduleWaits
<1> QED BY <1>1, <1>2, <1>3, <1>4, <1>5, <1>6 DEF KprocStep, Draw

LEMMA UserStepWaits ==
    ASSUME Alone, WaitsForDisplay, HandlerRunnable, NEW u \in Users, SysSyncWindow(u) \/ Block(u) \/ Wakeup(u)
    PROVE  WaitsForDisplay' /\ HandlerRunnable'
<1> USE DEF At, Goto, sched, calls, driver, device, mouse
<1>1. u \in Procs /\ u # Kproc
    BY ProcsDistinct DEF Procs
<1>2. CASE SysSyncWindow(u)
  <2>1. pc'[Kproc] = pc[Kproc] /\ UNCHANGED <<running, state, handling, kicked, irq>>
    BY <1>1, <1>2 DEF SysSyncWindow, Alone, GpuTypeOK
  <2> QED BY <2>1, QuietStep DEF WaitsForDisplay
<1>3. CASE Block(u)
  <2> DEFINE st == [state EXCEPT ![u] = "Sleep"]
  <2>1. /\ st \in [Procs -> States] /\ Schedule(st) /\ handling # u /\ handling # Kproc
        /\ \A q \in Procs \ {u} : st[q] = state[q]
        /\ st[Kproc] = state[Kproc]
        /\ UNCHANGED <<kicked, irq, handling, pc>>
    BY <1>1, <1>3, ProcsDistinct DEF Block, Alone, GpuTypeOK, States, HandlerRunnable
  <2> HIDE DEF st
  <2> QED BY <2>1, ScheduleWaits
<1>4. CASE Wakeup(u)
  <2>1. /\ Readied(u) \in [Procs -> States] /\ Schedule(Readied(u)) /\ handling # Kproc
        /\ \A q \in Procs : state[q] \in Runnable => Readied(u)[q] \in Runnable
        /\ Readied(u)[Kproc] = state[Kproc]
        /\ UNCHANGED <<kicked, irq, handling, pc>>
    BY <1>1, <1>4, ProcsDistinct
       DEF Wakeup, InterruptsOn, Readied, Alone, GpuTypeOK, States, HandlerRunnable, Runnable
  <2> QED BY <2>1, ScheduleWaits
<1> QED BY <1>2, <1>3, <1>4

LEMMA InterruptWaits ==
    ASSUME Alone, WaitsForDisplay, HandlerRunnable, Serve \/ Pending \/ Complete \/ MouseInterrupt \/ Preempt
    PROVE  WaitsForDisplay' /\ HandlerRunnable'
<1> USE DEF sched, calls, driver, device, mouse
<1>1. CASE Serve
  <2>1. irq' /\ kicked /\ UNCHANGED <<running, state, handling, pc>>
    BY <1>1 DEF Serve
  <2>2. pc[Kproc] # "notify"
    BY <2>1 DEF Alone, KprocUnderway
  <2> QED BY <2>1, <2>2, QuietStep DEF WaitsForDisplay
<1>2. CASE Complete
  <2>1. handling' = Nobody /\ UNCHANGED <<running, state, pc, kicked, irq>>
    BY <1>2 DEF Complete
  <2> QED BY <2>1, ProcsDistinct DEF WaitsForDisplay, HandlerRunnable
<1>3. CASE Preempt
  <2>1. /\ state \in [Procs -> States] /\ Schedule(state) /\ handling # Kproc
        /\ UNCHANGED <<kicked, irq, handling, pc>>
    BY <1>3 DEF Preempt, InterruptsOn, Alone, GpuTypeOK, HandlerRunnable
  <2> QED BY <2>1, ScheduleWaits
<1>4. CASE MouseInterrupt
  <2>1. handling # Kproc /\ UNCHANGED <<kicked, irq, handling, pc>>
    BY <1>4 DEF MouseInterrupt, InterruptsOn, HandlerRunnable
  <2>2. CASE ~waiting
    <3>1. UNCHANGED <<running, state>>
      BY <1>4, <2>2 DEF MouseInterrupt
    <3> QED BY <2>1, <3>1, QuietStep DEF WaitsForDisplay
  <2>3. CASE waiting
    <3>1. state[Kproc] = "EventWait"
      BY <2>3 DEF Alone, WaitsForMouse
    <3>2. /\ Readied(Kproc) \in [Procs -> States] /\ Schedule(Readied(Kproc))
          /\ \A q \in Procs : state[q] \in Runnable => Readied(Kproc)[q] \in Runnable
          /\ Readied(Kproc)[Kproc] # "IOWait"
      BY <1>4, <2>3, <3>1, ProcsDistinct DEF MouseInterrupt, Ready, Readied, Alone, GpuTypeOK, States, Runnable
    <3> QED BY <2>1, <3>2, ScheduleWaits
  <2> QED BY <2>2, <2>3
<1>5. CASE Pending
  <2>1. state[Kproc] = "IOWait"
    BY <1>5, DeviceHasRequest DEF Pending, InFlight
  <2>2. /\ Readied(Kproc) \in [Procs -> States] /\ Schedule(Readied(Kproc))
        /\ Readied(Kproc)[Kproc] = "Ready"
        /\ \A q \in Procs \ {Kproc} : Readied(Kproc)[q] = state[q]
        /\ handling' = running
    BY <1>5, <2>1, ProcsDistinct DEF Pending, Ready, Readied, Alone, GpuTypeOK, States
  <2>3. /\ \A q \in Procs : Readied(Kproc)[q] \in Runnable => state'[q] \in Runnable
        /\ state'[Kproc] # "IOWait"
        /\ running' = Kproc
    BY <2>2, ScheduleKeeps DEF Alone, GpuTypeOK
  <2>4. running \in Procs /\ Readied(Kproc)[running] \in Runnable
    BY <2>2 DEF Alone, GpuTypeOK, HartSound, Runnable
  <2> QED BY <2>2, <2>3, <2>4 DEF WaitsForDisplay, HandlerRunnable
<1> QED BY <1>1, <1>2, <1>3, <1>4, <1>5

\* Until a user process draws, the response that kproc waits for is on its way, for
\* every number of user processes.
THEOREM AnswersAreOnTheirWay == GpuSpec => []AnswerOnItsWay
<1> DEFINE Waits == shared \/ (WaitsForDisplay /\ HandlerRunnable)
<1>1. GpuInit => Waits
    BY ProcsDistinct DEF GpuInit, WaitsForDisplay, HandlerRunnable
<1>2. GpuInv /\ Waits /\ [GpuNext]_gpuVars => Waits'
  <2> SUFFICES ASSUME GpuInv, Waits, [GpuNext]_gpuVars PROVE Waits'
    OBVIOUS
  <2>1. CASE shared \/ shared'
    BY <2>1, SharedStays
  <2>2. CASE ~shared /\ ~shared'
    <3>1. Alone /\ WaitsForDisplay /\ HandlerRunnable
      BY <2>2 DEF GpuInv
    <3>2. CASE KprocStep
      BY <3>1, <3>2, KprocStepWaits
    <3>3. ASSUME NEW u \in Users, SysSyncWindow(u) \/ Draw(u) \/ Block(u) \/ Wakeup(u) PROVE Waits'
      BY <2>2, <3>1, <3>3, UserStepWaits, UsersDoNotDraw
    <3>4. CASE Serve \/ Pending \/ Complete \/ MouseInterrupt \/ Preempt
      BY <3>1, <3>4, InterruptWaits
    <3>5. CASE UNCHANGED gpuVars
      BY <3>1, <3>5 DEF gpuVars, sched, device, WaitsForDisplay, HandlerRunnable
    <3> QED BY <3>2, <3>3, <3>4, <3>5 DEF GpuNext
  <2> QED BY <2>1, <2>2
<1>3. GpuInv /\ Waits => AnswerOnItsWay
  <2> SUFFICES ASSUME Alone, WaitsForDisplay, HandlerRunnable, state[Kproc] = "IOWait"
               PROVE  /\ pc[Kproc] = "notify" \/ (kicked /\ avail # << >>) \/ irq
                      /\ handling # Nobody => state[handling] \in {"Running", "Ready"}
    BY DEF GpuInv, AnswerOnItsWay
  <2>1. CASE pc[Kproc] # "notify"
    <3>1. InFlight
      BY <2>1 DEF WaitsForDisplay, Alone, KprocUnderway, Clean, Drained
    <3> QED BY <3>1 DEF InFlight, Offered, Served, HandlerRunnable, Runnable
  <2> QED BY <2>1 DEF HandlerRunnable, Runnable
<1> HIDE DEF Waits
<1> QED BY <1>1, <1>2, <1>3, GpuInvariant, PTL DEF GpuSpec
=============================================================================
