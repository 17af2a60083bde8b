---------------------------- MODULE StorageProofs ---------------------------
(***************************************************************************)
(* The block driver and the file system.                                   *)
(*                                                                         *)
(* VirtioBlk for every number of clients, every ring size and index width: *)
(* one operation at a time, data before return, descriptors neither shared *)
(* nor lost, rings that drain, and a semaphore nobody waits for.  The      *)
(* invariant that carries them follows one operation.  All clients but the *)
(* holder of the file system's lock are at rest, and the position of the   *)
(* holder says where its request is: not made, published, at the device,   *)
(* answered but not acknowledged, or acknowledged.                         *)
(*                                                                         *)
(* FileSystem for every set of well-formed disks and every number of       *)
(* callers: lookups find the file a path names, reads return its bytes,    *)
(* streams have no gap, and load_exe() gets whole files.  The invariant    *)
(* says how far the loops of find_file() and read_at() are along a         *)
(* directory and a chain, and whose descriptors are whose.                 *)
(***************************************************************************)
EXTENDS FileSystem, VirtioBlk, SequenceTheorems, FiniteSetTheorems, TLAPS

D == INSTANCE DeltaListProofs

Idx == 0 .. IdxModulus - 1

\* Positions of an operation, and whereabouts of the handler.
Position == {"idle", "locked", "pid", "alloc", "release", "publish", "save",
             "iowait", "notify", "call", "return"}

BlkTypeOK ==
    /\ fs_owner \in Clients \cup {Nobody}
    /\ pc \in [Clients -> Position]
    /\ chain \in [Clients -> SUBSET Desc]
    /\ result \in [Clients -> {"none", "pending", "done"}]
    /\ state \in [Procs -> {"Ready", "IOWait", "SemaWait"}]
    /\ running \in Procs
    /\ count \in Int
    /\ pid \in Procs
    /\ free_desc \in SUBSET Desc
    /\ desc_indexes \in SUBSET Desc
    /\ {ack_used_index, avail_idx, used_idx, dev_idx} \subseteq Idx
    /\ avail_ring = [i \in Desc |-> avail_ring[i]]
    /\ notified \in BOOLEAN /\ irq \in BOOLEAN

\* The driver has acknowledged all the device did, which has seen all it was offered.
Drained == ack_used_index = used_idx /\ dev_idx = avail_idx /\ ~notified /\ ~irq

\* One request, of p, is in the available ring.
Offered(p) ==
    /\ ack_used_index = used_idx /\ avail_idx = WrappingAdd(dev_idx) /\ ~irq
    /\ avail_ring[dev_idx % RingSize] = Min(chain[p])
    /\ result[p] = "pending"

\* One request, of p, was served and not acknowledged.
Served(p) == dev_idx = avail_idx /\ ~notified /\ irq /\ result[p] = "done"

\* No descriptor is taken but those of p.
Takes(p) == chain[p] # {} /\ free_desc = Desc \ chain[p]

\* Client p makes no request.
AtRest(p) == chain[p] = {} /\ result[p] = "none" /\ state[p] = "Ready"

\* Where the operation of p, the holder of the lock, is.
Preparing(p) == AtRest(p) /\ free_desc = Desc /\ Drained
Filling(p)   == Takes(p) /\ Drained /\ result[p] = "none" /\ state[p] = "Ready"
Unsent(p)    == Takes(p) /\ Offered(p) /\ ~notified
InFlight(p)  == /\ Takes(p) /\ desc_indexes = chain[p] /\ state[p] = "IOWait"
                /\ (Offered(p) /\ notified) \/ Served(p)
Answered(p)  == free_desc = Desc /\ Drained /\ result[p] = "done" /\ state[p] = "Ready"

Underway(p) ==
    /\ pc[p] # "idle"
    /\ pc[p] \in {"locked", "pid", "alloc"} => Preparing(p)
    /\ pc[p] \in {"release", "publish"} => Filling(p)
    /\ pc[p] = "save" => Unsent(p) /\ state[p] = "Ready"
    /\ pc[p] = "iowait" => Unsent(p) /\ desc_indexes = chain[p] /\ state[p] = "Ready"
    /\ pc[p] = "notify" => Unsent(p) /\ desc_indexes = chain[p] /\ state[p] = "IOWait"
    /\ pc[p] \in {"call", "return"} => InFlight(p) \/ Answered(p)
    /\ pc[p] \notin {"locked", "pid"} => pid = p

\* The file system's lock: its holder is under way, everyone else at rest.
OneUnderway ==
    /\ \A p \in Clients \ {fs_owner} : pc[p] = "idle" /\ AtRest(p)
    /\ state[Null] = "Ready"
    /\ fs_owner = Nobody => free_desc = Desc /\ Drained
    /\ \A p \in Clients : fs_owner = p => Underway(p)

\* Between wait_semaphore() and signal_semaphore() the count may be zero.
Holding(p) == pc[p] \in {"pid", "alloc", "release"}

CountPositive ==
    /\ queue = << >>
    /\ count >= 0
    /\ (\A p \in Clients : ~Holding(p)) => count >= 1

\* Only a driver on its way from io_wait() to schedule() is on the hart and blocked.
HartSound ==
    state[running] = "Ready" \/ (running \in Clients /\ pc[running] \in {"notify", "call"})

BlkInv == BlkTypeOK /\ OneUnderway /\ CountPositive /\ HartSound

-----------------------------------------------------------------------------
(***************************************************************************)
(* Ring indices and descriptors.                                           *)
(***************************************************************************)

\* An index of a ring has a place in it.
LEMMA SlotInRing == ASSUME NEW i \in Idx PROVE i % RingSize \in Desc
BY RingAssumption, IdxAssumption DEF Idx, Desc

\* There is room for more than one request between two turns of an index.
LEMMA ModulusAtLeastThree == IdxModulus >= 3
<1> SUFFICES ASSUME IdxModulus < 3 PROVE FALSE
    BY IdxAssumption
<1>1. IdxModulus % RingSize = IdxModulus
    BY RingAssumption, IdxAssumption
<1> QED BY <1>1, IdxAssumption

\* The next index is an index, and another one.
LEMMA NextIndex ==
    ASSUME NEW i \in Idx PROVE WrappingAdd(i) \in Idx /\ WrappingAdd(i) # i
<1>1. CASE i + 1 < IdxModulus
  <2>1. (i + 1) % IdxModulus = i + 1
    BY <1>1, IdxAssumption DEF Idx
  <2> QED BY <2>1, <1>1, IdxAssumption DEF WrappingAdd, Idx
<1>2. CASE i + 1 = IdxModulus
  <2>1. (i + 1) % IdxModulus = 0
    BY <1>2, IdxAssumption DEF Idx
  <2> QED BY <2>1, <1>2, ModulusAtLeastThree, IdxAssumption DEF WrappingAdd, Idx
<1> QED BY <1>1, <1>2, IdxAssumption DEF Idx

\* With all descriptors free three can be taken, and something is.
LEMMA AllFree ==
    ASSUME free_desc = Desc
    PROVE  Cardinality(free_desc) >= 3 /\ Lowest(3) # {} /\ Lowest(3) \subseteq Desc
<1>1. Cardinality(Desc) = RingSize
    BY RingAssumption, FS_Interval DEF Desc
<1>2. 0 \in Lowest(3)
  <2>1. {e \in free_desc : e < 0} = {}
    BY RingAssumption DEF Desc
  <2>2. Cardinality({e \in free_desc : e < 0}) = 0
    BY <2>1, FS_EmptySet
  <2> QED BY <2>2, RingAssumption DEF Lowest, Desc
<1> QED BY <1>1, <1>2, RingAssumption DEF Lowest

-----------------------------------------------------------------------------
LEMMA InitHolds == BlkInit => BlkInv
<1> SUFFICES ASSUME BlkInit PROVE BlkInv
    OBVIOUS
<1> USE DEF BlkInit
<1>1. BlkTypeOK
  <2>1. 0 \in Idx
    BY IdxAssumption DEF Idx
  <2>2. notified \in BOOLEAN /\ irq \in BOOLEAN
    OBVIOUS
  <2>3. avail_ring = [i \in Desc |-> avail_ring[i]]
    OBVIOUS
  <2> QED BY <2>1, <2>2, <2>3 DEF BlkTypeOK, Position, Procs
<1>2. OneUnderway
    BY ClientsAssumption DEF OneUnderway, AtRest, Drained, Procs
<1>3. CountPositive /\ HartSound
    BY DEF CountPositive, HartSound, Procs
<1> QED BY <1>1, <1>2, <1>3 DEF BlkInv

\* A client that is not idle holds the lock, and is under way.
LEMMA AtImpliesOwner ==
    ASSUME BlkInv, NEW p \in Clients, pc[p] # "idle"
    PROVE  fs_owner = p /\ Underway(p)
BY DEF BlkInv, OneUnderway

LEMMA LockPreserves ==
    ASSUME BlkInv, NEW p \in Clients, Lock(p) PROVE BlkInv'
<1> USE DEF Lock, At, Goto, client, sched, semaphore, driver, availRing, dev, handler
<1>1. BlkTypeOK'
    BY DEF BlkInv, BlkTypeOK, Position
<1>2. OneUnderway'
    BY ClientsAssumption
       DEF BlkInv, BlkTypeOK, OneUnderway, AtRest, Underway, Preparing, Drained
<1>3. CountPositive' /\ HartSound'
    BY DEF BlkInv, BlkTypeOK, CountPositive, Holding, HartSound
<1> QED BY <1>1, <1>2, <1>3 DEF BlkInv

LEMMA UnlockPreserves ==
    ASSUME BlkInv, NEW p \in Clients, Unlock(p) PROVE BlkInv'
<1> USE DEF Unlock, At, Goto, client, sched, semaphore, driver, availRing, dev, handler
<1>0. fs_owner = p /\ Underway(p)
    BY AtImpliesOwner
<1>1. BlkTypeOK'
    BY DEF BlkInv, BlkTypeOK, Position
<1>2. OneUnderway'
    BY <1>0, ClientsAssumption
       DEF BlkInv, BlkTypeOK, OneUnderway, AtRest, Underway, Preparing, Drained
<1>3. CountPositive' /\ HartSound'
    BY DEF BlkInv, BlkTypeOK, CountPositive, Holding, HartSound
<1> QED BY <1>1, <1>2, <1>3 DEF BlkInv

\* The semaphore is free: the caller does not wait.
LEMMA WaitSemaPreserves ==
    ASSUME BlkInv, NEW p \in Clients, WaitSema(p) PROVE BlkInv'
<1> USE DEF At, Goto, client, sched, semaphore, driver, availRing, dev, handler
<1>0. fs_owner = p /\ Underway(p) /\ pc[p] = "locked"
    BY AtImpliesOwner DEF WaitSema
<1>1. count >= 1 /\ count \in Int
  <2>1. \A q \in Clients : ~Holding(q)
    BY <1>0 DEF BlkInv, OneUnderway, Holding
  <2> QED BY <2>1 DEF BlkInv, BlkTypeOK, CountPositive
<1>2. /\ count' = count - 1 /\ count' >= 0 /\ count' \in Int
      /\ UNCHANGED <<queue, state, running>>
    BY <1>1 DEF WaitSema, BlkInv, BlkTypeOK
<1>3. BlkTypeOK'
    BY <1>2 DEF WaitSema, BlkInv, BlkTypeOK, Position
<1>4. OneUnderway'
    BY <1>0, <1>2 DEF WaitSema, BlkInv, BlkTypeOK, OneUnderway, AtRest, Underway, Preparing, Drained
<1>5. CountPositive'
  <2>1. Holding(p)'
    BY DEF WaitSema, Holding, BlkInv, BlkTypeOK
  <2> QED BY <1>2, <2>1 DEF BlkInv, CountPositive
<1>6. HartSound'
    BY <1>0, <1>2 DEF WaitSema, BlkInv, BlkTypeOK, HartSound
<1> QED BY <1>3, <1>4, <1>5, <1>6 DEF BlkInv

LEMMA SetPidPreserves ==
    ASSUME BlkInv, NEW p \in Clients, SetPid(p) PROVE BlkInv'
<1> USE DEF SetPid, At, Goto, client, sched, semaphore, driver, availRing, dev, handler
<1>0. fs_owner = p /\ Underway(p)
    BY AtImpliesOwner
<1>1. BlkTypeOK'
    BY DEF BlkInv, BlkTypeOK, Position, Procs
<1>2. OneUnderway'
    BY <1>0 DEF BlkInv, BlkTypeOK, OneUnderway, AtRest, Underway, Preparing, Drained
<1>3. CountPositive' /\ HartSound'
    BY DEF BlkInv, BlkTypeOK, CountPositive, Holding, HartSound
<1> QED BY <1>1, <1>2, <1>3 DEF BlkInv

LEMMA AllocDescPreserves ==
    ASSUME BlkInv, NEW p \in Clients, AllocDesc(p) PROVE BlkInv'
<1> USE DEF AllocDesc, At, Goto, client, sched, semaphore, driver, availRing, dev, handler
<1>0. fs_owner = p /\ Underway(p)
    BY AtImpliesOwner
<1>1. Lowest(3) # {} /\ Lowest(3) \subseteq Desc
    BY <1>0, AllFree DEF Underway, Preparing
<1>2. BlkTypeOK'
    BY <1>1 DEF BlkInv, BlkTypeOK, Position
<1>3. Filling(p)' /\ pc'[p] = "release" /\ pid' = p
    BY <1>0, <1>1 DEF BlkInv, BlkTypeOK, AtRest, Underway, Preparing, Filling, Takes, Drained
<1>4. OneUnderway'
    BY <1>0, <1>3, ClientsAssumption DEF BlkInv, BlkTypeOK, OneUnderway, AtRest, Underway
<1>5. CountPositive' /\ HartSound'
    BY DEF BlkInv, BlkTypeOK, CountPositive, Holding, HartSound
<1> QED BY <1>2, <1>4, <1>5 DEF BlkInv

\* Nobody waits for the semaphore: a signal only counts.
LEMMA SignalOnlyCounts ==
    ASSUME BlkInv, SignalSema
    PROVE  count' = count + 1 /\ UNCHANGED <<queue, state, running>>
BY DEF BlkInv, BlkTypeOK, CountPositive, SignalSema

LEMMA ReleasePreserves ==
    ASSUME BlkInv, NEW p \in Clients, Release(p) PROVE BlkInv'
<1> USE DEF Release, At, Goto, client, sched, semaphore, driver, availRing, dev, handler
<1>0. fs_owner = p /\ Underway(p)
    BY AtImpliesOwner
<1>1. count' = count + 1 /\ UNCHANGED <<queue, state, running>>
    BY SignalOnlyCounts
<1>2. BlkTypeOK'
    BY <1>1 DEF BlkInv, BlkTypeOK, Position
<1>3. OneUnderway'
    BY <1>0, <1>1 DEF BlkInv, BlkTypeOK, OneUnderway, AtRest, Underway, Filling, Takes, Drained
<1>4. CountPositive' /\ HartSound'
    BY <1>1 DEF BlkInv, BlkTypeOK, CountPositive, Holding, HartSound
<1> QED BY <1>2, <1>3, <1>4 DEF BlkInv

LEMMA PublishPreserves ==
    ASSUME BlkInv, NEW p \in Clients, Publish(p) PROVE BlkInv'
<1> USE DEF Publish, At, Goto, client, sched, semaphore, driver, availRing, dev, handler
<1>0. fs_owner = p /\ Underway(p)
    BY AtImpliesOwner
<1>1. avail_idx % RingSize \in Desc /\ avail_idx' \in Idx
    BY SlotInRing, NextIndex DEF BlkInv, BlkTypeOK
<1>2. BlkTypeOK'
    BY <1>1 DEF BlkInv, BlkTypeOK, Position
<1>3. Offered(p)'
    BY <1>0, <1>1 DEF BlkInv, BlkTypeOK, Underway, Filling, Drained, Offered
<1>4. OneUnderway'
    BY <1>0, <1>3 DEF BlkInv, BlkTypeOK, OneUnderway, AtRest, Underway, Filling, Unsent, Takes, Drained
<1>5. CountPositive' /\ HartSound'
    BY DEF BlkInv, BlkTypeOK, CountPositive, Holding, HartSound
<1> QED BY <1>2, <1>4, <1>5 DEF BlkInv

LEMMA SaveIndexesPreserves ==
    ASSUME BlkInv, NEW p \in Clients, SaveIndexes(p) PROVE BlkInv'
<1> USE DEF SaveIndexes, At, Goto, client, sched, semaphore, driver, availRing, dev, handler
<1>0. fs_owner = p /\ Underway(p)
    BY AtImpliesOwner
<1>1. BlkTypeOK'
    BY DEF BlkInv, BlkTypeOK, Position
<1>2. OneUnderway'
    BY <1>0 DEF BlkInv, BlkTypeOK, OneUnderway, AtRest, Underway, Unsent, Offered, Takes
<1>3. CountPositive' /\ HartSound'
    BY DEF BlkInv, BlkTypeOK, CountPositive, Holding, HartSound
<1> QED BY <1>1, <1>2, <1>3 DEF BlkInv

LEMMA IoWaitPreserves ==
    ASSUME BlkInv, NEW p \in Clients, IoWait(p) PROVE BlkInv'
<1> USE DEF IoWait, At, Goto, client, sched, semaphore, driver, availRing, dev, handler
<1>0. fs_owner = p /\ Underway(p) /\ pid = p
    BY AtImpliesOwner DEF Underway
<1>1. BlkTypeOK'
    BY DEF BlkInv, BlkTypeOK, Position
<1>2. OneUnderway'
    BY <1>0, ClientsAssumption
       DEF BlkInv, BlkTypeOK, OneUnderway, AtRest, Underway, Unsent, Offered, Takes, Procs
<1>3. CountPositive' /\ HartSound'
    BY DEF BlkInv, BlkTypeOK, CountPositive, Holding, HartSound
<1> QED BY <1>1, <1>2, <1>3 DEF BlkInv

LEMMA NotifyDevicePreserves ==
    ASSUME BlkInv, NEW p \in Clients, NotifyDevice(p) PROVE BlkInv'
<1> USE DEF NotifyDevice, At, Goto, client, sched, semaphore, driver, availRing, dev, handler
<1>0. fs_owner = p /\ Underway(p)
    BY AtImpliesOwner
<1>1. BlkTypeOK'
    BY DEF BlkInv, BlkTypeOK, Position
<1>2. OneUnderway'
    BY <1>0 DEF BlkInv, BlkTypeOK, OneUnderway, AtRest, Underway, Unsent, InFlight, Offered, Takes
<1>3. CountPositive' /\ HartSound'
    BY DEF BlkInv, BlkTypeOK, CountPositive, Holding, HartSound
<1> QED BY <1>1, <1>2, <1>3 DEF BlkInv

LEMMA CallSchedulePreserves ==
    ASSUME BlkInv, NEW p \in Clients, CallSchedule(p) PROVE BlkInv'
<1> USE DEF CallSchedule, At, Goto, client, sched, semaphore, driver, availRing, dev, handler
<1>0. fs_owner = p /\ Underway(p)
    BY AtImpliesOwner
<1>1. BlkTypeOK'
    BY DEF BlkInv, BlkTypeOK, Position, Runnable
<1>2. OneUnderway'
    BY <1>0 DEF BlkInv, BlkTypeOK, OneUnderway, AtRest, Underway, InFlight, Answered, Offered, Served,
                Takes, Drained
<1>3. CountPositive' /\ HartSound'
    BY DEF BlkInv, BlkTypeOK, CountPositive, Holding, HartSound, Runnable
<1> QED BY <1>1, <1>2, <1>3 DEF BlkInv

\* Who returns is Ready, and so its request was answered and acknowledged.
LEMMA ReturnPreserves ==
    ASSUME BlkInv, NEW p \in Clients, Return(p) PROVE BlkInv'
<1> USE DEF Return, At, Goto, client, sched, semaphore, driver, availRing, dev, handler
<1>0. fs_owner = p /\ Underway(p)
    BY AtImpliesOwner
<1>1. Answered(p)
    BY <1>0 DEF BlkInv, HartSound, Underway, InFlight
<1>2. BlkTypeOK'
    BY DEF BlkInv, BlkTypeOK, Position
<1>3. OneUnderway'
    BY <1>0, <1>1 DEF BlkInv, BlkTypeOK, OneUnderway, AtRest, Underway, Preparing, Answered, Drained
<1>4. CountPositive' /\ HartSound'
    BY DEF BlkInv, BlkTypeOK, CountPositive, Holding, HartSound
<1> QED BY <1>2, <1>3, <1>4 DEF BlkInv

-----------------------------------------------------------------------------
\* The request that is at the device when it serves one.
LEMMA DeviceHasRequest ==
    ASSUME BlkInv, notified \/ irq
    PROVE  \E p \in Clients : fs_owner = p /\ Underway(p) /\ InFlight(p) /\ pid = p /\ pc[p] \in {"call", "return"}
<1>1. fs_owner # Nobody
    BY DEF BlkInv, OneUnderway, Drained
<1>2. PICK p \in Clients : fs_owner = p /\ Underway(p)
    BY <1>1 DEF BlkInv, BlkTypeOK, OneUnderway
<1>3. pc[p] \in {"call", "return"}
    BY <1>2 DEF BlkInv, BlkTypeOK, Position, Underway, Preparing, Filling, Unsent, Offered, Drained
<1>4. InFlight(p)
    BY <1>2, <1>3 DEF Underway, Answered, Drained
<1> QED BY <1>2, <1>3, <1>4 DEF Underway

LEMMA ServePreserves == ASSUME BlkInv, Serve PROVE BlkInv'
<1> USE DEF Serve, client, sched, semaphore, driver, availRing, dev, handler
<1>1. PICK p \in Clients : fs_owner = p /\ Underway(p) /\ InFlight(p) /\ pid = p /\ pc[p] \in {"call", "return"}
    BY DeviceHasRequest
<1>2. Offered(p) /\ state[p] = "IOWait" /\ Takes(p)
    BY <1>1 DEF InFlight, Served
<1>3. dev_idx' = avail_idx /\ dev_idx' \in Idx /\ used_idx' \in Idx
    BY <1>2, NextIndex DEF Offered, WrappingAdd, BlkInv, BlkTypeOK
<1>4. BlkTypeOK'
  <2>1. notified' \in BOOLEAN /\ result' \in [Clients -> {"none", "pending", "done"}]
    BY DEF BlkInv, BlkTypeOK
  <2> QED BY <1>3, <2>1 DEF BlkInv, BlkTypeOK
<1>5. Served(p)' /\ \A q \in Clients \ {p} : result'[q] = result[q]
    BY <1>1, <1>2, <1>3 DEF Served, Offered, WrappingAdd, BlkInv, BlkTypeOK, OneUnderway, AtRest
<1>6. Underway(p)'
    BY <1>1, <1>2, <1>5 DEF Underway, InFlight, Takes
<1>7. OneUnderway'
    BY <1>1, <1>5, <1>6, ClientsAssumption DEF BlkInv, OneUnderway, AtRest
<1>8. CountPositive' /\ HartSound'
    BY DEF BlkInv, CountPositive, Holding, HartSound
<1> QED BY <1>4, <1>7, <1>8 DEF BlkInv

\* The interrupt finds the request answered, and readies the process that waits.
LEMMA PendingPreserves == ASSUME BlkInv, Pending PROVE BlkInv'
<1> USE DEF Pending, client, sched, semaphore, driver, availRing, dev, handler
<1>1. PICK p \in Clients : fs_owner = p /\ Underway(p) /\ InFlight(p) /\ pid = p /\ pc[p] \in {"call", "return"}
    BY DeviceHasRequest
<1>2. Served(p) /\ Takes(p) /\ desc_indexes = chain[p] /\ state[p] = "IOWait"
    BY <1>1 DEF InFlight, Offered
<1>3. state' = [state EXCEPT ![p] = "Ready"] /\ running' \in Runnable(state')
    BY <1>1, <1>2 DEF StatesAfterReady
<1>4. free_desc' = Desc
    BY <1>2 DEF Takes, BlkInv, BlkTypeOK
<1>5. BlkTypeOK'
    BY <1>3, <1>4 DEF BlkInv, BlkTypeOK, Runnable
<1>6. Answered(p)'
    BY <1>2, <1>3, <1>4 DEF Answered, Served, Drained, BlkInv, BlkTypeOK, Procs
<1>7. Underway(p)'
    BY <1>1, <1>6 DEF Underway
<1>8. OneUnderway'
    BY <1>1, <1>3, <1>7, ClientsAssumption DEF BlkInv, BlkTypeOK, OneUnderway, AtRest, Procs
<1>9. CountPositive' /\ HartSound'
    BY <1>3 DEF BlkInv, CountPositive, Holding, HartSound, Runnable
<1> QED BY <1>5, <1>8, <1>9 DEF BlkInv

LEMMA HandlerSignalPreserves == ASSUME BlkInv, HandlerSignal PROVE BlkInv'
<1> USE DEF HandlerSignal, client, sched, semaphore, driver, availRing, dev, handler
<1>1. count' = count + 1 /\ UNCHANGED <<queue, state, running>>
    BY SignalOnlyCounts
<1>2. BlkTypeOK'
    BY <1>1 DEF BlkInv, BlkTypeOK
<1>3. OneUnderway'
    BY <1>1 DEF BlkInv, OneUnderway, AtRest, Underway, Preparing, Filling, Unsent, InFlight, Answered,
                Offered, Served, Takes, Drained
<1>4. CountPositive' /\ HartSound'
    BY <1>1 DEF BlkInv, BlkTypeOK, CountPositive, Holding, HartSound
<1> QED BY <1>2, <1>3, <1>4 DEF BlkInv

\* A step that changes at most the process on the hart, to one that is Ready, and the handler.
LEMMA SwitchPreserves ==
    ASSUME BlkInv, running' \in Runnable(state) \cup {running},
           UNCHANGED <<client, pc, state, semaphore, driver, availRing, dev>>
    PROVE  BlkInv'
<1> USE DEF client, semaphore, driver, availRing, dev
<1>1. BlkTypeOK'
    BY DEF BlkInv, BlkTypeOK, Runnable
<1>2. OneUnderway'
    BY DEF BlkInv, OneUnderway, AtRest, Underway, Preparing, Filling, Unsent, InFlight, Answered,
           Offered, Served, Takes, Drained
<1>3. CountPositive' /\ HartSound'
    BY DEF BlkInv, CountPositive, Holding, HartSound, Runnable
<1> QED BY <1>1, <1>2, <1>3 DEF BlkInv

\* The inductive invariant holds in every behaviour of the driver.
THEOREM BlkInvariant == BlkSpec => []BlkInv
<1>1. BlkInit => BlkInv
    BY InitHolds
<1>2. BlkInv /\ [BlkNext]_blkVars => BlkInv'
  <2> SUFFICES ASSUME BlkInv, [BlkNext]_blkVars PROVE BlkInv'
    OBVIOUS
  <2>1. ASSUME NEW p \in Clients, Lock(p) \/ Unlock(p) \/ BlockOp(p) PROVE BlkInv'
    BY <2>1, LockPreserves, UnlockPreserves, WaitSemaPreserves, SetPidPreserves, AllocDescPreserves,
       ReleasePreserves, PublishPreserves, SaveIndexesPreserves, IoWaitPreserves, NotifyDevicePreserves,
       CallSchedulePreserves, ReturnPreserves DEF BlockOp
  <2>2. CASE Serve \/ Pending \/ HandlerSignal
    BY <2>2, ServePreserves, PendingPreserves, HandlerSignalPreserves
  <2>3. CASE Complete
    BY <2>3, SwitchPreserves DEF Complete, sched
  <2>4. CASE Preempt
    BY <2>4, SwitchPreserves DEF Preempt
  <2>5. CASE UNCHANGED blkVars
    BY <2>5, SwitchPreserves DEF blkVars, sched
  <2> QED BY <2>1, <2>2, <2>3, <2>4, <2>5 DEF BlkNext
<1> QED BY <1>1, <1>2, PTL DEF BlkSpec

-----------------------------------------------------------------------------
(***************************************************************************)
(* The properties of VirtioBlk.                                            *)
(***************************************************************************)

\* A client in block_op() is the one whose pid the driver has.
THEOREM OneOperation == BlkSpec => []OneOperationInDriver
<1>1. BlkInv => OneOperationInDriver
    BY DEF BlkInv, OneUnderway, OneOperationInDriver, InDriver, Underway
<1> QED BY <1>1, BlkInvariant, PTL

\* block_op() returns only after the device has served its request.
THEOREM DataArrivesFirst == BlkSpec => []DataBeforeReturn
<1>1. BlkInv => DataBeforeReturn
    BY DEF BlkInv, OneUnderway, DataBeforeReturn, Underway, InFlight, Answered
<1> QED BY <1>1, BlkInvariant, PTL

\* The descriptors of a request in flight are not given to another request.
THEOREM DescriptorsNotShared == BlkSpec => []InFlightNotFree
<1>1. BlkInv => InFlightNotFree
  <2> SUFFICES ASSUME BlkInv, NEW p \in Clients, result[p] = "pending"
               PROVE  chain[p] # {} /\ chain[p] \cap free_desc = {}
    BY DEF InFlightNotFree
  <2>1. fs_owner = p /\ Underway(p)
    BY DEF BlkInv, OneUnderway, AtRest
  <2>2. Takes(p)
    BY <2>1 DEF Underway, Preparing, AtRest, Filling, Unsent, InFlight, Answered, BlkInv, BlkTypeOK, Position
  <2> QED BY <2>2 DEF Takes
<1> QED BY <1>1, BlkInvariant, PTL

\* find_free_desc() never runs out of descriptors.
THEOREM DescriptorsNeverExhausted == BlkSpec => []DescriptorsSuffice
<1>1. BlkInv => DescriptorsSuffice
    BY AllFree DEF BlkInv, OneUnderway, DescriptorsSuffice, Underway, Preparing
<1> QED BY <1>1, BlkInvariant, PTL

\* With no request under way both rings are drained, across every wrap of the indices.
THEOREM RingsDrain == BlkSpec => []RingsDrained
<1>1. BlkInv => RingsDrained
    BY DEF BlkInv, BlkTypeOK, OneUnderway, RingsDrained, Underway, Preparing, Drained
<1> QED BY <1>1, BlkInvariant, PTL

\* Nobody ever waits for the driver's semaphore.
THEOREM SemaphoreNeverWaits == BlkSpec => []SemaphoreUncontended
<1>1. BlkInv => SemaphoreUncontended
    BY DEF BlkInv, CountPositive, SemaphoreUncontended
<1> QED BY <1>1, BlkInvariant, PTL

-----------------------------------------------------------------------------
(***************************************************************************)
(* Numbers.                                                                *)
(***************************************************************************)

LEMMA ModIn ==
    ASSUME NEW M \in Nat \ {0}, NEW x \in Int
    PROVE  x % M \in 0 .. M - 1
OBVIOUS

LEMMA DivMod ==
    ASSUME NEW M \in Nat \ {0}, NEW x \in Int
    PROVE  x \div M \in Int /\ x = M * (x \div M) + (x % M)
OBVIOUS

LEMMA DivNatural ==
    ASSUME NEW M \in Nat \ {0}, NEW x \in Nat
    PROVE  x \div M \in Nat
OBVIOUS

LEMMA ModBelow ==
    ASSUME NEW M \in Nat \ {0}, NEW x \in 0 .. M - 1
    PROVE  x % M = x /\ x \div M = 0
OBVIOUS

\* A number has one quotient and one remainder.
LEMMA Quotient ==
    ASSUME NEW M \in Nat \ {0}, NEW q \in Int, NEW r \in 0 .. M - 1, NEW x \in Int, x = M * q + r
    PROVE  x \div M = q /\ x % M = r
<1> DEFINE d == x \div M
<1> DEFINE s == x % M
<1>1. d \in Int /\ x = M * d + s
  BY DivMod
<1>2. s \in 0 .. M - 1
  BY ModIn
<1> HIDE DEF d, s
<1> DEFINE k == q - d
<1>3. k \in Int /\ M * k = s - r
  BY <1>1, <1>2
<1>4. -M < M * k /\ M * k < M
  BY <1>2, <1>3
<1>5. k = 0
  <2> HIDE DEF k
  <2>1. CASE k >= 1
    <3>1. M * k >= M
      BY <2>1, <1>3
    <3> QED BY <3>1, <1>4, <1>3
  <2>2. CASE k <= -1
    <3>1. M * k <= -M
      BY <2>2, <1>3
    <3> QED BY <3>1, <1>4, <1>3
  <2> QED BY <2>1, <2>2, <1>3
<1>6. q = d /\ r = s
  BY <1>1, <1>2, <1>3, <1>5
<1> QED BY <1>6 DEF d, s

\* A number below a multiple has a quotient below the factor.
LEMMA QuotientBelow ==
    ASSUME NEW M \in Nat \ {0}, NEW k \in Nat, NEW x \in Nat, x < k * M
    PROVE  x \div M \in 0 .. k - 1
<1> DEFINE d == x \div M
<1>1. d \in Nat /\ x = M * d + (x % M) /\ x % M >= 0
  BY DivMod, DivNatural, ModIn
<1> HIDE DEF d
<1>2. CASE d >= k
  <2>1. M * d >= M * k
    BY <1>1, <1>2
  <2>2. M * k = k * M
    OBVIOUS
  <2> QED BY <1>1, <2>1, <2>2
<1> QED BY <1>1, <1>2 DEF d

LEMMA LeastOfTwo ==
    ASSUME NEW a \in Int, NEW b \in Int
    PROVE  Min({a, b}) = IF a <= b THEN a ELSE b
BY DEF Min

-----------------------------------------------------------------------------
(***************************************************************************)
(* Sequences of anything.                                                  *)
(***************************************************************************)

IsSeq(s) == \E S : s \in Seq(S)

\* A function on 1 .. n is a sequence.
LEMMA FunctionIsSeq ==
    ASSUME NEW s, NEW n \in Nat, s = [i \in 1 .. n |-> s[i]]
    PROVE  IsSeq(s) /\ Len(s) = n
<1> DEFINE S == {s[i] : i \in 1 .. n}
<1>1. s \in [1 .. n -> S]
  OBVIOUS
<1>2. s \in Seq(S)
  BY <1>1, SeqDef
<1>3. Len(s) = n
  BY <1>1, <1>2, LenProperties
<1> QED BY <1>2, <1>3 DEF IsSeq

LEMMA SeqFacts ==
    ASSUME NEW s, IsSeq(s)
    PROVE  Len(s) \in Nat /\ DOMAIN s = 1 .. Len(s) /\ s = [i \in 1 .. Len(s) |-> s[i]]
<1>1. PICK S : s \in Seq(S)
  BY DEF IsSeq
<1> QED BY <1>1, LenProperties

\* Two sequences, one after the other.
Joined(r, s, t) ==
    /\ IsSeq(r) /\ Len(r) = Len(s) + Len(t)
    /\ \A i \in 1 .. Len(s) : r[i] = s[i]
    /\ \A i \in 1 .. Len(t) : r[Len(s) + i] = t[i]

LEMMA ConcatJoins ==
    ASSUME NEW s, NEW t, IsSeq(s), IsSeq(t)
    PROVE  Joined(s \o t, s, t)
<1>1. PICK S : s \in Seq(S)
  BY DEF IsSeq
<1>2. PICK T : t \in Seq(T)
  BY DEF IsSeq
<1> DEFINE U == S \cup T
<1>3. s \in Seq(U) /\ t \in Seq(U)
  <2>1. S \subseteq U /\ T \subseteq U
    OBVIOUS
  <2> HIDE DEF U
  <2> QED BY <2>1, <1>1, <1>2, SeqMonotonic
<1> HIDE DEF U
<1>4. /\ s \o t \in Seq(U)
      /\ Len(s \o t) = Len(s) + Len(t)
      /\ \A i \in 1 .. Len(s) + Len(t) : (s \o t)[i] = IF i <= Len(s) THEN s[i] ELSE t[i - Len(s)]
  BY <1>3, ConcatProperties
<1>5. Len(s) \in Nat /\ Len(t) \in Nat
  BY SeqFacts
<1>6. ASSUME NEW i \in 1 .. Len(s) PROVE (s \o t)[i] = s[i]
  <2>1. i \in 1 .. Len(s) + Len(t) /\ i <= Len(s)
    BY <1>5
  <2> QED BY <2>1, <1>4
<1>7. ASSUME NEW i \in 1 .. Len(t) PROVE (s \o t)[Len(s) + i] = t[i]
  <2>1. Len(s) + i \in 1 .. Len(s) + Len(t) /\ ~(Len(s) + i <= Len(s)) /\ (Len(s) + i) - Len(s) = i
    BY <1>5
  <2> QED BY <2>1, <1>4
<1>8. IsSeq(s \o t)
  BY <1>4 DEF IsSeq
<1> QED BY <1>4, <1>6, <1>7, <1>8 DEF Joined

\* Sequences with the same elements are equal.
LEMMA SameSeq ==
    ASSUME NEW s, NEW t, IsSeq(s), IsSeq(t), Len(s) = Len(t), \A i \in 1 .. Len(s) : s[i] = t[i]
    PROVE  s = t
<1>1. s = [i \in 1 .. Len(s) |-> s[i]] /\ t = [i \in 1 .. Len(t) |-> t[i]]
  BY SeqFacts
<1> QED BY <1>1

\* A stretch of a sequence: n elements of c after the first m, or as many as there are.
Stretch(s, c, m, n) ==
    /\ IsSeq(s)
    /\ Len(s) = IF m + n <= Len(c) THEN n ELSE IF m <= Len(c) THEN Len(c) - m ELSE 0
    /\ \A i \in 1 .. Len(s) : s[i] = c[m + i]

LEMMA SubSeqStretch ==
    ASSUME NEW c, IsSeq(c), NEW m \in Nat, NEW n \in Nat
    PROVE  Stretch(SubSeq(c, m + 1, Min({m + n, Len(c)})), c, m, n)
<1> DEFINE e == Min({m + n, Len(c)})
<1> DEFINE r == SubSeq(c, m + 1, e)
<1>1. PICK S : c \in Seq(S)
  BY DEF IsSeq
<1>2. Len(c) \in Nat /\ c \in [1 .. Len(c) -> S]
  BY <1>1, LenProperties
<1>3. e = (IF m + n <= Len(c) THEN m + n ELSE Len(c))
  BY <1>2, LeastOfTwo
<1> HIDE DEF e
<1> DEFINE l == Len(c)
<1>10. l \in Nat
  BY <1>2
<1> HIDE DEF l
<1>11. (m + n <= l /\ e = m + n) \/ (~(m + n <= l) /\ e = l)
  BY <1>3 DEF l
<1>4. e \in Int /\ m + 1 \in Int /\ e <= Len(c)
  <2>1. e \in Int /\ e <= l
    BY <1>10, <1>11
  <2> QED BY <2>1 DEF l
<1>5. \A i \in m + 1 .. e : c[i] \in S
  BY <1>2, <1>4
<1>6. /\ r \in Seq(S)
      /\ Len(r) = IF m + 1 <= e THEN e - (m + 1) + 1 ELSE 0
      /\ \A i \in 1 .. e - (m + 1) + 1 : r[i] = c[(m + 1) + i - 1]
  BY <1>4, <1>5, SubSeqProperties
<1> HIDE DEF r
<1>7. Len(r) = IF m + n <= Len(c) THEN n ELSE IF m <= Len(c) THEN Len(c) - m ELSE 0
  <2>1. (m + 1 <= e /\ Len(r) = e - m) \/ (~(m + 1 <= e) /\ Len(r) = 0)
    BY <1>4, <1>6
  <2>2. CASE m + n <= l
    <3>1. e = m + n
      BY <2>2, <1>11
    <3>2. Len(r) = n
      BY <3>1, <2>1
    <3> QED BY <3>2, <2>2 DEF l
  <2>3. CASE ~(m + n <= l)
    <3>1. e = l
      BY <2>3, <1>11
    <3>2. Len(r) = IF m <= l THEN l - m ELSE 0
      BY <3>1, <2>1, <1>10
    <3> QED BY <3>2, <2>3 DEF l
  <2> QED BY <2>2, <2>3
<1>8. ASSUME NEW i \in 1 .. Len(r) PROVE r[i] = c[m + i]
  <2>1. i \in 1 .. e - (m + 1) + 1 /\ (m + 1) + i - 1 = m + i
    BY <1>4, <1>6
  <2> QED BY <2>1, <1>6
<1>9. Stretch(r, c, m, n)
  BY <1>6, <1>7, <1>8 DEF Stretch, IsSeq
<1> QED BY <1>9 DEF r, e

LEMMA StretchUnique ==
    ASSUME NEW s, NEW t, NEW c, NEW m, NEW n, Stretch(s, c, m, n), Stretch(t, c, m, n)
    PROVE  s = t
<1>1. IsSeq(s) /\ IsSeq(t) /\ Len(s) = Len(t)
  BY DEF Stretch
<1>2. \A i \in 1 .. Len(s) : s[i] = t[i]
  BY <1>1 DEF Stretch
<1> QED BY <1>1, <1>2, SameSeq

-----------------------------------------------------------------------------
(***************************************************************************)
(* Paths.                                                                  *)
(***************************************************************************)

\* The names so far, and the next part of the path.
NamesAnd(names, part) == IF part = "" THEN names ELSE Append(names, part)

\* f has the names of each part of a path.
Collects(f, path, n) ==
    /\ f = [i \in 0 .. n |-> f[i]]
    /\ f[0] = << >>
    /\ \A i \in 1 .. n : f[i] = NamesAnd(f[i - 1], path[i])

LEMMA CollectsExists ==
    ASSUME NEW path, NEW m \in Nat
    PROVE  \E f : Collects(f, path, m)
<1> DEFINE S == {n \in Nat : \E f : Collects(f, path, n)}
<1>1. 0 \in S
  <2>1. Collects([i \in 0 .. 0 |-> << >>], path, 0)
    BY DEF Collects
  <2> QED BY <2>1
<1>2. ASSUME NEW n \in S PROVE n + 1 \in S
  <2>1. n \in Nat /\ n + 1 \in Nat
    OBVIOUS
  <2>2. PICK f : Collects(f, path, n)
    OBVIOUS
  <2> DEFINE last == NamesAnd(f[n], path[(n + 1)])
  <2> DEFINE g == [i \in 0 .. n + 1 |-> IF i = n + 1 THEN last ELSE f[i]]
  <2> HIDE DEF last
  <2>3. g = [i \in 0 .. n + 1 |-> g[i]] /\ g[0] = << >>
    BY <2>1, <2>2 DEF Collects
  <2>4. ASSUME NEW i \in 1 .. n + 1 PROVE g[i] = NamesAnd(g[i - 1], path[i])
    <3>1. CASE i = n + 1
      <4>1. g[i] = last /\ g[i - 1] = f[n]
        BY <3>1, <2>1
      <4> HIDE DEF g
      <4> QED BY <4>1, <3>1 DEF last
    <3>2. CASE i # n + 1
      <4>1. i \in 1 .. n /\ g[i] = f[i] /\ g[i - 1] = f[i - 1]
        BY <3>2, <2>1
      <4>2. f[i] = NamesAnd(f[i - 1], path[i])
        BY <4>1, <2>2 DEF Collects
      <4> HIDE DEF g
      <4> QED BY <4>1, <4>2
    <3> QED BY <3>1, <3>2
  <2> HIDE DEF g
  <2>5. Collects(g, path, n + 1)
    BY <2>3, <2>4 DEF Collects
  <2> QED BY <2>1, <2>5
<1>3. S \in SUBSET Nat
  OBVIOUS
<1> HIDE DEF S
<1>4. S = Nat
  BY <1>1, <1>2, <1>3, D!SetInduction
<1> QED BY <1>4 DEF S

LEMMA NamesCollect ==
    ASSUME NEW path, Len(path) \in Nat
    PROVE  \E f : Collects(f, path, Len(path)) /\ Names(path) = f[Len(path)]
<1> DEFINE F(f) == f = [i \in 0 .. Len(path) |-> IF i = 0 THEN << >> ELSE IF path[i] = "" THEN f[i - 1] ELSE Append(f[i - 1], path[i])]
<1>1. PICK f : Collects(f, path, Len(path))
  BY CollectsExists
<1>2. F(f)
  <2>1. \A i \in 0 .. Len(path) : f[i] = IF i = 0 THEN << >> ELSE IF path[i] = "" THEN f[i - 1] ELSE Append(f[i - 1], path[i])
    <3>1. \A i \in 0 .. Len(path) : i = 0 \/ i \in 1 .. Len(path)
      OBVIOUS
    <3>2. f[0] = << >> /\ \A i \in 1 .. Len(path) : f[i] = IF path[i] = "" THEN f[i - 1] ELSE Append(f[i - 1], path[i])
      BY <1>1 DEF Collects, NamesAnd
    <3>3. \A i \in 1 .. Len(path) : i # 0
      OBVIOUS
    <3> QED BY <3>1, <3>2, <3>3
  <2>2. f = [i \in 0 .. Len(path) |-> f[i]]
    BY <1>1 DEF Collects
  <2> QED BY <2>1, <2>2
<1> DEFINE d == CHOOSE g : F(g)
<1>3. F(d)
  BY <1>2
<1>4. Names(path) = d[Len(path)]
  BY DEF Names
<1> HIDE DEF d
<1>5. Collects(d, path, Len(path))
  <2> DEFINE B == [i \in 0 .. Len(path) |-> IF i = 0 THEN << >> ELSE IF path[i] = "" THEN d[i - 1] ELSE Append(d[i - 1], path[i])]
  <2>1. d = B
    BY <1>3
  <2>2. /\ B = [i \in 0 .. Len(path) |-> B[i]]
        /\ \A i \in 0 .. Len(path) : B[i] = IF i = 0 THEN << >> ELSE IF path[i] = "" THEN d[i - 1] ELSE Append(d[i - 1], path[i])
    OBVIOUS
  <2> HIDE DEF B
  <2>3. d = [i \in 0 .. Len(path) |-> d[i]]
    BY <2>1, <2>2
  <2>4. d[0] = << >> /\ \A i \in 1 .. Len(path) : d[i] = IF path[i] = "" THEN d[i - 1] ELSE Append(d[i - 1], path[i])
    <3>1. 0 \in 0 .. Len(path) /\ \A i \in 1 .. Len(path) : i \in 0 .. Len(path) /\ i # 0
      OBVIOUS
    <3> QED BY <2>1, <2>2, <3>1
  <2> QED BY <2>3, <2>4 DEF Collects, NamesAnd
<1> QED BY <1>4, <1>5

LEMMA NamesAreNames ==
    ASSUME NEW W, NEW path \in Seq(W)
    PROVE  Names(path) \in Seq(W)
<1>1. Len(path) \in Nat /\ \A i \in 1 .. Len(path) : path[i] \in W
  OBVIOUS
<1>2. PICK f : Collects(f, path, Len(path)) /\ Names(path) = f[Len(path)]
  BY <1>1, NamesCollect
<1> DEFINE S == {n \in Nat : n <= Len(path) => f[n] \in Seq(W)}
<1>3. 0 \in S
  <2>1. f[0] = << >>
    BY <1>2 DEF Collects
  <2>2. << >> \in Seq(W)
    OBVIOUS
  <2> QED BY <2>1, <2>2
<1>4. ASSUME NEW n \in S PROVE n + 1 \in S
  <2>1. CASE n + 1 <= Len(path)
    <3>1. n + 1 \in 1 .. Len(path) /\ (n + 1) - 1 = n /\ n <= Len(path)
      BY <2>1, <1>1
    <3>2. f[n + 1] = NamesAnd(f[n], path[n + 1])
      BY <3>1, <1>2 DEF Collects
    <3>3. f[n] \in Seq(W) /\ path[n + 1] \in W
      BY <3>1, <1>1
    <3>4. f[n + 1] \in Seq(W)
      <4> DEFINE x == path[n + 1]
      <4> DEFINE g == f[n]
      <4>1. f[n + 1] = g \/ f[n + 1] = Append(g, x)
        BY <3>2, Zenon DEF NamesAnd
      <4>2. g \in Seq(W) /\ x \in W
        BY <3>3
      <4> HIDE DEF g, x
      <4>3. Append(g, x) \in Seq(W)
        BY <4>2, AppendProperties
      <4> QED BY <4>1, <4>2, <4>3
    <3> QED BY <3>4
  <2> QED BY <2>1, <1>1
<1>5. S \in SUBSET Nat
  OBVIOUS
<1> HIDE DEF S
<1>6. S = Nat
  BY <1>3, <1>4, <1>5, D!SetInduction
<1>7. f[Len(path)] \in Seq(W)
  BY <1>1, <1>6 DEF S
<1> QED BY <1>2, <1>7

Root(v) == [kind |-> "root", cluster |-> v.boot.BPB_RootClus]

\* f has what each name of a path leads to.
Walks(f, v, names, n) ==
    /\ f = [i \in 0 .. n |-> f[i]]
    /\ f[0] = Root(v)
    /\ \A i \in 1 .. n : f[i] = FileIn(v, f[i - 1].cluster, names[i])

LEMMA WalksExists ==
    ASSUME NEW v, NEW names, NEW m \in Nat
    PROVE  \E f : Walks(f, v, names, m)
<1> DEFINE S == {n \in Nat : \E f : Walks(f, v, names, n)}
<1>1. 0 \in S
  <2>1. Walks([i \in 0 .. 0 |-> Root(v)], v, names, 0)
    BY DEF Walks
  <2> QED BY <2>1
<1>2. ASSUME NEW n \in S PROVE n + 1 \in S
  <2>1. n \in Nat /\ n + 1 \in Nat
    OBVIOUS
  <2>2. PICK f : Walks(f, v, names, n)
    OBVIOUS
  <2> DEFINE last == FileIn(v, f[n].cluster, names[(n + 1)])
  <2> DEFINE g == [i \in 0 .. n + 1 |-> IF i = n + 1 THEN last ELSE f[i]]
  <2> HIDE DEF last
  <2>3. g = [i \in 0 .. n + 1 |-> g[i]] /\ g[0] = Root(v)
    BY <2>1, <2>2 DEF Walks
  <2>4. ASSUME NEW i \in 1 .. n + 1 PROVE g[i] = FileIn(v, g[i - 1].cluster, names[i])
    <3>1. CASE i = n + 1
      <4>1. g[i] = last /\ g[i - 1] = f[n]
        BY <3>1, <2>1
      <4> HIDE DEF g
      <4> QED BY <4>1, <3>1 DEF last
    <3>2. CASE i # n + 1
      <4>1. i \in 1 .. n /\ g[i] = f[i] /\ g[i - 1] = f[i - 1]
        BY <3>2, <2>1
      <4>2. f[i] = FileIn(v, f[i - 1].cluster, names[i])
        BY <4>1, <2>2 DEF Walks
      <4> HIDE DEF g
      <4> QED BY <4>1, <4>2
    <3> QED BY <3>1, <3>2
  <2> HIDE DEF g
  <2>5. Walks(g, v, names, n + 1)
    BY <2>3, <2>4 DEF Walks
  <2> QED BY <2>1, <2>5
<1>3. S \in SUBSET Nat
  OBVIOUS
<1> HIDE DEF S
<1>4. S = Nat
  BY <1>1, <1>2, <1>3, D!SetInduction
<1> QED BY <1>4 DEF S

LEMMA WalkWalks ==
    ASSUME NEW v, NEW names, Len(names) \in Nat
    PROVE  Walks(Walk(v, names), v, names, Len(names))
<1> DEFINE F(f) == f = [i \in 0 .. Len(names) |-> IF i = 0 THEN Root(v) ELSE FileIn(v, f[i - 1].cluster, names[i])]
<1>1. PICK f : Walks(f, v, names, Len(names))
  BY WalksExists
<1>2. F(f)
  <2>1. \A i \in 0 .. Len(names) : f[i] = IF i = 0 THEN Root(v) ELSE FileIn(v, f[i - 1].cluster, names[i])
    <3>1. \A i \in 0 .. Len(names) : i = 0 \/ i \in 1 .. Len(names)
      OBVIOUS
    <3>2. f[0] = Root(v) /\ \A i \in 1 .. Len(names) : f[i] = FileIn(v, f[i - 1].cluster, names[i])
      BY <1>1, Zenon DEF Walks
    <3>3. \A i \in 1 .. Len(names) : i # 0
      OBVIOUS
    <3> QED BY <3>1, <3>2, <3>3
  <2>2. f = [i \in 0 .. Len(names) |-> f[i]]
    BY <1>1 DEF Walks
  <2> QED BY <2>1, <2>2
<1> DEFINE d == CHOOSE g : F(g)
<1>3. F(d)
  BY <1>2
<1>4. Walk(v, names) = d
  BY DEF Walk, Root
<1> HIDE DEF d
<1>5. Walks(d, v, names, Len(names))
  <2> DEFINE B == [i \in 0 .. Len(names) |-> IF i = 0 THEN Root(v) ELSE FileIn(v, d[i - 1].cluster, names[i])]
  <2>1. d = B
    BY <1>3
  <2>2. /\ B = [i \in 0 .. Len(names) |-> B[i]]
        /\ \A i \in 0 .. Len(names) : B[i] = IF i = 0 THEN Root(v) ELSE FileIn(v, d[i - 1].cluster, names[i])
    OBVIOUS
  <2> HIDE DEF B
  <2>3. d = [i \in 0 .. Len(names) |-> d[i]]
    BY <2>1, <2>2
  <2>4. d[0] = Root(v) /\ \A i \in 1 .. Len(names) : d[i] = FileIn(v, d[i - 1].cluster, names[i])
    <3>1. 0 \in 0 .. Len(names) /\ \A i \in 1 .. Len(names) : i \in 0 .. Len(names) /\ i # 0
      OBVIOUS
    <3> QED BY <2>1, <2>2, <3>1
  <2> QED BY <2>3, <2>4 DEF Walks
<1> QED BY <1>4, <1>5

-----------------------------------------------------------------------------
(***************************************************************************)
(* What the code reads from a disk.                                        *)
(***************************************************************************)

Mounted == disk \in Volumes /\ fat = Geometry(disk.boot)

LEMMA VolumeFacts ==
    ASSUME NEW v \in Volumes
    PROVE  /\ WellShaped(v.boot)
           /\ \A c \in DOMAIN v.data : WellStored(v, c)
           /\ \A d \in DOMAIN v.dirs : IsDirectory(v, v.dirs[d]) /\ v.dirs[d].chain # << >> /\ v.dirs[d].chain[1] = d
           /\ v.boot.BPB_RootClus \in DOMAIN v.dirs
BY VolumeAssumption, Zenon

LEMMA GeometryFacts ==
    ASSUME Mounted
    PROVE  LET b == disk.boot
           IN  /\ fat.fat_begin = b.BPB_RsvdSecCnt
               /\ fat.cluster_begin = b.BPB_RsvdSecCnt + b.BPB_NumFATs * b.BPB_FATSz32
               /\ fat.sectors_per_cluster = 1 /\ fat.sector_size = SectorSize
               /\ fat.root_dir_first_cluster = b.BPB_RootClus
               /\ b.BPB_RsvdSecCnt \in Nat /\ b.BPB_NumFATs * b.BPB_FATSz32 \in Nat
               /\ ClusterSize = SectorSize
<1> DEFINE b == disk.boot
<1>1. WellShaped(b)
  BY VolumeFacts DEF Mounted
<1>2. /\ b.BPB_BytsPerSec = SectorSize /\ b.BPB_SecPerClus = 1
      /\ b.BPB_RsvdSecCnt \in Nat /\ b.BPB_NumFATs \in Nat /\ b.BPB_FATSz32 \in Nat
  BY <1>1 DEF WellShaped
<1>3. fat = Geometry(b)
  BY DEF Mounted
<1> HIDE DEF b
<1>4. /\ fat.fat_begin = b.BPB_RsvdSecCnt
      /\ fat.cluster_begin = b.BPB_RsvdSecCnt + b.BPB_FATSz32 * b.BPB_NumFATs
      /\ fat.sectors_per_cluster = b.BPB_SecPerClus /\ fat.sector_size = b.BPB_BytsPerSec
      /\ fat.root_dir_first_cluster = b.BPB_RootClus
  BY <1>3 DEF Geometry
<1>5. b.BPB_FATSz32 * b.BPB_NumFATs = b.BPB_NumFATs * b.BPB_FATSz32 /\ b.BPB_NumFATs * b.BPB_FATSz32 \in Nat
  BY <1>2
<1>6. ClusterSize = SectorSize
  BY <1>2, <1>4, SizesAssumption DEF ClusterSize
<1> QED BY <1>2, <1>4, <1>5, <1>6 DEF b

\* read_cluster() reads the bytes of the cluster.
LEMMA ByteOfCluster ==
    ASSUME Mounted, NEW c \in DOMAIN disk.data, NEW o \in 0 .. SectorSize - 1
    PROVE  /\ ClusterByte(c, o) = disk.data[c][o + 1]
           /\ c \in Nat
<1> DEFINE r == disk.boot.BPB_RsvdSecCnt
<1> DEFINE t == disk.boot.BPB_NumFATs * disk.boot.BPB_FATSz32
<1>0. SectorSize \in Nat \ {0} /\ U32 \in Nat \ {0}
  BY SizesAssumption
<1>1. /\ fat.cluster_begin = r + t /\ fat.sectors_per_cluster = 1 /\ fat.sector_size = SectorSize
      /\ r \in Nat /\ t \in Nat
  BY GeometryFacts
<1>2. WellStored(disk, c)
  BY VolumeFacts DEF Mounted
<1>3. /\ c \in Nat /\ c >= 2 /\ (r + t) + (c - 2) < U32
      /\ disk.sector[(r + t) + (c - 2)][o] = disk.data[c][o + 1]
  BY <1>2 DEF WellStored
<1> HIDE DEF r, t
<1> DEFINE k == c - 2
<1>4. k \in 0 .. U32 - 1 /\ k + (r + t) \in 0 .. U32 - 1
  BY <1>0, <1>1, <1>3
<1>5. k % U32 = k /\ (k + (r + t)) % U32 = k + (r + t)
  BY <1>0, <1>4, ModBelow
<1>6. SectorOfCluster(c) = (r + t) + k
  <2>1. (c - 2) % U32 = k
    BY <1>5
  <2>2. SectorOfCluster(c) = (k * 1 + (r + t)) % U32
    BY <2>1, <1>1 DEF SectorOfCluster
  <2> HIDE DEF k
  <2>3. k * 1 = k /\ k + (r + t) = (r + t) + k
    BY <1>1, <1>4
  <2> QED BY <2>2, <2>3, <1>5
<1>7. o \div SectorSize = 0 /\ o % SectorSize = o
  BY <1>0, ModBelow
<1>8. SectorOfCluster(c) + 0 = (r + t) + (c - 2)
  BY <1>1, <1>3, <1>6
<1> QED BY <1>1, <1>3, <1>7, <1>8 DEF ClusterByte

\* next_cluster() follows a chain.
LEMMA NextInChain ==
    ASSUME Mounted, NEW ch, IsChain(disk, ch), NEW i \in 1 .. Len(ch)
    PROVE  /\ i < Len(ch) => NextCluster(ch[i]) = ch[i + 1] /\ ch[i + 1] \in Nat
           /\ i = Len(ch) => NextCluster(ch[i]) \in {NoCluster, BadCluster}
<1> DEFINE c == ch[i]
<1> DEFINE x == Successor(disk, c)
<1>0. SectorSize \in Nat \ {0} /\ FatEntrySize \in Nat \ {0} /\ Eoc \in Nat \ {0}
  BY SizesAssumption
<1>1. ch \in Seq(DOMAIN disk.data) /\ i \in DOMAIN ch
  BY DEF IsChain
<1>2. c \in DOMAIN disk.data
  BY <1>1
<1>3. /\ x \in Nat
      /\ i < Len(ch) => x = ch[i + 1] /\ ch[i + 1] < Eoc - 1
      /\ ~(i < Len(ch)) => x >= Eoc - 1
  BY <1>1, Zenon DEF IsChain
<1>4. fat.fat_begin = disk.boot.BPB_RsvdSecCnt /\ fat.sector_size = SectorSize
  BY GeometryFacts
<1>5. NextCluster(c) = IF x >= Eoc THEN NoCluster ELSE IF x = Eoc - 1 THEN BadCluster ELSE x
  <2>1. /\ FatSlot(c).sector = disk.boot.BPB_RsvdSecCnt + (c * FatEntrySize) \div SectorSize
        /\ FatSlot(c).offset = (c * FatEntrySize) % SectorSize
    BY <1>4 DEF FatSlot
  <2>2. disk.sector[FatSlot(c).sector][FatSlot(c).offset] = x
    BY <2>1 DEF Successor
  <2> HIDE DEF x
  <2> QED BY <2>2 DEF NextCluster
<1> HIDE DEF c, x
<1>6. ASSUME i < Len(ch) PROVE NextCluster(c) = ch[i + 1] /\ ch[i + 1] \in Nat
  BY <1>0, <1>3, <1>5, <1>6
<1>7. ASSUME i = Len(ch) PROVE NextCluster(c) \in {NoCluster, BadCluster}
  <2>1. x >= Eoc - 1
    BY <1>3, <1>7, <1>1
  <2>2. x >= Eoc \/ x = Eoc - 1
    BY <2>1, <1>0, <1>3
  <2> QED BY <2>2, <1>5
<1> QED BY <1>6, <1>7 DEF c

LEMMA BufferFacts ==
    /\ EntriesPerBuffer \in Nat \ {0}
    /\ SectorSize = EntriesPerBuffer * DirEntrySize
    /\ \A k \in 0 .. EntriesPerBuffer - 1 : k * DirEntrySize \in 0 .. SectorSize - 1
<1> DEFINE E == EntriesPerBuffer
<1>0. SectorSize \in Nat \ {0} /\ DirEntrySize \in Nat \ {0} /\ SectorSize % DirEntrySize = 0
  BY SizesAssumption
<1>1. E \in Nat /\ SectorSize = DirEntrySize * E + 0
  BY <1>0, DivMod, DivNatural DEF EntriesPerBuffer
<1> HIDE DEF E
<1>2. E # 0
  BY <1>0, <1>1
<1>3. DirEntrySize * E = E * DirEntrySize
  BY <1>0, <1>1
<1>4. ASSUME NEW k \in 0 .. E - 1 PROVE k * DirEntrySize \in 0 .. SectorSize - 1
  <2>1. k * DirEntrySize \in Nat
    BY <1>0
  <2>2. k * DirEntrySize <= (E - 1) * DirEntrySize
    BY <1>0, <1>1
  <2>3. (E - 1) * DirEntrySize = E * DirEntrySize - DirEntrySize
    BY <1>0, <1>1
  <2> QED BY <2>1, <2>2, <2>3, <1>0, <1>1, <1>3
<1>5. E \in Nat \ {0} /\ SectorSize = E * DirEntrySize
  <2>1. DirEntrySize * E + 0 = DirEntrySize * E
    BY <1>0, <1>1
  <2> QED BY <2>1, <1>1, <1>2, <1>3
<1>6. \A k \in 0 .. E - 1 : k * DirEntrySize \in 0 .. SectorSize - 1
  BY <1>4, Zenon
<1> QED BY <1>5, <1>6, Zenon DEF E

-----------------------------------------------------------------------------
(***************************************************************************)
(* The search of a directory.                                              *)
(***************************************************************************)

\* The n-th entry of a directory, as a position of find_file().
Place(dir, n) == [dir |-> dir.chain[(n \div EntriesPerBuffer) + 1], idx |-> n % EntriesPerBuffer]

Total(dir) == Len(dir.chain) * EntriesPerBuffer

\* IsDirectory, part by part.
LEMMA DirectoryFacts ==
    ASSUME NEW v, NEW dir, IsDirectory(v, dir)
    PROVE  /\ IsChain(v, dir.chain) /\ Len(dir.chain) \in Nat /\ Total(dir) \in Nat
           /\ Len(dir.files) \in Nat /\ DOMAIN dir.files = 1 .. Len(dir.files)
           /\ dir.first \in [1 .. Len(dir.files) + 1 -> Nat] /\ dir.first[1] = 0
           /\ \A i \in 1 .. Len(dir.files) + 1 : dir.first[i] <= Total(dir)
           /\ dir.first[Len(dir.files) + 1] < Total(dir) => IsEnd(DirEntry(v, dir, dir.first[Len(dir.files) + 1]))
           /\ \A i \in 1 .. Len(dir.files) :
                /\ IsFile(v, dir.files[i]) /\ Len(dir.files[i].long) \in Nat
                /\ dir.first[i + 1] = dir.first[i] + Len(dir.files[i].long) + 1
<1>1. /\ IsChain(v, dir.chain)
      /\ Len(dir.files) \in Nat /\ DOMAIN dir.files = 1 .. Len(dir.files)
      /\ dir.first \in Seq(Nat) /\ Len(dir.first) = Len(dir.files) + 1 /\ dir.first[1] = 0
      /\ \A i \in DOMAIN dir.first : dir.first[i] <= Total(dir)
      /\ dir.first[Len(dir.files) + 1] < Total(dir) => IsEnd(DirEntry(v, dir, dir.first[Len(dir.files) + 1]))
  BY Zenon DEF IsDirectory, Total
<1>2. \A i \in DOMAIN dir.files : /\ IsFile(v, dir.files[i])
                                  /\ dir.first[i + 1] = dir.first[i] + Len(dir.files[i].long) + 1
  BY Zenon DEF IsDirectory
<1>3. \A i \in DOMAIN dir.files : Len(dir.files[i].long) \in Nat
  <2>1. \A i \in DOMAIN dir.files : dir.files[i].long \in Seq(STRING)
    BY <1>2, Zenon DEF IsFile
  <2>2. \A s \in Seq(STRING) : Len(s) \in Nat
    BY LenProperties
  <2> QED BY <2>1, <2>2, Zenon
<1>4. Len(dir.chain) \in Nat
  <2>1. dir.chain \in Seq(DOMAIN v.data)
    BY <1>1, Zenon DEF IsChain
  <2> QED BY <2>1, LenProperties
<1>5. Total(dir) \in Nat
  <2>1. EntriesPerBuffer \in Nat
    BY BufferFacts
  <2> QED BY <2>1, <1>4 DEF Total
<1>6. dir.first \in [1 .. Len(dir.files) + 1 -> Nat] /\ DOMAIN dir.first = 1 .. Len(dir.files) + 1
  BY <1>1
<1> QED BY <1>1, <1>2, <1>3, <1>4, <1>5, <1>6

\* A piece of a long name, and the entry of a file.
IsPiece(e, text) == e.kind = "lfn" /\ Strip(e.name) = text

IsEntry(e, file) ==
    e.kind = "short" /\ Strip(e.name) = file.short /\ e.cluster = file.cluster /\ e.size = file.size

LEMMA EntryFacts ==
    ASSUME NEW v, NEW dir, IsDirectory(v, dir), NEW i \in 1 .. Len(dir.files)
    PROVE  /\ \A j \in 1 .. Len(dir.files[i].long) :
                IsPiece(DirEntry(v, dir, dir.first[i] + j - 1), dir.files[i].long[j])
           /\ IsEntry(DirEntry(v, dir, dir.first[i] + Len(dir.files[i].long)), dir.files[i])
<1>1. i \in DOMAIN dir.files
  BY DirectoryFacts
<1>2. DOMAIN dir.files[i].long = 1 .. Len(dir.files[i].long)
  <2>1. dir.files[i].long \in Seq(STRING)
    BY DirectoryFacts DEF IsFile
  <2> QED BY <2>1, LenProperties
<1>3. \A j \in DOMAIN dir.files[i].long :
        IsPiece(DirEntry(v, dir, dir.first[i] + j - 1), dir.files[i].long[j])
  BY <1>1, Zenon DEF IsDirectory, IsLfn, LongMatch, IsPiece
<1>4. IsEntry(DirEntry(v, dir, dir.first[i] + Len(dir.files[i].long)), dir.files[i])
  BY <1>1, Zenon DEF IsDirectory, IsEntry
<1> QED BY <1>2, <1>3, <1>4, Zenon

\* The arithmetic of entries that follow one another, and of whole clusters.
LEMMA BehindLast ==
    ASSUME NEW a \in Nat, NEW b \in Nat, NEW c, NEW t \in Nat, c = a + b + 1, c <= t
    PROVE  a + b \in Nat /\ a + b + 1 \in Nat /\ a + b < t /\ a + b + 1 <= t
OBVIOUS

LEMMA ClustersBelow ==
    ASSUME NEW n \in Nat, NEW l \in Nat, NEW z \in Nat, n + 1 <= l
    PROVE  (n + 1) * z <= l * z
<1>1. l * z = (n + 1) * z + (l - (n + 1)) * z
  OBVIOUS
<1>2. PICK k \in Nat : k = l - (n + 1)
  OBVIOUS
<1>3. k * z \in Nat /\ (n + 1) * z \in Nat
  OBVIOUS
<1> QED BY <1>1, <1>2, <1>3

\* The entry of a file is in its directory.
LEMMA EntryInside ==
    ASSUME NEW v, NEW dir, IsDirectory(v, dir), NEW i \in 1 .. Len(dir.files)
    PROVE  /\ dir.first[i] \in Nat /\ Len(dir.files[i].long) \in Nat
           /\ dir.first[i] + Len(dir.files[i].long) \in Nat
           /\ dir.first[i] + Len(dir.files[i].long) < Total(dir)
<1>1. dir.first[i] \in Nat /\ dir.first[i + 1] \in Nat /\ dir.first[i + 1] <= Total(dir) /\ Total(dir) \in Nat
  <2>1. i \in 1 .. Len(dir.files) + 1 /\ i + 1 \in 1 .. Len(dir.files) + 1
    BY DirectoryFacts
  <2> QED BY <2>1, DirectoryFacts
<1>2. Len(dir.files[i].long) \in Nat /\ dir.first[i + 1] = dir.first[i] + Len(dir.files[i].long) + 1
  BY DirectoryFacts
<1>3. Total(dir) \in Nat /\ dir.first[i + 1] <= Total(dir)
  BY <1>1
<1> HIDE DEF Total
<1> QED BY <1>1, <1>2, <1>3, BehindLast

LEMMA EntryAtPlace ==
    ASSUME Mounted, NEW dir, IsDirectory(disk, dir), NEW n \in Nat, n < Total(dir)
    PROVE  EntryAt(Place(dir, n)) = DirEntry(disk, dir, n) /\ Place(dir, n).dir \in Nat
<1> DEFINE E == EntriesPerBuffer
<1> DEFINE q == n \div E
<1> DEFINE r == n % E
<1> DEFINE c == dir.chain[q + 1]
<1>1. E \in Nat \ {0} /\ \A k \in 0 .. E - 1 : k * DirEntrySize \in 0 .. SectorSize - 1
  BY BufferFacts
<1>2. Len(dir.chain) \in Nat /\ n < Len(dir.chain) * E
  BY DirectoryFacts DEF Total
<1>3. dir.chain \in Seq(DOMAIN disk.data)
  BY DirectoryFacts DEF IsChain
<1>6. Place(dir, n).dir = c /\ Place(dir, n).idx = r
  BY DEF Place
<1> HIDE DEF E
<1>4. q \in 0 .. Len(dir.chain) - 1 /\ r \in 0 .. E - 1
  <2> DEFINE L == Len(dir.chain)
  <2>1. E \in Nat \ {0} /\ L \in Nat /\ n < L * E
    BY <1>1, <1>2
  <2> HIDE DEF L
  <2>2. n \div E \in 0 .. L - 1
    BY <2>1, QuotientBelow
  <2>3. n % E \in 0 .. E - 1
    BY <2>1, ModIn
  <2> QED BY <2>2, <2>3 DEF L
<1>5. c \in DOMAIN disk.data
  <2> HIDE DEF q
  <2>1. q + 1 \in 1 .. Len(dir.chain)
    BY <1>2, <1>4
  <2> QED BY <2>1, <1>3
<1> DEFINE o == r * DirEntrySize
<1>7. o \in 0 .. SectorSize - 1
  BY <1>1, <1>4
<1>8. DirEntry(disk, dir, n) = disk.data[c][o + 1]
  BY DEF DirEntry, E
<1>9. EntryAt(Place(dir, n)) = ClusterByte(c, o)
  BY <1>6 DEF EntryAt
<1> HIDE DEF c, o, q, r
<1> QED BY <1>5, <1>6, <1>7, <1>8, <1>9, ByteOfCluster

LEMMA AdvancePlace ==
    ASSUME Mounted, NEW dir, IsDirectory(disk, dir), NEW n \in Nat, n < Total(dir)
    PROVE  /\ n + 1 < Total(dir) => Advance(Place(dir, n)) = Place(dir, n + 1)
           /\ n + 1 = Total(dir) => Advance(Place(dir, n)).dir \in {NoCluster, BadCluster}
<1> DEFINE E == EntriesPerBuffer
<1> DEFINE L == Len(dir.chain)
<1> DEFINE q == n \div E
<1> DEFINE r == n % E
<1>1. E \in Nat \ {0}
  BY BufferFacts
<1>2. L \in Nat /\ n < L * E /\ Total(dir) = L * E /\ IsChain(disk, dir.chain)
  BY DirectoryFacts DEF Total
<1>3. Place(dir, n) = [dir |-> dir.chain[q + 1], idx |-> r]
  BY DEF Place
<1>4. Advance(Place(dir, n)) = IF r + 1 < E THEN [dir |-> dir.chain[q + 1], idx |-> r + 1]
                               ELSE [dir |-> NextCluster(dir.chain[q + 1]), idx |-> 0]
  <2> HIDE DEF q, r
  <2> QED BY <1>3 DEF Advance, E
<1>9. Place(dir, n + 1) = [dir |-> dir.chain[((n + 1) \div E) + 1], idx |-> (n + 1) % E]
  BY DEF Place
<1> HIDE DEF E, L
<1>5. q \in 0 .. L - 1 /\ r \in 0 .. E - 1 /\ n = E * q + r
  <2>1. q \in 0 .. L - 1
    BY <1>1, <1>2, QuotientBelow
  <2>2. r \in 0 .. E - 1
    BY <1>1, ModIn
  <2>3. n = E * q + r
    BY <1>1, DivMod
  <2> QED BY <2>1, <2>2, <2>3
<1> HIDE DEF q, r
<1>6. CASE r + 1 < E
  <2>1. (n + 1) \div E = q /\ (n + 1) % E = r + 1
    <3>0. q \in Int /\ r \in Nat /\ E \in Nat /\ r + 1 < E /\ E * q \in Int
      BY <1>1, <1>2, <1>5, <1>6
    <3>1. n + 1 = E * q + (r + 1) /\ r + 1 \in 0 .. E - 1 /\ q \in Int /\ n + 1 \in Int
      BY <3>0, <1>5
    <3> DEFINE s == r + 1
    <3> DEFINE y == n + 1
    <3>2. y = E * q + s /\ s \in 0 .. E - 1 /\ q \in Int /\ y \in Int /\ E \in Nat \ {0}
      BY <3>1, <1>1
    <3> HIDE DEF s, y
    <3>3. y \div E = q /\ y % E = s
      BY <3>2, Quotient
    <3> QED BY <3>3 DEF s, y
  <2>2. n + 1 # Total(dir)
    <3>1. q + 1 <= L
      BY <1>2, <1>5
    <3>2. E * (q + 1) <= E * L
      BY <3>1, <1>1, <1>2, <1>5
    <3>3. E * (q + 1) = E * q + E /\ E * L = L * E
      BY <1>1, <1>2, <1>5
    <3> QED BY <3>2, <3>3, <1>1, <1>2, <1>5, <1>6
  <2> QED BY <2>1, <2>2, <1>4, <1>6, <1>9
<1>7. CASE ~(r + 1 < E)
  <2>0. r + 1 = E
    BY <1>1, <1>5, <1>7
  <2>1. n + 1 = E * (q + 1) + 0 /\ 0 \in 0 .. E - 1 /\ q + 1 \in Int /\ n + 1 \in Int
    BY <2>0, <1>1, <1>2, <1>5
  <2>2. (n + 1) \div E = q + 1 /\ (n + 1) % E = 0
    BY <2>1, <1>1, Quotient
  <2>3. Advance(Place(dir, n)) = [dir |-> NextCluster(dir.chain[q + 1]), idx |-> 0]
    BY <1>4, <1>7
  <2>4. q + 1 \in 1 .. Len(dir.chain) /\ L = Len(dir.chain)
    BY <1>2, <1>5 DEF L
  <2>5. ASSUME n + 1 < Total(dir) PROVE Advance(Place(dir, n)) = Place(dir, n + 1)
    <3>1. n + 1 \in Nat /\ n + 1 < L * E
      BY <2>5, <1>2
    <3>2. (n + 1) \div E \in 0 .. L - 1
      BY <3>1, <1>1, <1>2, QuotientBelow
    <3>3. q + 1 < Len(dir.chain)
      BY <3>2, <2>2, <2>4, <1>2
    <3>4. NextCluster(dir.chain[q + 1]) = dir.chain[(q + 1) + 1]
      BY <3>3, <2>4, <1>2, NextInChain
    <3> QED BY <3>4, <2>2, <2>3, <1>9
  <2>6. ASSUME n + 1 = Total(dir) PROVE Advance(Place(dir, n)).dir \in {NoCluster, BadCluster}
    <3>1. E * (q + 1) = L * E
      BY <2>6, <2>1, <1>1, <1>2, <1>5
    <3>2. q + 1 = L
      <4>1. CASE q + 1 < L
        <5>1. q + 2 <= L
          BY <4>1, <1>2, <1>5
        <5>2. E * (q + 2) <= E * L
          BY <5>1, <1>1, <1>2, <1>5
        <5>3. E * (q + 2) = E * (q + 1) + E /\ E * L = L * E
          BY <1>1, <1>2, <1>5
        <5> QED BY <5>2, <5>3, <3>1, <1>1, <1>2, <1>5
      <4> QED BY <4>1, <1>2, <1>5
    <3>3. NextCluster(dir.chain[q + 1]) \in {NoCluster, BadCluster}
      BY <3>2, <2>4, <1>2, NextInChain
    <3> QED BY <3>3, <2>3
  <2> QED BY <2>5, <2>6
<1> QED BY <1>6, <1>7


\* What FileIn() looks for.
Hit(file, name) == file.long = <<name>> \/ (file.kind # "deleted" /\ file.short = Upper(name))

LEMMA HitsAreHits ==
    ASSUME NEW files, NEW name, NEW k
    PROVE  k \in Hits(files, name) <=> k \in DOMAIN files /\ Hit(files[k], name)
BY Zenon DEF Hits, Hit

NoHitBelow(dir, name, i) == \A j \in 1 .. i - 1 : ~Hit(dir.files[j], name)

LEMMA OneName ==
    ASSUME NEW s \in Seq(STRING), NEW name
    PROVE  (s = <<name>>) <=> (Len(s) = 1 /\ s[1] = name)
<1>1. ASSUME Len(s) = 1, s[1] = name PROVE s = <<name>>
  <2>1. s = [i \in 1 .. Len(s) |-> s[i]]
    OBVIOUS
  <2>2. IsSeq(s) /\ IsSeq(<<name>>) /\ Len(<<name>>) = 1
    <3>1. <<name>> \in Seq({name})
      OBVIOUS
    <3> QED BY <3>1 DEF IsSeq
  <2>3. \A i \in 1 .. Len(s) : s[i] = <<name>>[i]
    BY <1>1
  <2> QED BY <2>2, <2>3, <1>1, SameSeq
<1> QED BY <1>1

\* The first hit is the file, and without one there is none.
LEMMA FirstHit ==
    ASSUME NEW v, NEW d \in DOMAIN v.dirs, IsDirectory(v, v.dirs[d]), NEW name,
           NEW i \in 1 .. Len(v.dirs[d].files), NoHitBelow(v.dirs[d], name, i), Hit(v.dirs[d].files[i], name)
    PROVE  FileIn(v, d, name) = v.dirs[d].files[i]
<1> DEFINE files == v.dirs[d].files
<1> DEFINE hits == Hits(files, name)
<1>1. DOMAIN files = 1 .. Len(files) /\ Len(files) \in Nat
  BY DirectoryFacts
<1>2. FileIn(v, d, name) = IF hits = {} THEN NoFile ELSE files[Min(hits)]
  BY DEF FileIn
<1>3. i \in hits
  BY <1>1, HitsAreHits
<1>4. \A k \in hits : k \in Int /\ i <= k
  <2> SUFFICES ASSUME NEW k \in hits PROVE k \in Int /\ i <= k
    OBVIOUS
  <2>1. k \in 1 .. Len(files) /\ Hit(files[k], name)
    BY <1>1, HitsAreHits
  <2>2. k \notin 1 .. i - 1
    BY <2>1 DEF NoHitBelow
  <2> QED BY <2>1, <2>2, <1>1
<1> HIDE DEF hits, files
<1>5. Min(hits) = i
  <2>1. \A k \in hits : (\A y \in hits : k <= y) => k = i
    <3> SUFFICES ASSUME NEW k \in hits, \A y \in hits : k <= y PROVE k = i
      OBVIOUS
    <3>1. k <= i /\ i <= k /\ k \in Int /\ i \in Int
      BY <1>3, <1>4
    <3> QED BY <3>1
  <2>2. i \in hits /\ \A y \in hits : i <= y
    BY <1>3, <1>4
  <2> DEFINE m == CHOOSE x \in hits : \A y \in hits : x <= y
  <2>3. m \in hits /\ \A y \in hits : m <= y
    BY <2>2, Zenon
  <2>4. Min(hits) = m
    BY Zenon DEF Min
  <2> HIDE DEF m
  <2> QED BY <2>1, <2>3, <2>4
<1> QED BY <1>2, <1>3, <1>5 DEF files

LEMMA NoHit ==
    ASSUME NEW v, NEW d \in DOMAIN v.dirs, IsDirectory(v, v.dirs[d]), NEW name,
           NoHitBelow(v.dirs[d], name, Len(v.dirs[d].files) + 1)
    PROVE  FileIn(v, d, name) = NoFile
<1> DEFINE files == v.dirs[d].files
<1> DEFINE hits == Hits(files, name)
<1>1. DOMAIN files = 1 .. Len(files) /\ Len(files) \in Nat
  BY DirectoryFacts
<1>2. FileIn(v, d, name) = IF hits = {} THEN NoFile ELSE files[Min(hits)]
  BY DEF FileIn
<1>3. hits = {}
  <2> SUFFICES ASSUME NEW k \in hits PROVE FALSE
    OBVIOUS
  <2>1. k \in 1 .. Len(files) /\ Hit(files[k], name)
    BY <1>1, HitsAreHits
  <2>2. (Len(files) + 1) - 1 = Len(files)
    BY <1>1
  <2> QED BY <2>1, <2>2 DEF NoHitBelow
<1> QED BY <1>2, <1>3

\* The search of a directory is at the n-th entry: it has passed the files before the
\* i-th and is among the entries of that one, or at the end.  It never stands between
\* a name of one piece and its entry.
Stands(dir, n, i) ==
    \/ /\ i \in 1 .. Len(dir.files)
       /\ dir.first[i] <= n /\ n <= dir.first[i] + Len(dir.files[i].long)
       /\ Len(dir.files[i].long) = 1 => n = dir.first[i]
    \/ i = Len(dir.files) + 1 /\ n = dir.first[i]

Searched(dir, name, n) ==
    /\ n \in Nat /\ n < Total(dir)
    /\ \E i \in 1 .. Len(dir.files) + 1 : NoHitBelow(dir, name, i) /\ Stands(dir, n, i)

\* The name is not among several pieces of a long name, nor is it a mark of deletion.
Plain(dir, name) ==
    /\ \A i \in 1 .. Len(dir.files) : \A j \in 1 .. Len(dir.files[i].long) :
            Len(dir.files[i].long) > 1 => dir.files[i].long[j] # name
    /\ \A i \in 1 .. Len(dir.files) : dir.files[i].kind = "deleted" => dir.files[i].short # Upper(name)

\* The entry behind the last one of the i-th file.
LEMMA NextFile ==
    ASSUME NEW v, NEW dir, IsDirectory(v, dir), NEW name, NEW i \in 1 .. Len(dir.files),
           NoHitBelow(dir, name, i), ~Hit(dir.files[i], name)
    PROVE  LET n == dir.first[i] + Len(dir.files[i].long)
           IN  /\ n \in Nat /\ n < Total(dir)
               /\ n + 1 < Total(dir) => Searched(dir, name, n + 1)
               /\ n + 1 = Total(dir) => NoHitBelow(dir, name, Len(dir.files) + 1)
<1> DEFINE F == Len(dir.files)
<1> DEFINE n == dir.first[i] + Len(dir.files[i].long)
<1> DEFINE T == Total(dir)
<1>1. F \in Nat /\ T \in Nat /\ i \in 1 .. F /\ i + 1 \in 1 .. F + 1 /\ i \in 1 .. F + 1
  BY DirectoryFacts
<1>2. /\ dir.first[i] \in Nat /\ dir.first[i + 1] \in Nat /\ dir.first[i + 1] <= T
      /\ Len(dir.files[i].long) \in Nat /\ dir.first[i + 1] = n + 1
  <2>1. dir.first[i] \in Nat /\ dir.first[i + 1] \in Nat /\ dir.first[i + 1] <= T
    BY <1>1, DirectoryFacts
  <2>2. Len(dir.files[i].long) \in Nat /\ dir.first[i + 1] = dir.first[i] + Len(dir.files[i].long) + 1
    BY <1>1, DirectoryFacts
  <2> QED BY <2>1, <2>2
<1>3. n \in Nat /\ n + 1 \in Nat /\ n + 1 <= T
  <2>1. dir.first[i + 1] = dir.first[i] + Len(dir.files[i].long) + 1
    BY <1>2
  <2> HIDE DEF T
  <2> QED BY <1>1, <1>2, <2>1, BehindLast
<1>4. NoHitBelow(dir, name, i + 1)
  <2> SUFFICES ASSUME NEW j \in 1 .. (i + 1) - 1 PROVE ~Hit(dir.files[j], name)
    BY DEF NoHitBelow
  <2>1. j = i \/ j \in 1 .. i - 1
    BY <1>1
  <2> QED BY <2>1 DEF NoHitBelow
<1>5. Stands(dir, n + 1, i + 1)
  <2>1. CASE i + 1 = F + 1
    BY <2>1, <1>2 DEF Stands
  <2>2. CASE i + 1 \in 1 .. F
    <3>1. Len(dir.files[i + 1].long) \in Nat
      BY <2>2, DirectoryFacts
    <3>2. n + 1 <= dir.first[i + 1] + Len(dir.files[i + 1].long)
      BY <3>1, <1>2
    <3> QED BY <3>2, <2>2, <1>2, <1>3 DEF Stands
  <2> QED BY <2>1, <2>2, <1>1
<1>6. ASSUME n + 1 < T PROVE Searched(dir, name, n + 1)
  BY <1>1, <1>3, <1>4, <1>5, <1>6 DEF Searched
<1>7. ASSUME n + 1 = T PROVE NoHitBelow(dir, name, F + 1)
  <2>1. CASE i + 1 \in 1 .. F
    <3>1. /\ Len(dir.files[i + 1].long) \in Nat
          /\ dir.first[(i + 1) + 1] = dir.first[i + 1] + Len(dir.files[i + 1].long) + 1
      BY <2>1, DirectoryFacts
    <3>2. (i + 1) + 1 \in 1 .. F + 1
      BY <2>1, <1>1
    <3>3. dir.first[(i + 1) + 1] \in Nat /\ dir.first[(i + 1) + 1] <= T
      BY <3>2, DirectoryFacts
    <3> DEFINE l == Len(dir.files[i + 1].long)
    <3> DEFINE a == dir.first[i + 1]
    <3>4. l \in Nat /\ a + l + 1 <= T /\ a \in Nat /\ a = n + 1
      BY <3>1, <3>3, <1>2
    <3> HIDE DEF l, a, n, T
    <3> QED BY <3>4, <1>7, <1>1
  <2>2. CASE i + 1 = F + 1
    BY <2>2, <1>4
  <2> QED BY <2>1, <2>2, <1>1
<1> HIDE DEF T, F
<1> QED BY <1>1, <1>3, <1>6, <1>7 DEF T, F

\* What one iteration of find_file() comes to: the end, the file, or a place further on.
Outcome(dir, name, pos) ==
    LET probe == Probe(pos, name)
        next  == Advance(probe.at)
        e     == EntryAt(probe.at)
    IN  /\ IsEnd(EntryAt(pos)) => NoHitBelow(dir, name, Len(dir.files) + 1)
        /\ ~IsEnd(EntryAt(pos)) /\ probe.hit =>
            \E i \in 1 .. Len(dir.files) :
                /\ NoHitBelow(dir, name, i) /\ Hit(dir.files[i], name)
                /\ e.kind = "short" /\ e.cluster = dir.files[i].cluster /\ e.size = dir.files[i].size
        /\ ~IsEnd(EntryAt(pos)) /\ ~probe.hit => 
            /\ probe.at.dir \notin {NoCluster, BadCluster}
            /\ \/ \E n : next = Place(dir, n) /\ Searched(dir, name, n)
               \/ next.dir = NoCluster /\ NoHitBelow(dir, name, Len(dir.files) + 1)
               \/ next.dir = BadCluster

LEMMA ProbeShort ==
    ASSUME NEW pos, NEW name, EntryAt(pos).kind = "short", pos.dir \in Nat
    PROVE  /\ Probe(pos, name).at = pos /\ ~IsEnd(EntryAt(pos))
           /\ Probe(pos, name).hit <=> Strip(EntryAt(pos).name) = Upper(name)
<1>1. ~IsLfn(EntryAt(pos)) /\ ~IsEnd(EntryAt(pos)) /\ pos.dir \notin {NoCluster, BadCluster}
  BY DEF IsLfn, IsEnd, NoCluster, BadCluster
<1>2. Probe(pos, name).at = pos
  BY <1>1 DEF Probe
<1>3. Probe(pos, name).hit <=> ShortMatch(EntryAt(pos), name)
  <2> HIDE DEF IsLfn
  <2> QED BY <1>1 DEF Probe
<1> QED BY <1>1, <1>2, <1>3 DEF ShortMatch

LEMMA ProbeLong ==
    ASSUME NEW pos, NEW name, NEW at, EntryAt(pos).kind = "lfn", Advance(pos) = at, at.dir \in Nat
    PROVE  /\ Probe(pos, name).at = at /\ ~IsEnd(EntryAt(pos))
           /\ Probe(pos, name).hit <=> \/ Strip(EntryAt(pos).name) = name
                                       \/ EntryAt(at).kind = "short" /\ Strip(EntryAt(at).name) = Upper(name)
<1>1. IsLfn(EntryAt(pos)) /\ ~IsEnd(EntryAt(pos)) /\ at.dir \notin {NoCluster, BadCluster}
  BY DEF IsLfn, IsEnd, NoCluster, BadCluster
<1>2. Probe(pos, name).at = at
  BY <1>1 DEF Probe
<1>3. Probe(pos, name).hit <=> LongMatch(EntryAt(pos), name) \/ ShortMatch(EntryAt(at), name)
  BY <1>1 DEF Probe
<1> QED BY <1>1, <1>2, <1>3 DEF ShortMatch, LongMatch

\* The iteration is over at the entry of the i-th file.
LEMMA OutcomeOfEntry ==
    ASSUME Mounted, NEW dir, IsDirectory(disk, dir), NEW name, NEW pos,
           NEW i \in 1 .. Len(dir.files), NoHitBelow(dir, name, i), ~IsEnd(EntryAt(pos)),
           Probe(pos, name).at = Place(dir, dir.first[i] + Len(dir.files[i].long)),
           Probe(pos, name).hit <=> Hit(dir.files[i], name)
    PROVE  Outcome(dir, name, pos)
<1> DEFINE n == dir.first[i] + Len(dir.files[i].long)
<1> DEFINE probe == Probe(pos, name)
<1> DEFINE at == Place(dir, n)
<1>0. probe.at = at /\ (probe.hit <=> Hit(dir.files[i], name))
  OBVIOUS
<1>1. n \in Nat /\ n < Total(dir)
  BY EntryInside
<1>2. EntryAt(at) = DirEntry(disk, dir, n) /\ at.dir \in Nat
  <2> HIDE DEF n
  <2> QED BY <1>1, EntryAtPlace
<1>3. IsEntry(EntryAt(at), dir.files[i])
  BY <1>2, EntryFacts
<1>4. /\ n + 1 < Total(dir) => Advance(at) = Place(dir, n + 1)
      /\ n + 1 = Total(dir) => Advance(at).dir \in {NoCluster, BadCluster}
  <2> HIDE DEF n
  <2> QED BY <1>1, AdvancePlace
<1>5. CASE Hit(dir.files[i], name)
  <2> HIDE DEF at, probe
  <2>1. probe.hit
    BY <1>0, <1>5
  <2> QED BY <2>1, <1>0, <1>3, <1>5 DEF Outcome, IsEntry, probe
<1>6. CASE ~Hit(dir.files[i], name)
  <2>1. /\ n + 1 < Total(dir) => Searched(dir, name, n + 1)
        /\ n + 1 = Total(dir) => NoHitBelow(dir, name, Len(dir.files) + 1)
    BY <1>6, NextFile
  <2>2. at.dir \notin {NoCluster, BadCluster}
    BY <1>2 DEF NoCluster, BadCluster
  <2>3. n + 1 < Total(dir) \/ n + 1 = Total(dir)
    <3>1. Total(dir) \in Nat
      BY DirectoryFacts
    <3> HIDE DEF n
    <3> QED BY <3>1, <1>1
  <2> DEFINE next == Advance(at)
  <2>4. \/ \E k : next = Place(dir, k) /\ Searched(dir, name, k)
        \/ next.dir = NoCluster /\ NoHitBelow(dir, name, Len(dir.files) + 1)
        \/ next.dir = BadCluster
    <3> HIDE DEF n, at
    <3> QED BY <2>1, <2>3, <1>4
  <2>5. ~probe.hit
    BY <1>0, <1>6
  <2>6. Advance(probe.at) = next
    BY <1>0
  <2> HIDE DEF at, probe, next
  <2> QED BY <2>2, <2>4, <2>5, <2>6, <1>0 DEF Outcome, probe
<1> QED BY <1>5, <1>6

\* The iteration at the end of the directory.
LEMMA OutcomeAtEnd ==
    ASSUME Mounted, NEW dir, IsDirectory(disk, dir), NEW name, NEW n \in Nat, n < Total(dir),
           n = dir.first[Len(dir.files) + 1], NoHitBelow(dir, name, Len(dir.files) + 1)
    PROVE  Outcome(dir, name, Place(dir, n))
<1>1. EntryAt(Place(dir, n)) = DirEntry(disk, dir, n)
  BY EntryAtPlace
<1>2. IsEnd(DirEntry(disk, dir, n))
  BY DirectoryFacts
<1>3. IsEnd(EntryAt(Place(dir, n)))
  BY <1>1, <1>2
<1> DEFINE pos == Place(dir, n)
<1> HIDE DEF pos
<1> QED BY <1>3 DEF Outcome, pos

\* The iteration at a piece of the long name of the i-th file.
LEMMA OutcomeAtPiece ==
    ASSUME Mounted, NEW dir, IsDirectory(disk, dir), NEW name, Plain(dir, name),
           NEW i \in 1 .. Len(dir.files), NoHitBelow(dir, name, i),
           NEW n \in Nat, n < Total(dir), dir.first[i] <= n, n < dir.first[i] + Len(dir.files[i].long),
           Len(dir.files[i].long) = 1 => n = dir.first[i]
    PROVE  Outcome(dir, name, Place(dir, n))
<1> DEFINE file == dir.files[i]
<1> DEFINE l == Len(file.long)
<1> DEFINE f == dir.first[i]
<1> DEFINE T == Total(dir)
<1> DEFINE pos == Place(dir, n)
<1> DEFINE at == Place(dir, n + 1)
<1>1. /\ f \in Nat /\ l \in Nat /\ T \in Nat /\ f + l + 1 <= T
      /\ file.long \in Seq(STRING)
  <2>1. i \in 1 .. Len(dir.files) + 1 /\ i + 1 \in 1 .. Len(dir.files) + 1 /\ T \in Nat
    BY DirectoryFacts
  <2>2. dir.first[i] \in Nat /\ dir.first[i + 1] \in Nat /\ dir.first[i + 1] <= T
    BY <2>1, DirectoryFacts
  <2>3. Len(dir.files[i].long) \in Nat /\ dir.first[i + 1] = dir.first[i] + Len(dir.files[i].long) + 1
    BY DirectoryFacts
  <2>4. IsFile(disk, dir.files[i])
    BY DirectoryFacts
  <2>5. file.long \in Seq(STRING)
    BY <2>4 DEF IsFile
  <2> QED BY <2>1, <2>2, <2>3, <2>5
<1>2. f <= n /\ n < f + l /\ (l = 1 => n = f)
  OBVIOUS
<1> DEFINE j == (n - f) + 1
<1> HIDE DEF l, f, T, file
<1>3. j \in 1 .. l /\ f + j - 1 = n /\ n + 1 \in Nat /\ n + 1 < T
  BY <1>1, <1>2
<1>4. EntryAt(pos) = DirEntry(disk, dir, n) /\ EntryAt(at) = DirEntry(disk, dir, n + 1) /\ at.dir \in Nat
  <2>1. EntryAt(pos) = DirEntry(disk, dir, n)
    BY EntryAtPlace
  <2>2. EntryAt(at) = DirEntry(disk, dir, n + 1) /\ at.dir \in Nat
    BY <1>3, EntryAtPlace DEF T
  <2> QED BY <2>1, <2>2
<1>5. Advance(pos) = at
  BY <1>3, AdvancePlace DEF T
<1>6. \A k \in 1 .. l : IsPiece(DirEntry(disk, dir, f + k - 1), file.long[k])
  BY EntryFacts, Zenon DEF f, l, file
<1>7. IsEntry(DirEntry(disk, dir, f + l), file)
  BY EntryFacts, Zenon DEF f, l, file
<1>8. EntryAt(pos).kind = "lfn" /\ Strip(EntryAt(pos).name) = file.long[j]
  BY <1>3, <1>4, <1>6 DEF IsPiece
<1> HIDE DEF pos, at, j
<1> DEFINE probe == Probe(pos, name)
<1>9. /\ probe.at = at /\ ~IsEnd(EntryAt(pos))
      /\ probe.hit <=> \/ Strip(EntryAt(pos).name) = name
                       \/ EntryAt(at).kind = "short" /\ Strip(EntryAt(at).name) = Upper(name)
  BY <1>4, <1>5, <1>8, ProbeLong
<1> HIDE DEF probe
<1>10. l > 1 => file.long[j] # name
  BY <1>3 DEF Plain, l, file
<1>11. Hit(file, name) <=> (l = 1 /\ file.long[1] = name) \/ file.short = Upper(name)
  <2>1. file.kind = "deleted" => file.short # Upper(name)
    BY Zenon DEF Plain, file
  <2>2. file.long = <<name>> <=> (l = 1 /\ file.long[1] = name)
    BY <1>1, OneName DEF l
  <2> QED BY <2>1, <2>2 DEF Hit
<1>12. CASE n + 1 = f + l
  <2>1. EntryAt(at).kind = "short" /\ Strip(EntryAt(at).name) = file.short
    BY <1>4, <1>7, <1>12 DEF IsEntry
  <2>2. probe.hit <=> file.long[j] = name \/ file.short = Upper(name)
    BY <2>1, <1>8, <1>9
  <2>3. l > 1 \/ (l = 1 /\ j = 1)
    BY <1>1, <1>2, <1>3 DEF j
  <2>4. probe.hit <=> Hit(file, name)
    <3>1. CASE l > 1
      <4>1. file.long[j] # name /\ l # 1
        BY <3>1, <1>10, <1>1
      <4> QED BY <4>1, <2>2, <1>11
    <3>2. CASE l = 1 /\ j = 1
      BY <3>2, <2>2, <1>11
    <3> QED BY <2>3, <3>1, <3>2
  <2>5. probe.at = Place(dir, f + l)
    BY <1>9, <1>12 DEF at
  <2> QED BY <2>4, <2>5, <1>9, OutcomeOfEntry DEF probe, f, l, file, pos
<1>13. CASE n + 1 # f + l
  <2>1. n + 1 < f + l /\ l > 1
    BY <1>13, <1>1, <1>2
  <2>2. j + 1 \in 1 .. l /\ f + (j + 1) - 1 = n + 1
    BY <2>1, <1>1, <1>3 DEF j
  <2>3. EntryAt(at).kind = "lfn"
    BY <2>2, <1>4, <1>6 DEF IsPiece
  <2>4. ~probe.hit
    BY <2>1, <2>3, <1>8, <1>9, <1>10
  <2>5. n + 2 \in Nat /\ n + 2 < T /\ (n + 1) + 1 = n + 2
    BY <2>1, <1>1
  <2> DEFINE next == Advance(at)
  <2>6. next = Place(dir, n + 2)
    BY <2>5, <1>3, AdvancePlace DEF at, T
  <2>7. Searched(dir, name, n + 2)
    <3>1. f <= n + 2 /\ n + 2 <= f + l /\ l # 1
      BY <2>1, <1>1, <1>2
    <3>2. Stands(dir, n + 2, i)
      BY <3>1 DEF Stands, f, l, file
    <3>3. i \in 1 .. Len(dir.files) + 1
      BY DirectoryFacts
    <3> QED BY <3>2, <3>3, <2>5 DEF Searched, T
  <2>8. at.dir \notin {NoCluster, BadCluster}
    BY <1>4 DEF NoCluster, BadCluster
  <2>9. Advance(probe.at) = next
    BY <1>9
  <2> HIDE DEF next
  <2>10. Outcome(dir, name, pos)
    BY <2>4, <2>6, <2>7, <2>8, <2>9, <1>9 DEF Outcome, probe
  <2> QED BY <2>10 DEF pos
<1> QED BY <1>12, <1>13

\* The iteration at the entry of the i-th file itself.
LEMMA OutcomeAtEntry ==
    ASSUME Mounted, NEW dir, IsDirectory(disk, dir), NEW name, Plain(dir, name),
           NEW i \in 1 .. Len(dir.files), NoHitBelow(dir, name, i),
           NEW n \in Nat, n < Total(dir), n = dir.first[i] + Len(dir.files[i].long),
           Len(dir.files[i].long) # 1
    PROVE  Outcome(dir, name, Place(dir, n))
<1> DEFINE file == dir.files[i]
<1> DEFINE pos == Place(dir, n)
<1>1. EntryAt(pos) = DirEntry(disk, dir, n) /\ pos.dir \in Nat
  BY EntryAtPlace
<1>2. EntryAt(pos).kind = "short" /\ Strip(EntryAt(pos).name) = file.short
  <2>1. IsEntry(DirEntry(disk, dir, dir.first[i] + Len(dir.files[i].long)), dir.files[i])
    BY EntryFacts
  <2> QED BY <2>1, <1>1 DEF IsEntry
<1>3. file.long \in Seq(STRING)
  BY DirectoryFacts DEF IsFile
<1>4. Hit(file, name) <=> file.short = Upper(name)
  <2>1. file.kind = "deleted" => file.short # Upper(name)
    BY Zenon DEF Plain, file
  <2> QED BY <2>1, <1>3, OneName DEF Hit
<1> HIDE DEF pos, file
<1>5. /\ Probe(pos, name).at = pos /\ ~IsEnd(EntryAt(pos))
      /\ Probe(pos, name).hit <=> Strip(EntryAt(pos).name) = Upper(name)
  BY <1>1, <1>2, ProbeShort
<1>6. Probe(pos, name).hit <=> Hit(file, name)
  BY <1>2, <1>4, <1>5
<1> QED BY <1>5, <1>6, OutcomeOfEntry DEF pos, file

LEMMA OutcomeOfIteration ==
    ASSUME Mounted, NEW dir, IsDirectory(disk, dir), NEW name, Plain(dir, name),
           NEW n, Searched(dir, name, n)
    PROVE  Outcome(dir, name, Place(dir, n))
<1>1. n \in Nat /\ n < Total(dir)
  BY DEF Searched
<1>2. PICK i \in 1 .. Len(dir.files) + 1 : NoHitBelow(dir, name, i) /\ Stands(dir, n, i)
  BY DEF Searched
<1>3. CASE i = Len(dir.files) + 1 /\ n = dir.first[i]
  BY <1>1, <1>2, <1>3, OutcomeAtEnd
<1>4. CASE /\ i \in 1 .. Len(dir.files)
           /\ dir.first[i] <= n /\ n <= dir.first[i] + Len(dir.files[i].long)
           /\ Len(dir.files[i].long) = 1 => n = dir.first[i]
  <2>1. Len(dir.files[i].long) \in Nat /\ dir.first[i] \in Nat
    <3>1. i \in 1 .. Len(dir.files) + 1
      OBVIOUS
    <3> QED BY <3>1, <1>4, DirectoryFacts
  <2>2. CASE n < dir.first[i] + Len(dir.files[i].long)
    BY <1>1, <1>2, <1>4, <2>2, OutcomeAtPiece
  <2>3. CASE n = dir.first[i] + Len(dir.files[i].long)
    <3>1. Len(dir.files[i].long) # 1
      <4> DEFINE l == Len(dir.files[i].long)
      <4> DEFINE a == dir.first[i]
      <4>1. l \in Nat /\ a \in Nat /\ n = a + l /\ (l = 1 => n = a)
        BY <2>1, <2>3, <1>4
      <4> HIDE DEF l, a
      <4>2. l # 1
        BY <4>1
      <4> QED BY <4>2 DEF l
    <3> QED BY <3>1, <1>1, <1>2, <1>4, <2>3, OutcomeAtEntry
  <2> QED BY <2>1, <2>2, <2>3, <1>1, <1>4
<1> QED BY <1>2, <1>3, <1>4 DEF Stands

-----------------------------------------------------------------------------
(***************************************************************************)
(* The walk along a path.                                                  *)
(***************************************************************************)

LEMMA NamesFacts ==
    ASSUME NEW path \in Paths
    PROVE  Names(path) \in Seq(STRING) /\ Len(Names(path)) \in Nat /\ DOMAIN Names(path) = 1 .. Len(Names(path))
<1>1. path \in Seq(STRING)
  BY PathAssumption
<1>2. Names(path) \in Seq(STRING)
  BY <1>1, NamesAreNames
<1> QED BY <1>2, LenProperties

\* Where a cluster of a directory is looked up.
LEMMA DirClusters ==
    ASSUME NEW v \in Volumes, NEW d \in DOMAIN v.dirs
    PROVE  d \in Nat /\ IsDirectory(v, v.dirs[d]) /\ v.dirs[d].chain[1] = d /\ Len(v.dirs[d].chain) \in Nat \ {0}
<1>1. IsDirectory(v, v.dirs[d]) /\ v.dirs[d].chain # << >> /\ v.dirs[d].chain[1] = d
  BY VolumeFacts
<1>2. v.dirs[d].chain \in Seq(DOMAIN v.data)
  BY <1>1, DirectoryFacts DEF IsChain
<1>3. Len(v.dirs[d].chain) \in Nat \ {0}
  BY <1>1, <1>2, EmptySeq, LenProperties
<1>4. d \in DOMAIN v.data
  BY <1>1, <1>2, <1>3
<1>5. WellStored(v, d)
  BY <1>4, VolumeFacts
<1> QED BY <1>1, <1>3, <1>5 DEF WellStored

LEMMA FileShape ==
    ASSUME NEW v \in Volumes, NEW file, IsFile(v, file)
    PROVE  file # NoFile /\ file.cluster \in Nat /\ file.size \in Nat
<1>2. file # NoFile
  <2>1. file.kind \in {"short", "deleted"}
    BY DEF IsFile
  <2> QED BY <2>1 DEF NoFile
<1>3. file.cluster \in Nat
  <2>1. CASE file.chain = << >>
    BY <2>1 DEF IsFile
  <2>2. CASE file.chain # << >>
    <3>0. file.chain \in Seq(DOMAIN v.data)
      BY <2>2 DEF IsFile, IsChain
    <3>1. Len(file.chain) \in Nat \ {0}
      BY <3>0, <2>2, EmptySeq, LenProperties
    <3>2. file.chain[1] \in DOMAIN v.data
      BY <3>0, <3>1
    <3>3. WellStored(v, file.chain[1])
      BY <3>2, VolumeFacts
    <3>4. file.cluster = file.chain[1]
      BY <2>2 DEF IsFile
    <3> QED BY <3>3, <3>4 DEF WellStored
  <2> QED BY <2>1, <2>2
<1>4. file.size \in Nat
  BY DEF IsFile
<1> QED BY <1>2, <1>3, <1>4

LEMMA FileInFacts ==
    ASSUME NEW v \in Volumes, NEW d, NEW name
    PROVE  /\ FileIn(v, d, name) # NoFile => IsFile(v, FileIn(v, d, name))
           /\ d \notin DOMAIN v.dirs => FileIn(v, d, name) = NoFile
<1>1. CASE d \notin DOMAIN v.dirs
  <2> DEFINE hits == Hits(<< >>, name)
  <2>1. FileIn(v, d, name) = IF hits = {} THEN NoFile ELSE << >>[Min(hits)]
    BY <1>1 DEF FileIn
  <2>2. hits = {}
    BY DEF Hits
  <2> QED BY <1>1, <2>1, <2>2
<1>2. CASE d \in DOMAIN v.dirs
  <2> DEFINE dir == v.dirs[d]
  <2>0. IsDirectory(v, dir)
    BY <1>2, DirClusters
  <2> DEFINE H == {i \in 1 .. Len(dir.files) : Hit(dir.files[i], name)}
  <2>1. Len(dir.files) \in Nat
    BY <2>0, DirectoryFacts
  <2>2. CASE H = {}
    <3>1. NoHitBelow(dir, name, Len(dir.files) + 1)
      BY <2>1, <2>2 DEF NoHitBelow
    <3> QED BY <3>1, <2>0, <1>2, NoHit
  <2>3. CASE H # {}
    <3>1. H \subseteq Nat
      BY <2>1
    <3> HIDE DEF H
    <3>2. PICK i \in H : \A k \in H : i <= k
      BY <2>3, <3>1, D!LeastNatural
    <3>3. i \in 1 .. Len(dir.files) /\ Hit(dir.files[i], name)
      BY <3>2 DEF H
    <3>4. NoHitBelow(dir, name, i)
      <4> SUFFICES ASSUME NEW j \in 1 .. i - 1, Hit(dir.files[j], name) PROVE FALSE
        BY DEF NoHitBelow
      <4>1. j \in H
        BY <3>3, <2>1 DEF H
      <4> QED BY <4>1, <3>2, <3>3
    <3>5. FileIn(v, d, name) = dir.files[i]
      BY <3>3, <3>4, <2>0, <1>2, FirstHit
    <3>6. IsFile(v, dir.files[i])
      BY <3>3, <2>0, DirectoryFacts
    <3> QED BY <3>5, <3>6, <1>2
  <2> QED BY <2>2, <2>3
<1> QED BY <1>1, <1>2

\* The directory or file that the first k names lead to.
Reached(path, k) == Walk(disk, Names(path))[k]

LEMMA ReachedFacts ==
    ASSUME NEW path \in Paths
    PROVE  /\ Reached(path, 0) = Root(disk)
           /\ \A i \in 1 .. Len(Names(path)) :
                Reached(path, i) = FileIn(disk, Reached(path, i - 1).cluster, Names(path)[i])
<1>1. Walks(Walk(disk, Names(path)), disk, Names(path), Len(Names(path)))
  BY NamesFacts, WalkWalks
<1> QED BY <1>1, Zenon DEF Walks, Reached

\* What is not there has nothing below it.
LEMMA NothingBelow ==
    ASSUME disk \in Volumes, NEW path \in Paths, NEW k \in 1 .. Len(Names(path)), Reached(path, k) = NoFile
    PROVE  FileAt(path) = NoFile
<1> DEFINE L == Len(Names(path))
<1>0. L \in Nat /\ k \in 1 .. L
  BY NamesFacts
<1>1. FileAt(path) = NoFile \/ FileAt(path) = Reached(path, L)
  BY DEF FileAt, Reached
<1>2. NoFile.cluster \notin DOMAIN disk.dirs
  <2>1. NoFile.cluster \notin Nat
    BY DEF NoFile, NoCluster
  <2> QED BY <2>1, DirClusters
<1> HIDE DEF L
<1> DEFINE S == {j \in Nat : k + j <= L => Reached(path, k + j) = NoFile}
<1>3. 0 \in S
  <2>1. k + 0 = k
    BY <1>0
  <2> QED BY <2>1
<1>4. ASSUME NEW j \in S PROVE j + 1 \in S
  <2>1. CASE k + (j + 1) <= L
    <3>1. k + j <= L /\ k + (j + 1) \in 1 .. L /\ (k + (j + 1)) - 1 = k + j
      BY <2>1, <1>0
    <3>2. Reached(path, k + j) = NoFile
      BY <3>1
    <3>3. Reached(path, k + (j + 1)) = FileIn(disk, Reached(path, k + j).cluster, Names(path)[k + (j + 1)])
      BY <3>1, ReachedFacts DEF L
    <3>4. Reached(path, k + (j + 1)) = NoFile
      BY <3>2, <3>3, <1>2, FileInFacts
    <3> QED BY <3>4
  <2> QED BY <2>1
<1>5. S \in SUBSET Nat
  OBVIOUS
<1> HIDE DEF S
<1>6. S = Nat
  BY <1>3, <1>4, <1>5, D!SetInduction
<1>7. L - k \in Nat /\ k + (L - k) = L
  BY <1>0
<1>8. Reached(path, L) = NoFile
  <2>1. L - k \in S
    BY <1>6, <1>7
  <2>2. k + (L - k) <= L => Reached(path, k + (L - k)) = NoFile
    BY <2>1 DEF S
  <2> QED BY <2>2, <1>7, <1>0
<1> QED BY <1>1, <1>8

\* A path names a file that is stored, or none.
LEMMA NamedFile ==
    ASSUME disk \in Volumes, NEW path \in Paths, FileAt(path) # NoFile
    PROVE  IsFile(disk, FileAt(path))
<1> DEFINE L == Len(Names(path))
<1>1. Names(path) # << >> /\ FileAt(path) = Reached(path, L)
  BY DEF FileAt, Reached
<1>2. L \in 1 .. L
  BY <1>1, NamesFacts, EmptySeq
<1>3. Reached(path, L) = FileIn(disk, Reached(path, L - 1).cluster, Names(path)[L])
  BY <1>2, ReachedFacts
<1> QED BY <1>1, <1>3, FileInFacts

LEMMA PathFacts ==
    ASSUME disk \in Volumes, NEW path \in Paths, NEW n \in 1 .. Len(Names(path))
    PROVE  /\ Reached(path, n - 1).cluster \in DOMAIN disk.dirs \cup {NoCluster}
           /\ \A d \in DOMAIN disk.dirs : Plain(disk.dirs[d], Names(path)[n])
<1> DEFINE name == Names(path)[n]
<1>1. n \in DOMAIN Names(path)
  BY NamesFacts
<1>2. /\ Walk(disk, Names(path))[n - 1].cluster \in DOMAIN disk.dirs \cup {NoCluster}
      /\ \A d \in DOMAIN disk.dirs : \A i \in DOMAIN disk.dirs[d].files :
            /\ Len(disk.dirs[d].files[i].long) > 1 => name \notin Range(disk.dirs[d].files[i].long)
            /\ disk.dirs[d].files[i].kind = "deleted" => disk.dirs[d].files[i].short # Upper(name)
  BY <1>1, PathAssumption, Zenon
<1> HIDE DEF name
<1>3. ASSUME NEW d \in DOMAIN disk.dirs PROVE Plain(disk.dirs[d], name)
  <2> DEFINE dir == disk.dirs[d]
  <2>0. IsDirectory(disk, dir)
    BY DirClusters
  <2>1. ASSUME NEW i \in 1 .. Len(dir.files)
        PROVE  i \in DOMAIN dir.files /\ dir.files[i].long \in Seq(STRING)
    BY <2>0, DirectoryFacts DEF IsFile
  <2>2. ASSUME NEW i \in 1 .. Len(dir.files), NEW j \in 1 .. Len(dir.files[i].long),
               Len(dir.files[i].long) > 1
        PROVE  dir.files[i].long[j] # name
    <3>1. name \notin Range(dir.files[i].long)
      BY <2>1, <2>2, <1>2
    <3>2. j \in DOMAIN dir.files[i].long
      BY <2>1
    <3> QED BY <3>1, <3>2 DEF Range
  <2>3. ASSUME NEW i \in 1 .. Len(dir.files) PROVE (dir.files[i].kind = "deleted") => dir.files[i].short # Upper(name)
    BY <2>1, <1>2
  <2> QED BY <2>2, <2>3 DEF Plain
<1> QED BY <1>2, <1>3 DEF Reached, name

\* The search for a name stands in the directory d.
Searching(pos, d, name) ==
    /\ d \in DOMAIN disk.dirs
    /\ \E n : pos = Place(disk.dirs[d], n) /\ Searched(disk.dirs[d], name, n)

LEMMA SearchStarts ==
    ASSUME disk \in Volumes, NEW d \in DOMAIN disk.dirs, NEW name
    PROVE  Searching([dir |-> d, idx |-> 0], d, name)
<1> DEFINE dir == disk.dirs[d]
<1>1. IsDirectory(disk, dir) /\ dir.chain[1] = d /\ Len(dir.chain) \in Nat \ {0}
  BY DirClusters
<1>2. EntriesPerBuffer \in Nat \ {0}
  BY BufferFacts
<1>3. 0 \div EntriesPerBuffer = 0 /\ 0 % EntriesPerBuffer = 0
  BY <1>2, ModBelow
<1> HIDE DEF dir
<1>4. Place(dir, 0) = [dir |-> d, idx |-> 0]
  <2>1. 0 + 1 = 1
    OBVIOUS
  <2> QED BY <2>1, <1>1, <1>3 DEF Place
<1>5. 0 < Total(dir)
  BY <1>1, <1>2 DEF Total
<1>6. NoHitBelow(dir, name, 1)
  BY DEF NoHitBelow
<1>7. Stands(dir, 0, 1) /\ 1 \in 1 .. Len(dir.files) + 1
  <2>1. Len(dir.files) \in Nat /\ dir.first[1] = 0
    BY <1>1, DirectoryFacts
  <2>2. CASE Len(dir.files) = 0
    BY <2>1, <2>2 DEF Stands
  <2>3. CASE Len(dir.files) # 0
    <3>1. 1 \in 1 .. Len(dir.files)
      BY <2>1, <2>3
    <3>2. Len(dir.files[1].long) \in Nat
      BY <3>1, <1>1, DirectoryFacts
    <3> QED BY <2>1, <3>1, <3>2 DEF Stands
  <2> QED BY <2>2, <2>3
<1>8. Searched(dir, name, 0)
  BY <1>5, <1>6, <1>7 DEF Searched
<1> QED BY <1>4, <1>8 DEF Searching, dir

\* The walk has the k first names behind it.
Along(names, path, k) ==
    /\ names \in Seq(STRING) /\ Len(names) = Len(Names(path)) - k
    /\ \A i \in 1 .. Len(Names(path)) - k : names[i] = Names(path)[k + i]

Walking(look, path) ==
    \/ Names(path) = << >> /\ look.names = << >>
    \/ \E k \in 0 .. Len(Names(path)) - 1 :
        Along(look.names, path, k) /\ Searching(look.pos, Reached(path, k).cluster, Names(path)[k + 1])

\* What LookupExact says of the entry.
Describes(e, file) == e.kind = "short" /\ e.cluster = file.cluster /\ e.size = file.size

LookOK(stage, look, path) ==
    /\ look = [names |-> look.names, entry |-> look.entry, pos |-> look.pos]
    /\ \/ stage = "find" /\ Walking(look, path)
       \/ stage = "missing" /\ FileAt(path) = NoFile
       \/ stage = "found" /\ FileAt(path) # NoFile /\ Describes(look.entry, FileAt(path))

LEMMA LookupStarts ==
    ASSUME Mounted, NEW path \in Paths
    PROVE  LookOK("find", StartLookup(path), path)
<1> DEFINE look == StartLookup(path)
<1> DEFINE names == Names(path)
<1>1. look = [names |-> names, entry |-> [kind |-> "end"], pos |-> [dir |-> fat.root_dir_first_cluster, idx |-> 0]]
  BY Zenon DEF StartLookup
<1>2. /\ look = [names |-> look.names, entry |-> look.entry, pos |-> look.pos]
      /\ look.names = names /\ look.pos = [dir |-> fat.root_dir_first_cluster, idx |-> 0]
  <2> HIDE DEF look, names
  <2> QED BY <1>1
<1>3. names \in Seq(STRING) /\ Len(names) \in Nat
  BY NamesFacts
<1>4. CASE names = << >>
  BY <1>2, <1>4 DEF LookOK, Walking
<1>5. CASE names # << >>
  <2>1. Len(names) \in Nat \ {0}
    BY <1>3, <1>5, EmptySeq
  <2>2. Along(names, path, 0)
    <3>1. Len(names) - 0 = Len(names) /\ \A i \in 1 .. Len(names) : 0 + i = i
      BY <1>3
    <3> QED BY <3>1, <1>3 DEF Along
  <2>3. Reached(path, 0).cluster = disk.boot.BPB_RootClus
    <3>1. Reached(path, 0) = Root(disk)
      BY ReachedFacts
    <3> QED BY <3>1 DEF Root
  <2>4. fat.root_dir_first_cluster = disk.boot.BPB_RootClus /\ disk.boot.BPB_RootClus \in DOMAIN disk.dirs
    BY GeometryFacts, VolumeFacts DEF Mounted
  <2>5. Searching(look.pos, Reached(path, 0).cluster, names[0 + 1])
    <3> HIDE DEF look, names
    <3>1. disk \in Volumes
      BY DEF Mounted
    <3> QED BY <3>1, <2>3, <2>4, <1>2, SearchStarts
  <2>6. 0 \in 0 .. Len(names) - 1
    BY <2>1
  <2>7. Walking(look, path)
    <3> HIDE DEF look
    <3> QED BY <2>2, <2>5, <2>6, <1>2 DEF Walking
  <2> HIDE DEF look
  <2> QED BY <2>7, <1>2 DEF LookOK, look
<1> QED BY <1>4, <1>5

\* The name was found: it is the last one, or the walk goes on below it.
LEMMA WalkDescends ==
    ASSUME disk \in Volumes, NEW path \in Paths, NEW k \in 0 .. Len(Names(path)) - 1,
           NEW names, Along(names, path, k),
           NEW file, Reached(path, k + 1) = file, IsFile(disk, file),
           NEW e, Describes(e, file)
    PROVE  LookOK(IF Len(names) = 1 THEN "found" ELSE "find",
                  [names |-> Tail(names), entry |-> e, pos |-> [dir |-> e.cluster, idx |-> 0]], path)
<1> DEFINE L == Len(Names(path))
<1> DEFINE look == [names |-> Tail(names), entry |-> e, pos |-> [dir |-> e.cluster, idx |-> 0]]
<1>1. L \in Nat /\ k \in 0 .. L - 1
  BY NamesFacts
<1>2. names \in Seq(STRING) /\ Len(names) = L - k /\ \A i \in 1 .. L - k : names[i] = Names(path)[k + i]
  BY DEF Along
<1>3. file # NoFile /\ file.cluster \in Nat
  BY FileShape
<1>4. /\ look = [names |-> look.names, entry |-> look.entry, pos |-> look.pos]
      /\ look.names = Tail(names) /\ look.entry = e /\ look.pos = [dir |-> e.cluster, idx |-> 0]
  OBVIOUS
<1> HIDE DEF look
<1>5. CASE Len(names) = 1
  <2>1. k + 1 = L /\ L # 0
    BY <1>5, <1>1, <1>2
  <2>2. FileAt(path) = file
    <3>1. Names(path) # << >>
      BY <2>1
    <3> QED BY <3>1, <2>1 DEF FileAt, Reached
  <2>3. LookOK("found", look, path)
    BY <2>2, <1>3, <1>4 DEF LookOK
  <2> QED BY <2>3, <1>5 DEF look
<1>6. CASE Len(names) # 1
  <2>1. k + 1 \in 0 .. L - 1 /\ k + 2 \in 1 .. L /\ (k + 2) - 1 = k + 1 /\ (k + 1) + 1 = k + 2 /\ Len(names) > 1
    BY <1>6, <1>1, <1>2
  <2>2. Along(Tail(names), path, k + 1)
    <3>1. names # << >>
      BY <2>1
    <3>2. /\ Tail(names) \in Seq(STRING) /\ Len(Tail(names)) = Len(names) - 1
          /\ \A i \in 1 .. Len(names) - 1 : Tail(names)[i] = names[i + 1]
      BY <3>1, <1>2, HeadTailProperties
    <3>3. ASSUME NEW i \in 1 .. L - (k + 1) PROVE Tail(names)[i] = Names(path)[(k + 1) + i]
      <4>1. i \in 1 .. Len(names) - 1 /\ i + 1 \in 1 .. L - k /\ k + (i + 1) = (k + 1) + i
        BY <1>1, <1>2
      <4>2. Tail(names)[i] = names[i + 1]
        BY <4>1, <3>2
      <4>3. names[i + 1] = Names(path)[k + (i + 1)]
        BY <4>1, <1>2
      <4> QED BY <4>1, <4>2, <4>3
    <3>4. Len(Tail(names)) = L - (k + 1)
      BY <3>2, <1>1, <1>2
    <3> QED BY <3>2, <3>3, <3>4 DEF Along
  <2>3. Reached(path, k + 1).cluster \in DOMAIN disk.dirs
    <3>1. Reached(path, (k + 2) - 1).cluster \in DOMAIN disk.dirs \cup {NoCluster}
      BY <2>1, PathFacts
    <3>2. Reached(path, k + 1).cluster # NoCluster
      BY <1>3 DEF NoCluster
    <3> QED BY <3>1, <3>2, <2>1
  <2>4. e.cluster = Reached(path, k + 1).cluster
    BY DEF Describes
  <2>5. Searching(look.pos, Reached(path, k + 1).cluster, Names(path)[(k + 1) + 1])
    BY <2>3, <2>4, <1>4, SearchStarts
  <2>6. Walking(look, path)
    BY <2>1, <2>2, <2>5, <1>4 DEF Walking
  <2>7. LookOK("find", look, path)
    BY <2>6, <1>4 DEF LookOK
  <2> QED BY <2>7, <1>6 DEF look
<1> QED BY <1>5, <1>6

\* The steps of FindStep, by what they do to the request.
Finds(path) ==
    \/ job' = [job EXCEPT !.stage = "missing"] /\ FileAt(path) = NoFile
    \/ \E stage, l : job' = [job EXCEPT !.look = l, !.stage = stage] /\ LookOK(stage, l, path)
    \/ job' = job
    \/ \E p : job' = [job EXCEPT !.look.pos = p] /\ LookOK("find", [job.look EXCEPT !.pos = p], path)

LEMMA FindStepFinds ==
    ASSUME disk \in Volumes, kernel = "up" => fat = Geometry(disk.boot),
           NEW path \in Paths, job.stage = "find", LookOK("find", job.look, path), FindStep
    PROVE  Finds(path)
<1> DEFINE look == job.look
<1> DEFINE pos == look.pos
<1> DEFINE probe == Probe(pos, Head(look.names))
<1> DEFINE next == Advance(probe.at)
<1>0. Mounted
  BY DEF FindStep, Mounted
<1>1. Walking(look, path) /\ look = [names |-> look.names, entry |-> look.entry, pos |-> pos]
  BY DEF LookOK
<1>2. \/ (look.names = << >> \/ IsEnd(EntryAt(pos))) /\ NotFound
      \/ look.names # << >> /\ ~IsEnd(EntryAt(pos)) /\ probe.hit /\ Descend(EntryAt(probe.at))
      \/ UNCHANGED job
      \/ /\ look.names # << >> /\ ~IsEnd(EntryAt(pos)) /\ ~probe.hit
         /\ BadCluster \notin {probe.at.dir, next.dir}
         /\ IF NoCluster \in {probe.at.dir, next.dir} THEN NotFound ELSE job' = [job EXCEPT !.look.pos = next]
  BY Zenon DEF FindStep
<1>3. CASE Names(path) = << >> /\ look.names = << >>
  <2>1. FileAt(path) = NoFile
    BY <1>3 DEF FileAt
  <2> QED BY <2>1, <1>2, <1>3 DEF NotFound, Finds
<1>4. ASSUME NEW k \in 0 .. Len(Names(path)) - 1, Along(look.names, path, k),
             Searching(pos, Reached(path, k).cluster, Names(path)[k + 1])
      PROVE  Finds(path)
  <2> DEFINE L == Len(Names(path))
  <2> DEFINE d == Reached(path, k).cluster
  <2> DEFINE dir == disk.dirs[d]
  <2> DEFINE name == Names(path)[k + 1]
  <2>1. L \in Nat /\ k + 1 \in 1 .. L /\ (k + 1) - 1 = k /\ 1 \in 1 .. L - k
    BY NamesFacts
  <2>2. look.names # << >> /\ Head(look.names) = name
    <3>1. look.names \in Seq(STRING) /\ Len(look.names) = L - k /\ look.names[1] = name
      BY <1>4, <2>1 DEF Along
    <3> HIDE DEF look, name
    <3>2. look.names # << >>
      BY <3>1, <2>1
    <3> QED BY <3>1, <3>2, HeadTailProperties
  <2>3. d \in DOMAIN disk.dirs
    BY <1>4 DEF Searching
  <2>4. PICK n : pos = Place(dir, n) /\ Searched(dir, name, n)
    BY <1>4 DEF Searching
  <2>5. IsDirectory(disk, dir) /\ disk \in Volumes
    BY <2>3, DirClusters
  <2>6. Plain(dir, name)
    BY <2>1, <2>3, PathFacts
  <2>7. Reached(path, k + 1) = FileIn(disk, d, name)
    BY <2>1, ReachedFacts
  <2>8. Outcome(dir, name, pos)
    <3> HIDE DEF dir, name, pos
    <3> QED BY <1>0, <2>4, <2>5, <2>6, OutcomeOfIteration
  <2>9. ASSUME NoHitBelow(dir, name, Len(dir.files) + 1) PROVE FileAt(path) = NoFile
    <3>1. FileIn(disk, d, name) = NoFile
      BY <2>3, <2>5, <2>9, NoHit
    <3> QED BY <3>1, <2>1, <2>7, NothingBelow
  <2>10. probe = Probe(pos, name)
    BY <2>2
  <2> DEFINE e == EntryAt(probe.at)
  <2>11. /\ IsEnd(EntryAt(pos)) => NoHitBelow(dir, name, Len(dir.files) + 1)
         /\ ~IsEnd(EntryAt(pos)) /\ probe.hit =>
              \E i \in 1 .. Len(dir.files) :
                  /\ NoHitBelow(dir, name, i) /\ Hit(dir.files[i], name)
                  /\ e.kind = "short" /\ e.cluster = dir.files[i].cluster /\ e.size = dir.files[i].size
         /\ ~IsEnd(EntryAt(pos)) /\ ~probe.hit => 
              /\ probe.at.dir \notin {NoCluster, BadCluster}
              /\ \/ \E m : next = Place(dir, m) /\ Searched(dir, name, m)
                 \/ next.dir = NoCluster /\ NoHitBelow(dir, name, Len(dir.files) + 1)
                 \/ next.dir = BadCluster
    <3> DEFINE pr == Probe(pos, name)
    <3>1. probe = pr
      BY <2>10
    <3> HIDE DEF dir, name, pos, probe
    <3> QED BY <3>1, <2>8, Zenon DEF Outcome
  <2> HIDE DEF next, probe, e, pos, name, dir
  <2>12. CASE IsEnd(EntryAt(pos)) /\ NotFound
    BY <2>9, <2>11, <2>12 DEF NotFound, Finds
  <2>13. CASE ~IsEnd(EntryAt(pos)) /\ probe.hit /\ Descend(EntryAt(probe.at))
    <3>1. PICK i \in 1 .. Len(dir.files) :
                  /\ NoHitBelow(dir, name, i) /\ Hit(dir.files[i], name)
                  /\ e.kind = "short" /\ e.cluster = dir.files[i].cluster /\ e.size = dir.files[i].size
      BY <2>11, <2>13
    <3>2. FileIn(disk, d, name) = dir.files[i]
      BY <2>3, <2>5, <3>1, FirstHit DEF dir
    <3>3. IsFile(disk, dir.files[i])
      BY <2>5, DirectoryFacts
    <3>4. Describes(e, dir.files[i])
      BY <3>1 DEF Describes
    <3> DEFINE l == [names |-> Tail(look.names), entry |-> e, pos |-> [dir |-> e.cluster, idx |-> 0]]
    <3> DEFINE stage == IF Len(look.names) = 1 THEN "found" ELSE "find"
    <3>5. LookOK(stage, l, path)
      <4> DEFINE names == look.names
      <4> DEFINE file == dir.files[i]
      <4>1. Along(names, path, k) /\ Reached(path, k + 1) = file /\ IsFile(disk, file) /\ Describes(e, file)
        BY <1>4, <2>7, <3>2, <3>3, <3>4
      <4> HIDE DEF names, file, d
      <4>2. LookOK(IF Len(names) = 1 THEN "found" ELSE "find",
                   [names |-> Tail(names), entry |-> e, pos |-> [dir |-> e.cluster, idx |-> 0]], path)
        BY <4>1, <2>5, WalkDescends
      <4> QED BY <4>2 DEF names
    <3>6. job' = [job EXCEPT !.look = l, !.stage = stage]
      BY <2>13 DEF Descend, e
    <3> HIDE DEF l, stage
    <3> QED BY <3>5, <3>6 DEF Finds
  <2>14. CASE /\ ~IsEnd(EntryAt(pos)) /\ ~probe.hit
              /\ BadCluster \notin {probe.at.dir, next.dir}
              /\ IF NoCluster \in {probe.at.dir, next.dir} THEN NotFound ELSE job' = [job EXCEPT !.look.pos = next]
    <3>1. /\ probe.at.dir # NoCluster /\ next.dir # BadCluster
          /\ \/ \E m : next = Place(dir, m) /\ Searched(dir, name, m)
             \/ next.dir = NoCluster /\ NoHitBelow(dir, name, Len(dir.files) + 1)
      BY <2>11, <2>14
    <3>2. CASE next.dir = NoCluster /\ NoHitBelow(dir, name, Len(dir.files) + 1)
      BY <2>9, <2>14, <3>2 DEF NotFound, Finds
    <3>3. ASSUME NEW m, next = Place(dir, m), Searched(dir, name, m) PROVE Finds(path)
      <4>1. next.dir \in Nat
        <5>1. m \in Nat /\ m < Total(dir)
          BY <3>3 DEF Searched
        <5> QED BY <5>1, <3>3, <1>0, <2>5, EntryAtPlace
      <4>2. next.dir # NoCluster
        BY <4>1 DEF NoCluster
      <4>3. job' = [job EXCEPT !.look.pos = next]
        BY <4>2, <3>1, <2>14
      <4> DEFINE l == [look EXCEPT !.pos = next]
      <4>4. l.names = look.names /\ l.pos = next /\ l = [names |-> l.names, entry |-> l.entry, pos |-> l.pos]
        <5> HIDE DEF look
        <5> QED BY <1>1
      <4>5. Searching(l.pos, Reached(path, k).cluster, Names(path)[k + 1])
        <5> HIDE DEF l
        <5> QED BY <4>4, <3>3, <2>3 DEF Searching, dir, name
      <4> HIDE DEF l
      <4>6. LookOK("find", l, path)
        BY <4>4, <4>5, <1>4 DEF LookOK, Walking
      <4> QED BY <4>3, <4>6 DEF l, Finds
    <3> QED BY <3>1, <3>2, <3>3
  <2>15. CASE UNCHANGED job
    BY <2>15 DEF Finds
  <2> QED BY <1>2, <2>2, <2>12, <2>13, <2>14, <2>15
<1> QED BY <1>1, <1>3, <1>4 DEF Walking

-----------------------------------------------------------------------------
(***************************************************************************)
(* The walk along the chain of a file.                                     *)
(***************************************************************************)

LEMMA ChainFacts ==
    ASSUME NEW v, NEW file, IsFile(v, file)
    PROVE  /\ IsChain(v, file.chain) /\ file.chain \in Seq(DOMAIN v.data) /\ Len(file.chain) \in Nat
           /\ Len(file.chain) * SectorSize \in Nat /\ Len(file.chain) * SectorSize < U32
           /\ file.kind # "deleted" => file.size \in 0 .. Len(file.chain) * SectorSize
           /\ file.chain # << >> => file.cluster = file.chain[1] /\ Len(file.chain) # 0
           /\ file.kind # "deleted" /\ file.chain = << >> => file.size = 0
<1>0. file.kind # "deleted" => file.size \in 0 .. Len(file.chain) * SectorSize
  BY DEF IsFile
<1>1. IsChain(v, file.chain)
  <2>1. CASE file.kind # "deleted"
    BY <2>1 DEF IsFile
  <2>2. CASE file.kind = "deleted"
    <3>1. file.chain = << >>
      BY <2>2 DEF IsFile
    <3>2. << >> \in Seq(DOMAIN v.data) /\ Len(<< >>) = 0 /\ DOMAIN << >> = {}
      OBVIOUS
    <3>3. 0 * SectorSize < U32
      BY SizesAssumption
    <3> QED BY <3>1, <3>2, <3>3 DEF IsChain
  <2> QED BY <2>1, <2>2
<1>2. file.chain \in Seq(DOMAIN v.data) /\ Len(file.chain) * SectorSize < U32
  BY <1>1 DEF IsChain
<1>3. Len(file.chain) \in Nat /\ (file.chain # << >> => Len(file.chain) # 0)
  BY <1>2, EmptySeq, LenProperties
<1>4. Len(file.chain) * SectorSize \in Nat
  BY <1>3, SizesAssumption
<1>5. file.chain # << >> => file.cluster = file.chain[1]
  BY DEF IsFile
<1>6. ASSUME file.kind # "deleted", file.chain = << >> PROVE file.size = 0
  <2>1. Len(file.chain) = 0
    BY <1>6
  <2>2. Len(file.chain) * SectorSize = 0
    BY <2>1, SizesAssumption
  <2> QED BY <2>2, <1>0, <1>6
<1> QED BY <1>0, <1>1, <1>2, <1>3, <1>4, <1>5, <1>6

LEMMA ContentFacts ==
    ASSUME NEW file, IsFile(disk, file)
    PROVE  /\ IsSeq(Content(file)) /\ Len(Content(file)) = Len(file.chain) * SectorSize
           /\ \A m \in 1 .. Len(file.chain), o \in 0 .. SectorSize - 1 :
                Content(file)[(m - 1) * SectorSize + o + 1] = disk.data[file.chain[m]][o + 1]
<1> DEFINE N == Len(file.chain) * SectorSize
<1> DEFINE Byte(i) == disk.data[file.chain[((i - 1) \div SectorSize) + 1]][((i - 1) % SectorSize) + 1]
<1> DEFINE C == Content(file)
<1>0. SectorSize \in Nat \ {0} /\ Len(file.chain) \in Nat /\ N \in Nat
  BY SizesAssumption, ChainFacts
<1>1. C = [i \in 1 .. N |-> Byte(i)]
  BY Zenon DEF Content
<1> HIDE DEF C
<1>2. C = [i \in 1 .. N |-> C[i]] /\ \A i \in 1 .. N : C[i] = Byte(i)
  <2> HIDE DEF Byte, N
  <2> QED BY <1>1
<1>3. IsSeq(C) /\ Len(C) = N
  <2> HIDE DEF N
  <2> QED BY <1>0, <1>2, FunctionIsSeq
<1>4. ASSUME NEW m \in 1 .. Len(file.chain), NEW o \in 0 .. SectorSize - 1
      PROVE  C[(m - 1) * SectorSize + o + 1] = disk.data[file.chain[m]][o + 1]
  <2> DEFINE q == m - 1
  <2> DEFINE x == (m - 1) * SectorSize + o
  <2>1. q \in Int /\ x \in Int /\ x = SectorSize * q + o
    BY <1>0
  <2>2. x + 1 \in 1 .. N
    <3>1. m * SectorSize <= N
      BY <1>0
    <3>2. (m - 1) * SectorSize = m * SectorSize - SectorSize /\ (m - 1) * SectorSize \in Nat
      BY <1>0
    <3> DEFINE a == (m - 1) * SectorSize
    <3> DEFINE b == m * SectorSize
    <3>3. a \in Nat /\ b \in Int /\ b <= N /\ a = b - SectorSize /\ x = a + o
      BY <3>1, <3>2, <1>0
    <3> HIDE DEF a, b, x, N
    <3> QED BY <3>3, <1>0
  <2> HIDE DEF q, x
  <2>3. x \div SectorSize = q /\ x % SectorSize = o
    BY <2>1, <1>0, Quotient
  <2>4. (x + 1) - 1 = x /\ q + 1 = m
    BY <2>1 DEF q
  <2>5. C[x + 1] = Byte(x + 1)
    BY <1>2, <2>2
  <2>6. Byte(x + 1) = disk.data[file.chain[q + 1]][o + 1]
    BY <2>3, <2>4
  <2> HIDE DEF Byte
  <2>7. C[x + 1] = disk.data[file.chain[m]][o + 1]
    BY <2>4, <2>5, <2>6
  <2> QED BY <2>7 DEF x
<1> QED BY <1>3, <1>4 DEF C

\* The variables of the loop of read_at().
LoopTyped(rd, want) ==
    /\ rd = [cluster |-> rd.cluster, skip |-> rd.skip, byte |-> rd.byte, data |-> rd.data]
    /\ IsSeq(rd.data) /\ Len(rd.data) <= want
    /\ rd.skip \in Nat /\ rd.byte \in 0 .. SectorSize - 1

\* The data are bytes of the file from the offset o on.
Copied(data, file, o) ==
    \A i \in 1 .. Len(data) : o + i <= Len(Content(file)) /\ data[i] = Content(file)[o + i]

\* The loop has gone through n clusters of the chain.
Passed(rd, file, o, want, n) ==
    /\ Copied(rd.data, file, o)
    /\ rd.skip > 0 => Len(rd.data) = 0
    /\ Len(rd.data) = want \/ (n + rd.skip) * SectorSize + rd.byte = o + Len(rd.data)

ReadOK(stage, rd, file, o, want) ==
    /\ LoopTyped(rd, want)
    /\ \/ /\ stage = "read"
          /\ file.chain # << >> =>
                \E n \in 0 .. Len(file.chain) - 1 :
                    rd.cluster = file.chain[n + 1] /\ Passed(rd, file, o, want, n)
       \/ /\ stage = "done"
          /\ file.chain # << >> => Stretch(rd.data, Content(file), o, want)

\* The copy is over when the buffer is full or the chain is at its end.
LEMMA CopyEnds ==
    ASSUME NEW file, NEW o \in Nat, NEW want \in Nat, NEW data, IsSeq(data), Len(data) <= want,
           IsSeq(Content(file)), Copied(data, file, o),
           Len(data) = want \/ o + Len(data) >= Len(Content(file))
    PROVE  Stretch(data, Content(file), o, want)
<1> DEFINE n == Len(data)
<1> DEFINE l == Len(Content(file))
<1>1. n \in Nat /\ l \in Nat /\ n <= want /\ (n = want \/ o + n >= l)
  BY SeqFacts
<1>2. n > 0 => o + n <= l
  BY <1>1 DEF Copied
<1>3. \A i \in 1 .. Len(data) : data[i] = Content(file)[o + i]
  BY DEF Copied
<1> HIDE DEF n, l
<1>4. n = IF o + want <= l THEN want ELSE IF o <= l THEN l - o ELSE 0
  BY <1>1, <1>2
<1> QED BY <1>3, <1>4 DEF Stretch, n, l

LEMMA ChunkFacts ==
    ASSUME Mounted, NEW rd, NEW want \in Nat, LoopTyped(rd, want), Len(rd.data) < want
    PROVE  /\ IsSeq(Chunk(rd, want)) /\ Len(Chunk(rd, want)) \in Nat
           /\ Len(Chunk(rd, want)) <= SectorSize - rd.byte
           /\ Len(rd.data) + Len(Chunk(rd, want)) <= want
           /\ Len(Chunk(rd, want)) = SectorSize - rd.byte \/ Len(rd.data) + Len(Chunk(rd, want)) = want
           /\ \A i \in 1 .. Len(Chunk(rd, want)) : Chunk(rd, want)[i] = ClusterByte(rd.cluster, rd.byte + i - 1)
<1> DEFINE n == Len(rd.data)
<1> DEFINE c == Min({ClusterSize - rd.byte, want - Len(rd.data)})
<1> DEFINE r == Chunk(rd, want)
<1> DEFINE B(i) == ClusterByte(rd.cluster, rd.byte + i - 1)
<1>0. SectorSize \in Nat \ {0} /\ ClusterSize = SectorSize
  BY SizesAssumption, GeometryFacts
<1>1. n \in Nat /\ rd.byte \in 0 .. SectorSize - 1 /\ n < want
  BY SeqFacts DEF LoopTyped
<1>2. r = [i \in 1 .. c |-> B(i)]
  BY Zenon DEF Chunk
<1> DEFINE b == SectorSize - rd.byte
<1>3. b \in Nat /\ want - n \in Nat /\ c = Min({b, want - n})
  BY <1>0, <1>1
<1> HIDE DEF b, n, r, B, c
<1>4. (b <= want - n /\ c = b) \/ (~(b <= want - n) /\ c = want - n)
  BY <1>3, LeastOfTwo
<1>5. c \in Nat /\ c <= b /\ n + c <= want /\ (c = b \/ n + c = want)
  BY <1>1, <1>3, <1>4
<1>6. r = [i \in 1 .. c |-> r[i]] /\ \A i \in 1 .. c : r[i] = B(i)
  BY <1>2
<1>7. IsSeq(r) /\ Len(r) = c
  BY <1>5, <1>6, FunctionIsSeq
<1> QED BY <1>5, <1>6, <1>7 DEF r, B, n, b

\* A cluster is skipped.
LEMMA SkipPasses ==
    ASSUME NEW rd, NEW want \in Nat, LoopTyped(rd, want), rd.skip > 0
    PROVE  LET step == [rd EXCEPT !.skip = @ - 1]
           IN  /\ LoopTyped(step, want) /\ step.cluster = rd.cluster
               /\ \A file, o, n : n \in Nat /\ o \in Nat /\ Len(rd.data) < want /\ Passed(rd, file, o, want, n)
                                    => Passed(step, file, o, want, n + 1)
<1> DEFINE step == [rd EXCEPT !.skip = @ - 1]
<1>1. /\ rd = [cluster |-> rd.cluster, skip |-> rd.skip, byte |-> rd.byte, data |-> rd.data]
      /\ IsSeq(rd.data) /\ Len(rd.data) <= want
      /\ rd.skip \in Nat /\ rd.byte \in 0 .. SectorSize - 1
  BY DEF LoopTyped
<1>2. /\ step = [cluster |-> step.cluster, skip |-> step.skip, byte |-> step.byte, data |-> step.data]
      /\ step.cluster = rd.cluster /\ step.skip = rd.skip - 1 /\ step.byte = rd.byte /\ step.data = rd.data
  BY <1>1
<1> HIDE DEF step
<1>3. LoopTyped(step, want)
  BY <1>1, <1>2 DEF LoopTyped
<1>4. ASSUME NEW file, NEW o, NEW n, n \in Nat, o \in Nat, Len(rd.data) < want, Passed(rd, file, o, want, n)
      PROVE  Passed(step, file, o, want, n + 1)
  <2>1. Len(rd.data) \in Nat /\ Len(rd.data) # want
    BY <1>1, <1>4, SeqFacts
  <2>2. Len(rd.data) = 0 /\ (n + rd.skip) * SectorSize + rd.byte = o + Len(rd.data) /\ Copied(rd.data, file, o)
    BY <2>1, <1>4 DEF Passed
  <2>3. (n + 1) + step.skip = n + rd.skip
    BY <1>1, <1>2, <1>4
  <2> QED BY <2>2, <2>3, <1>2 DEF Passed
<1> QED BY <1>2, <1>3, <1>4 DEF step

\* A cluster is copied.
LEMMA CopyPasses ==
    ASSUME Mounted, NEW rd, NEW want \in Nat, LoopTyped(rd, want), rd.skip = 0, Len(rd.data) < want
    PROVE  LET step == [rd EXCEPT !.data = @ \o Chunk(rd, want), !.byte = 0]
           IN  /\ LoopTyped(step, want) /\ step.cluster = rd.cluster
               /\ \A file, o : \A n \in 0 .. Len(file.chain) - 1 :
                    /\ o \in Nat /\ IsFile(disk, file) /\ rd.cluster = file.chain[n + 1]
                    /\ Passed(rd, file, o, want, n)
                    => Passed(step, file, o, want, n + 1)
<1> DEFINE step == [rd EXCEPT !.data = @ \o Chunk(rd, want), !.byte = 0]
<1> DEFINE r == Chunk(rd, want)
<1> DEFINE data == rd.data \o Chunk(rd, want)
<1>0. SectorSize \in Nat \ {0}
  BY SizesAssumption
<1>1. /\ rd = [cluster |-> rd.cluster, skip |-> rd.skip, byte |-> rd.byte, data |-> rd.data]
      /\ IsSeq(rd.data) /\ Len(rd.data) \in Nat /\ rd.byte \in 0 .. SectorSize - 1
  BY SeqFacts DEF LoopTyped
<1>2. /\ step = [cluster |-> step.cluster, skip |-> step.skip, byte |-> step.byte, data |-> step.data]
      /\ step.cluster = rd.cluster /\ step.skip = rd.skip /\ step.byte = 0 /\ step.data = data
  <2> HIDE DEF data
  <2>1. step = [rd EXCEPT !.data = data, !.byte = 0]
    BY DEF data
  <2> HIDE DEF step
  <2> QED BY <2>1, <1>1
<1>3. /\ IsSeq(r) /\ Len(r) \in Nat /\ Len(r) <= SectorSize - rd.byte /\ Len(rd.data) + Len(r) <= want
      /\ Len(r) = SectorSize - rd.byte \/ Len(rd.data) + Len(r) = want
      /\ \A i \in 1 .. Len(r) : r[i] = ClusterByte(rd.cluster, rd.byte + i - 1)
  BY ChunkFacts
<1>4. Joined(data, rd.data, r)
  BY <1>1, <1>3, ConcatJoins
<1> HIDE DEF step, data, r
<1>5. IsSeq(data) /\ Len(data) = Len(rd.data) + Len(r)
  BY <1>4 DEF Joined
<1>6. LoopTyped(step, want)
  BY <1>0, <1>2, <1>3, <1>5 DEF LoopTyped
<1>7. ASSUME NEW file, NEW o, NEW n \in 0 .. Len(file.chain) - 1, o \in Nat, IsFile(disk, file),
             rd.cluster = file.chain[n + 1], Passed(rd, file, o, want, n)
      PROVE  Passed(step, file, o, want, n + 1)
  <2> DEFINE p == n * SectorSize
  <2> DEFINE d == Len(rd.data)
  <2> DEFINE L == Len(Content(file))
  <2>1. Len(file.chain) \in Nat /\ L = Len(file.chain) * SectorSize /\ file.chain \in Seq(DOMAIN disk.data)
    BY <1>7, ChainFacts, ContentFacts
  <2>2. n \in Nat /\ n + 1 \in 1 .. Len(file.chain) /\ (n + 1) - 1 = n
    BY <2>1
  <2>3. p \in Nat /\ (n + 1) * SectorSize = p + SectorSize /\ (n + rd.skip) * SectorSize = p
    <3>1. n + rd.skip = n
      BY <2>2
    <3>2. (n + 1) * SectorSize = p + SectorSize /\ p \in Nat
      BY <1>0, <2>2
    <3> QED BY <3>1, <3>2
  <2>4. p + SectorSize <= L
    <3>1. n + 1 <= Len(file.chain)
      BY <2>1, <2>2
    <3>2. (n + 1) * SectorSize <= Len(file.chain) * SectorSize
      BY <3>1, <1>0, <2>1, <2>2, ClustersBelow
    <3> QED BY <3>2, <2>1, <2>3
  <2>5. Copied(rd.data, file, o) /\ p + rd.byte = o + d
    <3>1. d # want
      BY <1>1
    <3> QED BY <3>1, <2>3, <1>7 DEF Passed
  <2>12. L \in Nat
    BY <2>1, <1>0
  <2> HIDE DEF p, L
  <2>6. ASSUME NEW i \in 1 .. Len(r)
        PROVE  o + (d + i) <= L /\ r[i] = Content(file)[o + (d + i)]
    <3> DEFINE x == rd.byte + i - 1
    <3>1. x \in 0 .. SectorSize - 1 /\ o + (d + i) = p + x + 1 /\ o + (d + i) <= L
      <4> DEFINE b == rd.byte
      <4> DEFINE l == Len(r)
      <4>1. b \in 0 .. SectorSize - 1 /\ l \in Nat /\ l <= SectorSize - b /\ d \in Nat /\ p + b = o + d /\ i \in 1 .. l
        BY <1>1, <1>3, <2>5
      <4>2. o \in Nat /\ p \in Nat /\ p + SectorSize <= L
        BY <1>7, <2>3, <2>4
      <4>3. x = b + i - 1
        OBVIOUS
      <4> HIDE DEF b, l, d, x
      <4> QED BY <4>1, <4>2, <4>3, <1>0, <2>12
    <3>2. file.chain[n + 1] \in DOMAIN disk.data
      BY <2>1, <2>2
    <3> HIDE DEF x
    <3>3. ClusterByte(file.chain[n + 1], x) = disk.data[file.chain[n + 1]][x + 1]
      BY <3>1, <3>2, ByteOfCluster
    <3>4. Content(file)[((n + 1) - 1) * SectorSize + x + 1] = disk.data[file.chain[n + 1]][x + 1]
      BY <3>1, <2>2, <1>7, ContentFacts
    <3>5. ((n + 1) - 1) * SectorSize = p
      BY <2>2 DEF p
    <3>6. r[i] = ClusterByte(rd.cluster, x)
      BY <1>3 DEF x
    <3> QED BY <3>1, <3>3, <3>4, <3>5, <3>6, <1>7
  <2>7. ASSUME NEW i \in 1 .. Len(data) PROVE o + i <= L /\ data[i] = Content(file)[o + i]
    <3>1. CASE i \in 1 .. d
      <4>1. data[i] = rd.data[i]
        BY <3>1, <1>4 DEF Joined
      <4>2. o + i <= L /\ rd.data[i] = Content(file)[o + i]
        BY <3>1, <2>5 DEF Copied, L
      <4> QED BY <4>1, <4>2
    <3>2. CASE ~(i \in 1 .. d)
      <4> DEFINE j == i - d
      <4>1. j \in 1 .. Len(r) /\ d + j = i
        BY <3>2, <1>1, <1>3, <1>5
      <4> HIDE DEF j
      <4>2. data[d + j] = r[j]
        BY <4>1, <1>4 DEF Joined
      <4>3. o + (d + j) <= L /\ r[j] = Content(file)[o + (d + j)]
        BY <4>1, <2>6
      <4> QED BY <4>1, <4>2, <4>3
    <3> QED BY <3>1, <3>2
  <2>8. Copied(data, file, o)
    BY <2>7 DEF Copied, L
  <2>9. Len(data) = want \/ ((n + 1) + step.skip) * SectorSize + step.byte = o + Len(data)
    <3>1. CASE d + Len(r) = want
      BY <3>1, <1>5
    <3>2. CASE Len(r) = SectorSize - rd.byte
      <4>1. (n + 1) + step.skip = n + 1
        BY <1>2, <2>2
      <4>2. (p + SectorSize) + 0 = o + (d + Len(r))
        <5> DEFINE b == rd.byte
        <5> DEFINE l == Len(r)
        <5>1. b \in 0 .. SectorSize - 1 /\ l = SectorSize - b /\ d \in Nat /\ p + b = o + d
          BY <3>2, <1>1, <2>5
        <5>2. o \in Nat /\ p \in Nat
          BY <1>7, <2>3
        <5> HIDE DEF b, l, d
        <5>3. (p + SectorSize) + 0 = o + (d + l)
          BY <5>1, <5>2, <1>0
        <5> QED BY <5>3 DEF l
      <4> QED BY <4>1, <4>2, <1>2, <1>5, <2>3
    <3> QED BY <3>1, <3>2, <1>3
  <2>10. ~(step.skip > 0)
    BY <1>2
  <2> QED BY <2>8, <2>9, <2>10, <1>2 DEF Passed
<1> QED BY <1>2, <1>6, <1>7 DEF step

LEMMA ReadStarts ==
    ASSUME Mounted, NEW file, IsFile(disk, file), NEW e, Describes(e, file), NEW offset \in Nat, NEW want \in Nat
    PROVE  ReadOK("read", StartRead(e, offset), file, offset % U32, want)
<1> DEFINE o == offset % U32
<1> DEFINE q == o \div SectorSize
<1> DEFINE b == o % SectorSize
<1> DEFINE rd == StartRead(e, offset)
<1>0. SectorSize \in Nat \ {0} /\ U32 \in Nat \ {0} /\ ClusterSize = SectorSize
  BY SizesAssumption, GeometryFacts
<1>1. o \in Nat
  BY <1>0, ModIn
<1>2. rd = [cluster |-> e.cluster, skip |-> q, byte |-> b, data |-> << >>]
  BY <1>0 DEF StartRead
<1> HIDE DEF o, rd
<1>3. q \in Nat /\ b \in 0 .. SectorSize - 1 /\ o = SectorSize * q + b
  <2>1. q \in Nat
    BY <1>0, <1>1, DivNatural
  <2>2. b \in 0 .. SectorSize - 1
    BY <1>0, <1>1, ModIn
  <2>3. o = SectorSize * q + b
    BY <1>0, <1>1, DivMod
  <2> QED BY <2>1, <2>2, <2>3
<1> HIDE DEF q, b
<1>4. /\ rd = [cluster |-> rd.cluster, skip |-> rd.skip, byte |-> rd.byte, data |-> rd.data]
      /\ rd.cluster = e.cluster /\ rd.skip = q /\ rd.byte = b /\ rd.data = << >>
  BY <1>2
<1>5. IsSeq(<< >>) /\ Len(<< >>) = 0
  <2>1. << >> \in Seq({})
    OBVIOUS
  <2> QED BY <2>1 DEF IsSeq
<1>6. LoopTyped(rd, want)
  BY <1>3, <1>4, <1>5 DEF LoopTyped
<1>7. ASSUME file.chain # << >>
      PROVE  \E n \in 0 .. Len(file.chain) - 1 : rd.cluster = file.chain[n + 1] /\ Passed(rd, file, o, want, n)
  <2>1. Len(file.chain) \in Nat \ {0} /\ file.cluster = file.chain[1]
    BY <1>7, ChainFacts
  <2>2. rd.cluster = file.chain[0 + 1] /\ 0 \in 0 .. Len(file.chain) - 1
    BY <2>1, <1>4 DEF Describes
  <2>3. (0 + rd.skip) * SectorSize + rd.byte = o + Len(rd.data)
    <3>1. 0 + q = q /\ q * SectorSize = SectorSize * q /\ o + 0 = o
      BY <1>0, <1>1, <1>3
    <3> QED BY <3>1, <1>3, <1>4, <1>5
  <2>4. Passed(rd, file, o, want, 0)
    BY <2>3, <1>4, <1>5 DEF Passed, Copied
  <2> QED BY <2>2, <2>4
<1>8. ReadOK("read", rd, file, o, want)
  BY <1>6, <1>7 DEF ReadOK
<1> QED BY <1>8 DEF rd, o

\* The variables after an iteration, before the next cluster is looked up.
Step(rd, want) ==
    IF rd.skip > 0 THEN [rd EXCEPT !.skip = @ - 1]
    ELSE [rd EXCEPT !.data = @ \o Chunk(rd, want), !.byte = 0]

LEMMA StepPasses ==
    ASSUME Mounted, NEW rd, NEW want \in Nat, LoopTyped(rd, want), Len(rd.data) < want
    PROVE  /\ LoopTyped(Step(rd, want), want) /\ Step(rd, want).cluster = rd.cluster
           /\ \A file, o : \A n \in 0 .. Len(file.chain) - 1 :
                /\ o \in Nat /\ IsFile(disk, file) /\ rd.cluster = file.chain[n + 1]
                /\ Passed(rd, file, o, want, n)
                => Passed(Step(rd, want), file, o, want, n + 1)
<1> DEFINE s == Step(rd, want)
<1>1. rd.skip \in Nat
  BY DEF LoopTyped
<1>2. CASE rd.skip > 0
  <2>1. s = [rd EXCEPT !.skip = @ - 1]
    BY <1>2 DEF Step
  <2> HIDE DEF s
  <2>2. /\ LoopTyped(s, want) /\ s.cluster = rd.cluster
        /\ \A file, o, n : n \in Nat /\ o \in Nat /\ Len(rd.data) < want /\ Passed(rd, file, o, want, n)
                              => Passed(s, file, o, want, n + 1)
    BY <2>1, <1>2, SkipPasses
  <2>3. ASSUME NEW file, NEW o, NEW n \in 0 .. Len(file.chain) - 1, o \in Nat, IsFile(disk, file),
               rd.cluster = file.chain[n + 1], Passed(rd, file, o, want, n)
        PROVE  Passed(s, file, o, want, n + 1)
    <3>1. n \in Nat
      BY <2>3, ChainFacts
    <3> QED BY <3>1, <2>2, <2>3
  <2> QED BY <2>2, <2>3 DEF s
<1>3. CASE ~(rd.skip > 0)
  <2>1. s = [rd EXCEPT !.data = @ \o Chunk(rd, want), !.byte = 0]
    BY <1>3 DEF Step
  <2>2. rd.skip = 0
    BY <1>1, <1>3
  <2> HIDE DEF s
  <2>3. /\ LoopTyped(s, want) /\ s.cluster = rd.cluster
        /\ \A file, o : \A n \in 0 .. Len(file.chain) - 1 :
                    /\ o \in Nat /\ IsFile(disk, file) /\ rd.cluster = file.chain[n + 1]
                    /\ Passed(rd, file, o, want, n)
                    => Passed(s, file, o, want, n + 1)
    BY <2>1, <2>2, CopyPasses
  <2> QED BY <2>3 DEF s
<1> QED BY <1>2, <1>3

\* The steps of ReadStep, by what they do to the request.
Reads(file, o, want) ==
    \/ job' = [job EXCEPT !.stage = "done"] /\ ReadOK("done", job.rd, file, o, want)
    \/ job' = job
    \/ \E r : job' = [job EXCEPT !.rd = r, !.stage = "done"] /\ ReadOK("done", r, file, o, want)
    \/ \E r : job' = [job EXCEPT !.rd = r] /\ ReadOK("read", r, file, o, want)

LEMMA ReadStepReads ==
    ASSUME disk \in Volumes, kernel = "up" => fat = Geometry(disk.boot),
           NEW file, IsFile(disk, file), NEW o \in Nat, NEW want \in Nat,
           job.stage = "read", job.want = want, ReadOK("read", job.rd, file, o, want), ReadStep
    PROVE  Reads(file, o, want)
<1> DEFINE rd == job.rd
<1> DEFINE next == NextCluster(rd.cluster)
<1> DEFINE step == Step(rd, want)
<1> DEFINE C == Content(file)
<1> DEFINE L == Len(file.chain)
<1>0. Mounted
  BY DEF ReadStep, Mounted
<1>1. /\ LoopTyped(rd, want)
      /\ file.chain # << >> =>
             \E n \in 0 .. L - 1 : rd.cluster = file.chain[n + 1] /\ Passed(rd, file, o, want, n)
  BY DEF ReadOK
<1>2. \/ Len(rd.data) >= want /\ job' = [job EXCEPT !.stage = "done"]
      \/ job' = job
      \/ /\ Len(rd.data) < want /\ next # BadCluster
         /\ job' = IF next = NoCluster
                   THEN [job EXCEPT !.rd = step, !.stage = "done"]
                   ELSE [job EXCEPT !.rd = [step EXCEPT !.cluster = next]]
  <2>1. job.want = want
    OBVIOUS
  <2> QED BY <2>1 DEF ReadStep, Step
<1>3. IsSeq(rd.data) /\ Len(rd.data) \in Nat /\ Len(rd.data) <= want
  BY <1>1, SeqFacts DEF LoopTyped
<1>4. IsSeq(C) /\ Len(C) = L * SectorSize /\ L \in Nat /\ SectorSize \in Nat \ {0} /\ IsChain(disk, file.chain)
  BY ContentFacts, ChainFacts, SizesAssumption
<1> HIDE DEF rd, next, step
<1>5. CASE Len(rd.data) >= want /\ job' = [job EXCEPT !.stage = "done"]
  <2>1. Len(rd.data) = want
    BY <1>3, <1>5
  <2>2. ASSUME file.chain # << >> PROVE Stretch(rd.data, C, o, want)
    <3>1. Copied(rd.data, file, o)
      BY <2>2, <1>1 DEF Passed
    <3> QED BY <3>1, <2>1, <1>3, <1>4, CopyEnds
  <2>3. ReadOK("done", rd, file, o, want)
    BY <2>2, <1>1 DEF ReadOK
  <2> QED BY <2>3, <1>5 DEF Reads, rd
<1>6. CASE /\ Len(rd.data) < want /\ next # BadCluster
           /\ job' = IF next = NoCluster
                     THEN [job EXCEPT !.rd = step, !.stage = "done"]
                     ELSE [job EXCEPT !.rd = [step EXCEPT !.cluster = next]]
  <2>1. LoopTyped(step, want) /\ step.cluster = rd.cluster
    BY <1>0, <1>1, <1>6, StepPasses DEF step
  <2>2. ASSUME NEW n \in 0 .. L - 1, rd.cluster = file.chain[n + 1], Passed(rd, file, o, want, n)
        PROVE  /\ Passed(step, file, o, want, n + 1)
               /\ n + 1 < L => next = file.chain[n + 2] /\ next # NoCluster
               /\ n + 1 = L => next = NoCluster
    <3>1. Passed(step, file, o, want, n + 1)
      BY <2>2, <1>0, <1>1, <1>6, StepPasses DEF step
    <3>2. n + 1 \in 1 .. Len(file.chain) /\ (n + 1) + 1 = n + 2
      BY <1>4
    <3> DEFINE i == n + 1
    <3> HIDE DEF i
    <3>3. i \in 1 .. Len(file.chain)
      BY <3>2 DEF i
    <3>4. /\ i < Len(file.chain) => NextCluster(file.chain[i]) = file.chain[i + 1] /\ file.chain[i + 1] \in Nat
          /\ i = Len(file.chain) => NextCluster(file.chain[i]) \in {NoCluster, BadCluster}
      BY <3>3, <1>0, <1>4, NextInChain
    <3>5. i < L => next = file.chain[n + 2] /\ next # NoCluster
      BY <3>2, <3>4, <2>2 DEF i, next, NoCluster
    <3>6. i = L => next = NoCluster
      BY <3>4, <2>2, <1>6 DEF i, next
    <3> QED BY <3>1, <3>5, <3>6 DEF i
  <2>3. CASE next = NoCluster
    <3>1. job' = [job EXCEPT !.rd = step, !.stage = "done"]
      BY <2>3, <1>6
    <3>2. ASSUME file.chain # << >> PROVE Stretch(step.data, C, o, want)
      <4>1. PICK n \in 0 .. L - 1 : rd.cluster = file.chain[n + 1] /\ Passed(rd, file, o, want, n)
        BY <3>2, <1>1
      <4>2. Passed(step, file, o, want, n + 1) /\ n + 1 = L
        <5>1. n + 1 < L \/ n + 1 = L
          BY <1>4
        <5> QED BY <5>1, <4>1, <2>2, <2>3
      <4>3. /\ Copied(step.data, file, o)
            /\ Len(step.data) = want \/ (L + step.skip) * SectorSize + step.byte = o + Len(step.data)
        BY <4>2 DEF Passed
      <4>4. IsSeq(step.data) /\ Len(step.data) <= want /\ step.skip \in Nat /\ step.byte \in Nat /\ Len(step.data) \in Nat
        BY <2>1, SeqFacts DEF LoopTyped
      <4>5. (L + step.skip) * SectorSize >= L * SectorSize /\ (L + step.skip) * SectorSize \in Nat
        <5> DEFINE k == step.skip
        <5>1. k \in Nat
          BY <4>4
        <5> HIDE DEF k, L
        <5>2. (L + k) * SectorSize = L * SectorSize + k * SectorSize /\ k * SectorSize \in Nat /\ L * SectorSize \in Nat
          BY <5>1, <1>4
        <5>3. (L + k) * SectorSize >= L * SectorSize /\ (L + k) * SectorSize \in Nat
          BY <5>2
        <5> QED BY <5>3 DEF k
      <4>6. Len(step.data) = want \/ o + Len(step.data) >= Len(C)
        <5> DEFINE z == (L + step.skip) * SectorSize
        <5> DEFINE b == step.byte
        <5> DEFINE l == Len(step.data)
        <5>1. /\ z \in Nat /\ z >= L * SectorSize /\ b \in Nat /\ l \in Nat /\ L * SectorSize \in Nat
              /\ l = want \/ z + b = o + l
          BY <4>3, <4>4, <4>5, <1>4
        <5> DEFINE y == L * SectorSize
        <5> HIDE DEF z, b, l, y
        <5>2. l = want \/ o + l >= y
          BY <5>1 DEF y
        <5> QED BY <5>2, <1>4 DEF l, y
      <4> QED BY <4>3, <4>4, <4>6, <1>4, CopyEnds
    <3>3. ReadOK("done", step, file, o, want)
      BY <3>2, <2>1 DEF ReadOK
    <3> QED BY <3>1, <3>3 DEF Reads
  <2>4. CASE next # NoCluster
    <3> DEFINE r == [step EXCEPT !.cluster = next]
    <3>1. job' = [job EXCEPT !.rd = r]
      BY <2>4, <1>6
    <3>2. /\ r = [cluster |-> r.cluster, skip |-> r.skip, byte |-> r.byte, data |-> r.data]
          /\ r.cluster = next /\ r.skip = step.skip /\ r.byte = step.byte /\ r.data = step.data
      <4>1. step = [cluster |-> step.cluster, skip |-> step.skip, byte |-> step.byte, data |-> step.data]
        BY <2>1 DEF LoopTyped
      <4> QED BY <4>1
    <3> HIDE DEF r
    <3>3. LoopTyped(r, want)
      BY <3>2, <2>1 DEF LoopTyped
    <3>4. ASSUME file.chain # << >>
          PROVE  \E n \in 0 .. L - 1 : r.cluster = file.chain[n + 1] /\ Passed(r, file, o, want, n)
      <4>1. PICK n \in 0 .. L - 1 : rd.cluster = file.chain[n + 1] /\ Passed(rd, file, o, want, n)
        BY <3>4, <1>1
      <4>2. n + 1 < L /\ Passed(step, file, o, want, n + 1) /\ next = file.chain[n + 2]
        <5>1. n + 1 < L \/ n + 1 = L
          BY <1>4
        <5> QED BY <5>1, <4>1, <2>2, <2>4
      <4>3. n + 1 \in 0 .. L - 1 /\ (n + 1) + 1 = n + 2
        BY <4>2, <1>4
      <4>4. Passed(r, file, o, want, n + 1)
        BY <4>2, <3>2 DEF Passed
      <4>5. r.cluster = file.chain[(n + 1) + 1]
        BY <4>2, <4>3, <3>2
      <4> QED BY <4>3, <4>4, <4>5
    <3>5. ReadOK("read", r, file, o, want)
      BY <3>3, <3>4 DEF ReadOK
    <3> QED BY <3>1, <3>5 DEF Reads
  <2> QED BY <2>3, <2>4
<1>7. CASE job' = job
  BY <1>7 DEF Reads
<1> QED BY <1>2, <1>5, <1>6, <1>7

-----------------------------------------------------------------------------
(***************************************************************************)
(* The invariant of the file system.                                       *)
(***************************************************************************)

\* Requests: an open, a read that looks for its file, and one that reads it.
Opening(stage, c, fd, path, look) ==
    [stage |-> stage, client |-> c, op |-> "open", fd |-> fd, path |-> path, look |-> look]
Seeking(stage, c, fd, want, look) ==
    [stage |-> stage, client |-> c, op |-> "read", fd |-> fd, want |-> want, look |-> look]
Reading(stage, c, fd, want, rd) ==
    [stage |-> stage, client |-> c, op |-> "read", fd |-> fd, want |-> want, rd |-> rd]

\* An open file: it exists and has the size of its entry.
OpenOK(f) ==
    /\ f \in [path : Paths, offset : Nat, size : Nat]
    /\ FileAt(f.path) # NoFile /\ f.size = FileAt(f.path).size

TableOK ==
    /\ curr_fd \in Nat
    /\ \A fd \in DOMAIN desc_table : fd \in Nat /\ fd < curr_fd /\ OpenOK(desc_table[fd])

\* What was read is a stretch of the file from where the descriptor was positioned.
StreamsFrom(s, f) ==
    /\ s = [from |-> s.from, data |-> s.data]
    /\ s.from \in 0 .. Usize - 1 /\ IsSeq(s.data)
    /\ f.offset = (s.from + Len(s.data)) % Usize
    /\ FileAt(f.path).chain # << >> /\ s.from < U32 =>
        Stretch(s.data, Content(FileAt(f.path)), s.from, Len(s.data))

StreamOK ==
    /\ DOMAIN stream = DOMAIN desc_table
    /\ \A fd \in DOMAIN desc_table : StreamsFrom(stream[fd], desc_table[fd])

\* load_exe() has a descriptor, which is where it was opened unless a program uses it.
Holds(c) == load[c].at \in {"size", "buffer", "read"}

Whole(path, data) == FileAt(path).kind # "deleted" => data = SubSeq(Content(FileAt(path)), 1, FileAt(path).size)

LoadOK ==
    /\ DOMAIN load = Callers
    /\ \A c \in Callers : Holds(c) =>
        /\ load[c].fd \in DOMAIN desc_table /\ desc_table[load[c].fd].path = load[c].path
        /\ load[c].fd \notin touched => desc_table[load[c].fd].offset = 0
    /\ \A c \in Callers : load[c].at = "buffer" => load[c].size = desc_table[load[c].fd].size
    /\ \A b, c \in Callers : Holds(b) /\ Holds(c) /\ b # c => load[b].fd # load[c].fd
    /\ \A c \in Callers : load[c].at = "loaded" /\ load[c].fd \notin touched => Whole(load[c].path, load[c].data)

\* A read is made by a program, with any descriptor, or by load_exe() with its own.
Reader(c, fd, want) ==
    \/ load[c].at = "no" /\ fd \in touched
    \/ load[c].at = "read" /\ load[c].fd = fd /\ want = desc_table[fd].size

IsOpening ==
    \E stage, c, fd, path, look :
        /\ job = Opening(stage, c, fd, path, look)
        /\ c \in Callers /\ path \in Paths /\ LookOK(stage, look, path)
        /\ fd \in Nat /\ fd < curr_fd /\ fd \notin DOMAIN desc_table
        /\ load[c].at \in {"no", "open"}

IsSeeking ==
    \E stage, c, fd, want, look :
        /\ job = Seeking(stage, c, fd, want, look)
        /\ c \in Callers /\ fd \in DOMAIN desc_table /\ want \in Nat /\ Reader(c, fd, want)
        /\ LookOK(stage, look, desc_table[fd].path)

IsReading ==
    \E stage, c, fd, want, rd :
        /\ job = Reading(stage, c, fd, want, rd)
        /\ c \in Callers /\ fd \in DOMAIN desc_table /\ want \in Nat /\ Reader(c, fd, want)
        /\ ReadOK(stage, rd, FileAt(desc_table[fd].path), desc_table[fd].offset % U32, want)

DiskOK == disk \in Volumes /\ (kernel = "up" => fat = Geometry(disk.boot))

JobOK == job = NoJob \/ IsOpening \/ IsSeeking \/ IsReading

FsInv == DiskOK /\ TableOK /\ StreamOK /\ LoadOK /\ JobOK

\* The disk is only read.
LEMMA DiskFixed ==
    ASSUME disk' = disk
    PROVE  /\ \A path : FileAt(path)' = FileAt(path)
           /\ \A file : Content(file)' = Content(file)
           /\ \A stage, look, path : LookOK(stage, look, path)' <=> LookOK(stage, look, path)
           /\ \A stage, rd, file, o, want : ReadOK(stage, rd, file, o, want)' <=> ReadOK(stage, rd, file, o, want)
           /\ \A f : OpenOK(f)' <=> OpenOK(f)
           /\ \A s, f : StreamsFrom(s, f)' <=> StreamsFrom(s, f)
           /\ \A path, data : Whole(path, data)' <=> Whole(path, data)
<1>1. \A path : FileAt(path)' = FileAt(path)
  BY DEF FileAt
<1>2. \A file : Content(file)' = Content(file)
  BY DEF Content
<1>3. \A path, k : Reached(path, k)' = Reached(path, k)
  BY DEF Reached
<1>4. \A pos, d, name : Searching(pos, d, name)' <=> Searching(pos, d, name)
  BY DEF Searching
<1>5. \A look, path : Walking(look, path)' <=> Walking(look, path)
  BY <1>3, <1>4 DEF Walking
<1>6. \A stage, look, path : LookOK(stage, look, path)' <=> LookOK(stage, look, path)
  BY <1>1, <1>5 DEF LookOK
<1>7. \A data, file, o : Copied(data, file, o)' <=> Copied(data, file, o)
  BY <1>2 DEF Copied
<1>8. \A rd, file, o, want, n : Passed(rd, file, o, want, n)' <=> Passed(rd, file, o, want, n)
  BY <1>7 DEF Passed
<1>9. \A stage, rd, file, o, want : ReadOK(stage, rd, file, o, want)' <=> ReadOK(stage, rd, file, o, want)
  BY <1>2, <1>8 DEF ReadOK
<1>10. \A f : OpenOK(f)' <=> OpenOK(f)
  BY <1>1 DEF OpenOK
<1>11. \A s, f : StreamsFrom(s, f)' <=> StreamsFrom(s, f)
  BY <1>1, <1>2 DEF StreamsFrom
<1>12. \A path, data : Whole(path, data)' <=> Whole(path, data)
  BY <1>1, <1>2 DEF Whole
<1> QED BY <1>1, <1>2, <1>6, <1>9, <1>10, <1>11, <1>12

LEMMA TablesStay ==
    ASSUME FsInv, disk' = disk, UNCHANGED <<desc_table, stream>>, curr_fd' \in Nat, curr_fd <= curr_fd'
    PROVE  TableOK' /\ StreamOK'
<1>1. TableOK /\ StreamOK
  BY DEF FsInv
<1>2. TableOK'
  <2> SUFFICES ASSUME NEW fd \in DOMAIN desc_table PROVE fd \in Nat /\ fd < curr_fd' /\ OpenOK(desc_table[fd])'
    BY <1>1 DEF TableOK
  <2>1. fd \in Nat /\ fd < curr_fd /\ curr_fd \in Nat /\ OpenOK(desc_table[fd])
    BY <1>1 DEF TableOK
  <2>2. OpenOK(desc_table[fd])'
    BY <2>1, DiskFixed
  <2> QED BY <2>1, <2>2
<1>3. StreamOK'
  <2>1. \A fd \in DOMAIN desc_table : StreamsFrom(stream[fd], desc_table[fd])'
    BY <1>1, DiskFixed DEF StreamOK
  <2> QED BY <2>1, <1>1 DEF StreamOK
<1> QED BY <1>2, <1>3

LEMMA LoadsStay ==
    ASSUME FsInv, disk' = disk, UNCHANGED <<desc_table, load>>, touched \subseteq touched'
    PROVE  LoadOK'
<1>1. LoadOK
  BY DEF FsInv
<1>2. \A c \in Callers : Holds(c)' <=> Holds(c)
  BY DEF Holds
<1>3. \A c \in Callers : load[c].at = "loaded" /\ load[c].fd \notin touched => Whole(load[c].path, load[c].data)'
  BY <1>1, DiskFixed DEF LoadOK
<1> QED BY <1>1, <1>2, <1>3 DEF LoadOK

\* Nothing the request depends on has changed.
LEMMA JobStays ==
    ASSUME FsInv, disk' = disk, UNCHANGED <<job, desc_table, touched, curr_fd>>,
           \A b \in Callers : load[b].at \in {"no", "open", "read"} => load'[b] = load[b]
    PROVE  JobOK'
<1>1. JobOK
  BY DEF FsInv
<1>2. CASE job = NoJob
  BY <1>2 DEF JobOK
<1>3. CASE IsOpening
  <2>1. PICK stage, c, fd, path, look :
        /\ job = Opening(stage, c, fd, path, look)
        /\ c \in Callers /\ path \in Paths /\ LookOK(stage, look, path)
        /\ fd \in Nat /\ fd < curr_fd /\ fd \notin DOMAIN desc_table
        /\ load[c].at \in {"no", "open"}
    BY <1>3, Zenon DEF IsOpening
  <2>2. LookOK(stage, look, path)' /\ load'[c] = load[c]
    BY <2>1, DiskFixed
  <2>3. IsOpening'
    <3>1. job' = Opening(stage, c, fd, path, look) /\ curr_fd' = curr_fd /\ desc_table' = desc_table
      BY <2>1
    <3> QED BY <3>1, <2>1, <2>2 DEF IsOpening
  <2> QED BY <2>3 DEF JobOK
<1>4. CASE IsSeeking
  <2>1. PICK stage, c, fd, want, look :
        /\ job = Seeking(stage, c, fd, want, look)
        /\ c \in Callers /\ fd \in DOMAIN desc_table /\ want \in Nat /\ Reader(c, fd, want)
        /\ LookOK(stage, look, desc_table[fd].path)
    BY <1>4, Zenon DEF IsSeeking
  <2>2. LookOK(stage, look, desc_table[fd].path)' /\ load'[c] = load[c]
    BY <2>1, DiskFixed DEF Reader
  <2>3. Reader(c, fd, want)'
    BY <2>1, <2>2 DEF Reader
  <2>4. IsSeeking'
    BY <2>1, <2>2, <2>3 DEF IsSeeking
  <2> QED BY <2>4 DEF JobOK
<1>5. CASE IsReading
  <2>1. PICK stage, c, fd, want, rd :
        /\ job = Reading(stage, c, fd, want, rd)
        /\ c \in Callers /\ fd \in DOMAIN desc_table /\ want \in Nat /\ Reader(c, fd, want)
        /\ ReadOK(stage, rd, FileAt(desc_table[fd].path), desc_table[fd].offset % U32, want)
    BY <1>5, Zenon DEF IsReading
  <2>2. load'[c] = load[c]
    BY <2>1 DEF Reader
  <2>3. Reader(c, fd, want)'
    BY <2>1, <2>2 DEF Reader
  <2>4. ReadOK(stage, rd, FileAt(desc_table[fd].path), desc_table[fd].offset % U32, want)'
    <3>1. FileAt(desc_table[fd].path)' = FileAt(desc_table[fd].path)
      BY DiskFixed
    <3>2. (desc_table[fd].offset % U32)' = desc_table[fd].offset % U32
      OBVIOUS
    <3> QED BY <3>1, <3>2, <2>1, DiskFixed
  <2>5. IsReading'
    BY <2>1, <2>3, <2>4 DEF IsReading
  <2> QED BY <2>5 DEF JobOK
<1> QED BY <1>1, <1>2, <1>3, <1>4, <1>5 DEF JobOK

LEMMA BootKeeps ==
    ASSUME FsInv, Boot
    PROVE  FsInv'
<1>1. /\ disk' = disk /\ UNCHANGED <<job, desc_table, curr_fd, load, touched, stream>>
      /\ kernel' = "up" => fat' = Geometry(disk.boot)
  BY DEF Boot, Mount
<1>2. DiskOK'
  BY <1>1 DEF DiskOK, FsInv
<1>3. curr_fd' \in Nat /\ curr_fd <= curr_fd'
  BY <1>1 DEF FsInv, TableOK
<1> QED BY <1>1, <1>2, <1>3, TablesStay, LoadsStay, JobStays DEF FsInv

\* A request that looks for a file goes on to do so.
LEMMA LookGoesOn ==
    ASSUME NEW path, NEW look, LookOK("find", look, path), Finds(path),
           NEW c, NEW fd, NEW x
    PROVE  /\ job = Opening("find", c, fd, x, look) =>
                \E s, l : job' = Opening(s, c, fd, x, l) /\ LookOK(s, l, path)
           /\ job = Seeking("find", c, fd, x, look) =>
                \E s, l : job' = Seeking(s, c, fd, x, l) /\ LookOK(s, l, path)
<1>0. look = [names |-> look.names, entry |-> look.entry, pos |-> look.pos]
  BY DEF LookOK
<1>1. CASE job' = [job EXCEPT !.stage = "missing"] /\ FileAt(path) = NoFile
  <2>1. LookOK("missing", look, path)
    BY <1>0, <1>1 DEF LookOK
  <2>2. ASSUME job = Opening("find", c, fd, x, look) PROVE job' = Opening("missing", c, fd, x, look)
    BY <2>2, <1>1 DEF Opening
  <2>3. ASSUME job = Seeking("find", c, fd, x, look) PROVE job' = Seeking("missing", c, fd, x, look)
    BY <2>3, <1>1 DEF Seeking
  <2> QED BY <2>1, <2>2, <2>3
<1>2. ASSUME NEW stage, NEW l, job' = [job EXCEPT !.look = l, !.stage = stage], LookOK(stage, l, path)
      PROVE  /\ job = Opening("find", c, fd, x, look) => job' = Opening(stage, c, fd, x, l)
             /\ job = Seeking("find", c, fd, x, look) => job' = Seeking(stage, c, fd, x, l)
  <2>1. ASSUME job = Opening("find", c, fd, x, look) PROVE job' = Opening(stage, c, fd, x, l)
    BY <2>1, <1>2 DEF Opening
  <2>2. ASSUME job = Seeking("find", c, fd, x, look) PROVE job' = Seeking(stage, c, fd, x, l)
    BY <2>2, <1>2 DEF Seeking
  <2> QED BY <2>1, <2>2
<1>3. CASE job' = job
  BY <1>3
<1>4. ASSUME NEW p, job' = [job EXCEPT !.look.pos = p], LookOK("find", [job.look EXCEPT !.pos = p], path)
      PROVE  /\ job = Opening("find", c, fd, x, look) => 
                  job' = Opening("find", c, fd, x, [look EXCEPT !.pos = p]) /\ job.look = look
             /\ job = Seeking("find", c, fd, x, look) =>
                  job' = Seeking("find", c, fd, x, [look EXCEPT !.pos = p]) /\ job.look = look
  BY <1>4 DEF Opening, Seeking
<1>5. ASSUME NEW p, job' = [job EXCEPT !.look.pos = p], LookOK("find", [job.look EXCEPT !.pos = p], path)
      PROVE  /\ job = Opening("find", c, fd, x, look) =>
                \E s, l : job' = Opening(s, c, fd, x, l) /\ LookOK(s, l, path)
             /\ job = Seeking("find", c, fd, x, look) =>
                \E s, l : job' = Seeking(s, c, fd, x, l) /\ LookOK(s, l, path)
  <2> DEFINE l == [look EXCEPT !.pos = p]
  <2>1. ASSUME job.look = look PROVE LookOK("find", l, path)
    BY <2>1, <1>5
  <2> HIDE DEF l
  <2>2. /\ job = Opening("find", c, fd, x, look) => job' = Opening("find", c, fd, x, l) /\ job.look = look
        /\ job = Seeking("find", c, fd, x, look) => job' = Seeking("find", c, fd, x, l) /\ job.look = look
    BY <1>4, <1>5 DEF l
  <2> QED BY <2>1, <2>2
<1> QED BY <1>1, <1>2, <1>3, <1>5 DEF Finds

LEMMA FindKeeps ==
    ASSUME FsInv, Find
    PROVE  FsInv'
<1>1. /\ disk' = disk /\ fat' = fat /\ UNCHANGED <<desc_table, curr_fd, load, touched, stream>>
      /\ kernel = "up" /\ job.stage = "find" /\ FindStep
  BY DEF Find, FindStep
<1>2. DiskOK'
  BY <1>1 DEF DiskOK, FsInv
<1>3. curr_fd' \in Nat /\ curr_fd <= curr_fd'
  BY <1>1 DEF FsInv, TableOK
<1>4. DiskOK /\ JobOK /\ TableOK
  BY DEF FsInv
<1>5. JobOK'
  <2>1. CASE IsOpening
    <3>1. PICK stage, c, fd, path, look :
          /\ job = Opening(stage, c, fd, path, look)
          /\ c \in Callers /\ path \in Paths /\ LookOK(stage, look, path)
          /\ fd \in Nat /\ fd < curr_fd /\ fd \notin DOMAIN desc_table
          /\ load[c].at \in {"no", "open"}
      BY <2>1, Zenon DEF IsOpening
    <3>2. stage = "find" /\ job.look = look
      BY <3>1, <1>1 DEF Opening
    <3>3. Finds(path)
      BY <3>1, <3>2, <1>1, <1>4, FindStepFinds DEF DiskOK
    <3>4. PICK s, l : job' = Opening(s, c, fd, path, l) /\ LookOK(s, l, path)
      BY <3>1, <3>2, <3>3, LookGoesOn
    <3>5. LookOK(s, l, path)'
      BY <3>4, <1>1, DiskFixed
    <3>6. IsOpening'
      BY <3>1, <3>4, <3>5, <1>1 DEF IsOpening
    <3> QED BY <3>6 DEF JobOK
  <2>2. CASE IsSeeking
    <3>1. PICK stage, c, fd, want, look :
          /\ job = Seeking(stage, c, fd, want, look)
          /\ c \in Callers /\ fd \in DOMAIN desc_table /\ want \in Nat /\ Reader(c, fd, want)
          /\ LookOK(stage, look, desc_table[fd].path)
      BY <2>2, Zenon DEF IsSeeking
    <3>2. stage = "find" /\ job.look = look
      BY <3>1, <1>1 DEF Seeking
    <3> DEFINE path == desc_table[fd].path
    <3>7. path \in Paths
      BY <3>1, <1>4 DEF TableOK, OpenOK
    <3>3. Finds(path)
      BY <3>1, <3>2, <3>7, <1>1, <1>4, FindStepFinds DEF DiskOK
    <3>4. PICK s, l : job' = Seeking(s, c, fd, want, l) /\ LookOK(s, l, path)
      <4> HIDE DEF path
      <4>1. LookOK("find", look, path)
        BY <3>1, <3>2 DEF path
      <4> QED BY <4>1, <3>1, <3>2, <3>3, LookGoesOn
    <3>5. LookOK(s, l, desc_table[fd].path)'
      BY <3>4, <1>1, DiskFixed
    <3>6. Reader(c, fd, want)'
      BY <3>1, <1>1 DEF Reader
    <3>8. IsSeeking'
      BY <3>1, <3>4, <3>5, <3>6, <1>1 DEF IsSeeking
    <3> QED BY <3>8 DEF JobOK
  <2>3. CASE IsReading
    BY <2>3, <1>1 DEF IsReading, ReadOK, Reading
  <2>4. CASE job = NoJob
    BY <2>4, <1>1 DEF NoJob
  <2> QED BY <1>4, <2>1, <2>2, <2>3, <2>4 DEF JobOK
<1> QED BY <1>1, <1>2, <1>3, <1>5, TablesStay, LoadsStay DEF FsInv

LEMMA ReadGoesOn ==
    ASSUME NEW file, NEW o, NEW want, NEW rd, NEW c, NEW fd,
           job = Reading("read", c, fd, want, rd), Reads(file, o, want), ReadOK("read", rd, file, o, want)
    PROVE  \E s, r : job' = Reading(s, c, fd, want, r) /\ ReadOK(s, r, file, o, want)
<1>0. job.rd = rd
  BY DEF Reading
<1>1. CASE job' = [job EXCEPT !.stage = "done"] /\ ReadOK("done", job.rd, file, o, want)
  <2>1. job' = Reading("done", c, fd, want, rd)
    BY <1>1 DEF Reading
  <2> QED BY <2>1, <1>0, <1>1
<1>2. CASE job' = job
  BY <1>2
<1>3. ASSUME NEW r, job' = [job EXCEPT !.rd = r, !.stage = "done"], ReadOK("done", r, file, o, want)
      PROVE  job' = Reading("done", c, fd, want, r)
  BY <1>3 DEF Reading
<1>4. ASSUME NEW r, job' = [job EXCEPT !.rd = r], ReadOK("read", r, file, o, want)
      PROVE  job' = Reading("read", c, fd, want, r)
  BY <1>4 DEF Reading
<1> QED BY <1>1, <1>2, <1>3, <1>4 DEF Reads

LEMMA ReadAtKeeps ==
    ASSUME FsInv, ReadAt
    PROVE  FsInv'
<1>1. /\ disk' = disk /\ fat' = fat /\ UNCHANGED <<desc_table, curr_fd, load, touched, stream>>
      /\ kernel = "up" /\ job.stage = "read" /\ ReadStep
  BY DEF ReadAt, ReadStep
<1>2. DiskOK'
  BY <1>1 DEF DiskOK, FsInv
<1>3. curr_fd' \in Nat /\ curr_fd <= curr_fd'
  BY <1>1 DEF FsInv, TableOK
<1>4. DiskOK /\ JobOK /\ TableOK
  BY DEF FsInv
<1>5. JobOK'
  <2>1. CASE IsOpening
    BY <2>1, <1>1 DEF IsOpening, LookOK, Opening
  <2>2. CASE IsSeeking
    BY <2>2, <1>1 DEF IsSeeking, LookOK, Seeking
  <2>3. CASE IsReading
    <3>1. PICK stage, c, fd, want, rd :
          /\ job = Reading(stage, c, fd, want, rd)
          /\ c \in Callers /\ fd \in DOMAIN desc_table /\ want \in Nat /\ Reader(c, fd, want)
          /\ ReadOK(stage, rd, FileAt(desc_table[fd].path), desc_table[fd].offset % U32, want)
      BY <2>3, Zenon DEF IsReading
    <3> DEFINE file == FileAt(desc_table[fd].path)
    <3> DEFINE o == desc_table[fd].offset % U32
    <3>2. stage = "read" /\ job.rd = rd /\ job.want = want
      BY <3>1, <1>1 DEF Reading
    <3>3. desc_table[fd].path \in Paths /\ file # NoFile /\ desc_table[fd].offset \in Nat
      BY <3>1, <1>4 DEF TableOK, OpenOK
    <3>4. IsFile(disk, file)
      BY <3>3, <1>4, NamedFile DEF DiskOK
    <3>5. o \in Nat
      BY <3>3, ModIn, SizesAssumption
    <3>6. ReadOK("read", rd, file, o, want)
      BY <3>1, <3>2
    <3> HIDE DEF file, o
    <3>7. Reads(file, o, want)
      BY <3>1, <3>2, <3>4, <3>5, <3>6, <1>1, <1>4, ReadStepReads DEF DiskOK
    <3>8. PICK s, r : job' = Reading(s, c, fd, want, r) /\ ReadOK(s, r, file, o, want)
      BY <3>1, <3>2, <3>6, <3>7, ReadGoesOn
    <3>9. ReadOK(s, r, FileAt(desc_table[fd].path), desc_table[fd].offset % U32, want)'
      <4>1. FileAt(desc_table[fd].path)' = file
        BY <1>1, DiskFixed DEF file
      <4>2. (desc_table[fd].offset % U32)' = o
        BY <1>1 DEF o
      <4> QED BY <4>1, <4>2, <3>8, <1>1, DiskFixed
    <3>10. Reader(c, fd, want)'
      BY <3>1, <1>1 DEF Reader
    <3>11. IsReading'
      BY <3>1, <3>8, <3>9, <3>10, <1>1 DEF IsReading
    <3> QED BY <3>11 DEF JobOK
  <2>4. CASE job = NoJob
    BY <2>4, <1>1 DEF NoJob
  <2> QED BY <1>4, <2>1, <2>2, <2>3, <2>4 DEF JobOK
<1> QED BY <1>1, <1>2, <1>3, <1>5, TablesStay, LoadsStay DEF FsInv

\* load_exe() of one client goes on with the descriptor it has, or gives it up.
LEMMA LoadMoves ==
    ASSUME FsInv, disk' = disk, UNCHANGED <<desc_table, touched>>, NEW c \in Callers, NEW x,
           load' = [load EXCEPT ![c] = x], x.at # "loaded",
           x.at \in {"size", "buffer", "read"} => Holds(c) /\ x.fd = load[c].fd /\ x.path = load[c].path,
           x.at = "buffer" => x.size = desc_table[x.fd].size
    PROVE  LoadOK'
<1>1. LoadOK
  BY DEF FsInv
<1>2. DOMAIN load = Callers /\ load'[c] = x /\ \A b \in Callers : b # c => load'[b] = load[b]
  BY <1>1 DEF LoadOK
<1>3. DOMAIN load' = Callers
  BY <1>1 DEF LoadOK
<1>4. \A b \in Callers : Holds(b)' => Holds(b) /\ load'[b].fd = load[b].fd /\ load'[b].path = load[b].path
  <2> SUFFICES ASSUME NEW b \in Callers, Holds(b)'
               PROVE  Holds(b) /\ load'[b].fd = load[b].fd /\ load'[b].path = load[b].path
    OBVIOUS
  <2>1. CASE b = c
    BY <2>1, <1>2 DEF Holds
  <2>2. CASE b # c
    BY <2>2, <1>2 DEF Holds
  <2> QED BY <2>1, <2>2
<1>5. \A b \in Callers : Holds(b)' =>
        /\ load'[b].fd \in DOMAIN desc_table /\ desc_table[load'[b].fd].path = load'[b].path
        /\ load'[b].fd \notin touched => desc_table[load'[b].fd].offset = 0
  BY <1>1, <1>4 DEF LoadOK
<1>6. \A b \in Callers : load'[b].at = "buffer" => load'[b].size = desc_table[load'[b].fd].size
  <2> SUFFICES ASSUME NEW b \in Callers, load'[b].at = "buffer" PROVE load'[b].size = desc_table[load'[b].fd].size
    OBVIOUS
  <2>1. CASE b = c
    BY <2>1, <1>2
  <2>2. CASE b # c
    BY <2>2, <1>1, <1>2 DEF LoadOK
  <2> QED BY <2>1, <2>2
<1>7. \A a, b \in Callers : Holds(a)' /\ Holds(b)' /\ a # b => load'[a].fd # load'[b].fd
  BY <1>1, <1>4 DEF LoadOK
<1>8. \A b \in Callers : load'[b].at = "loaded" /\ load'[b].fd \notin touched => Whole(load'[b].path, load'[b].data)
  BY <1>1, <1>2 DEF LoadOK
<1>9. \A path, data : Whole(path, data)' <=> Whole(path, data)
  BY DiskFixed
<1>10. \A b \in Callers : load'[b].at = "loaded" /\ load'[b].fd \notin touched => Whole(load[b].path, load[b].data)'
  BY <1>8, <1>9
<1> QED BY <1>3, <1>5, <1>6, <1>7, <1>10 DEF LoadOK

\* A new request to open a path.
LEMMA OpenStarts ==
    ASSUME FsInv, kernel = "up", disk' = disk, UNCHANGED <<desc_table, stream>>,
           NEW c \in Callers, NEW path \in Paths, OpenFile(c, path), load'[c].at \in {"no", "open"}
    PROVE  TableOK' /\ StreamOK' /\ JobOK'
<1>1. DiskOK /\ TableOK
  BY DEF FsInv
<1>2. Mounted
  BY <1>1 DEF DiskOK, Mounted
<1>3. curr_fd \in Nat /\ curr_fd' = curr_fd + 1 /\ job' = Opening("find", c, curr_fd, path, StartLookup(path))
  BY <1>1 DEF TableOK, OpenFile, Opening
<1>4. curr_fd \notin DOMAIN desc_table /\ curr_fd < curr_fd'
  BY <1>1, <1>3 DEF TableOK
<1>5. LookOK("find", StartLookup(path), path)
  BY <1>2, LookupStarts
<1>6. PICK look : look = StartLookup(path)
  OBVIOUS
<1>7. IsOpening'
  <2>1. LookOK("find", look, path)'
    BY <1>5, <1>6, DiskFixed
  <2>2. job' = Opening("find", c, curr_fd, path, look)
    BY <1>3, <1>6
  <2> QED BY <2>1, <2>2, <1>3, <1>4 DEF IsOpening
<1>8. TableOK' /\ StreamOK'
  <2>1. curr_fd' \in Nat /\ curr_fd <= curr_fd'
    BY <1>3
  <2> QED BY <2>1, TablesStay
<1> QED BY <1>7, <1>8 DEF JobOK

LEMMA SysOpenKeeps ==
    ASSUME FsInv, NEW c \in Callers, SysOpen(c)
    PROVE  FsInv'
<1>1. /\ kernel = "up" /\ load[c].at = "no" /\ UNCHANGED <<kernel, disk, fat, desc_table, load, touched, stream>>
  BY DEF SysOpen, MayCall
<1>2. PICK path \in Paths : OpenFile(c, path)
  BY DEF SysOpen
<1>3. TableOK' /\ StreamOK' /\ JobOK'
  BY <1>1, <1>2, OpenStarts
<1>4. LoadOK'
  BY <1>1, LoadsStay
<1>5. DiskOK'
  BY <1>1 DEF DiskOK, FsInv
<1> QED BY <1>3, <1>4, <1>5 DEF FsInv

LEMMA LoadExeKeeps ==
    ASSUME FsInv, NEW c \in Callers, LoadExe(c)
    PROVE  FsInv'
<1> DEFINE x == [at |-> "open"]
<1>1. /\ kernel = "up" /\ UNCHANGED <<kernel, disk, fat, desc_table, touched, stream>>
      /\ load' = [load EXCEPT ![c] = x]
  BY DEF LoadExe, MayCall
<1>2. PICK path \in Paths : OpenFile(c, path)
  BY DEF LoadExe
<1>3. x.at = "open"
  OBVIOUS
<1>4. load'[c] = x
  BY <1>1 DEF FsInv, LoadOK
<1> HIDE DEF x
<1>5. TableOK' /\ StreamOK' /\ JobOK'
  <2>1. load'[c].at \in {"no", "open"}
    BY <1>3, <1>4
  <2> QED BY <2>1, <1>1, <1>2, OpenStarts
<1>6. LoadOK'
  <2>1. x.at \notin {"size", "buffer", "read", "loaded"}
    BY <1>3
  <2> QED BY <2>1, <1>1, LoadMoves
<1>7. DiskOK'
  BY <1>1 DEF DiskOK, FsInv
<1> QED BY <1>5, <1>6, <1>7 DEF FsInv

\* A new request to read through a descriptor.
LEMMA ReadRequested ==
    ASSUME FsInv, kernel = "up", disk' = disk, UNCHANGED desc_table,
           NEW c \in Callers, NEW fd \in DOMAIN desc_table, NEW want \in Nat, Read(c, fd, want), Reader(c, fd, want)'
    PROVE  JobOK'
<1>1. DiskOK /\ TableOK
  BY DEF FsInv
<1>2. Mounted
  BY <1>1 DEF DiskOK, Mounted
<1> DEFINE path == desc_table[fd].path
<1>3. path \in Paths
  BY <1>1 DEF TableOK, OpenOK
<1> DEFINE look == StartLookup(path)
<1>4. LookOK("find", look, path)
  BY <1>2, <1>3, LookupStarts
<1>5. job' = Seeking("find", c, fd, want, look)
  BY DEF Read, Seeking
<1>7. IsSeeking'
  <2>1. PICK l : l = look
    OBVIOUS
  <2>2. LookOK("find", l, desc_table[fd].path)' /\ job' = Seeking("find", c, fd, want, l)
    BY <2>1, <1>4, <1>5, DiskFixed
  <2> QED BY <2>2 DEF IsSeeking
<1> QED BY <1>7 DEF JobOK

LEMMA SysReadKeeps ==
    ASSUME FsInv, NEW c \in Callers, SysRead(c)
    PROVE  FsInv'
<1>1. /\ kernel = "up" /\ load[c].at = "no"
      /\ UNCHANGED <<kernel, disk, fat, desc_table, curr_fd, load, stream>>
  BY DEF SysRead, MayCall
<1>2. PICK fd \in DOMAIN desc_table, want \in Counts : Read(c, fd, want) /\ touched' = touched \cup {fd}
  BY DEF SysRead
<1>3. want \in Nat
  BY InputAssumption
<1>4. fd \in touched' /\ touched \subseteq touched' /\ curr_fd' \in Nat /\ curr_fd <= curr_fd'
  BY <1>1, <1>2 DEF FsInv, TableOK
<1>5. Reader(c, fd, want)'
  BY <1>1, <1>4 DEF Reader
<1>6. JobOK'
  BY <1>1, <1>2, <1>3, <1>4, <1>5, ReadRequested
<1>7. TableOK' /\ StreamOK' /\ LoadOK'
  BY <1>1, <1>4, TablesStay, LoadsStay
<1>8. DiskOK'
  BY <1>1 DEF DiskOK, FsInv
<1> QED BY <1>6, <1>7, <1>8 DEF FsInv

LEMMA LoadReadKeeps ==
    ASSUME FsInv, NEW c \in Callers, LoadRead(c)
    PROVE  FsInv'
<1> DEFINE fd == load[c].fd
<1> DEFINE want == load[c].size
<1> DEFINE x == [at |-> "read", fd |-> fd, path |-> load[c].path]
<1>1. /\ kernel = "up" /\ load[c].at = "buffer"
      /\ UNCHANGED <<kernel, disk, fat, desc_table, curr_fd, touched, stream>>
      /\ load' = [load EXCEPT ![c] = x] /\ Read(c, fd, want)
  BY DEF LoadRead
<1>2. LoadOK /\ TableOK
  BY DEF FsInv
<1>3. /\ Holds(c) /\ fd \in DOMAIN desc_table /\ want = desc_table[fd].size
      /\ load'[c] = x /\ curr_fd' \in Nat /\ curr_fd <= curr_fd'
  BY <1>1, <1>2 DEF LoadOK, Holds, TableOK
<1>4. want \in Nat
  BY <1>2, <1>3 DEF TableOK, OpenOK
<1>5. x.at = "read" /\ x.fd = fd /\ x.path = load[c].path
  OBVIOUS
<1> HIDE DEF x
<1>7. JobOK'
  <2>1. PICK g, w : g = fd /\ w = want
    OBVIOUS
  <2>2. Reader(c, g, w)'
    BY <2>1, <1>1, <1>3, <1>5 DEF Reader
  <2>3. g \in DOMAIN desc_table /\ w \in Nat /\ Read(c, g, w)
    BY <2>1, <1>1, <1>3, <1>4
  <2> QED BY <2>2, <2>3, <1>1, ReadRequested
<1>8. LoadOK'
  <2>1. x.at # "loaded" /\ x.at # "buffer"
    BY <1>5
  <2> QED BY <2>1, <1>1, <1>3, <1>5, LoadMoves
<1>9. TableOK' /\ StreamOK'
  BY <1>1, <1>3, TablesStay
<1>10. DiskOK'
  BY <1>1 DEF DiskOK, FsInv
<1> QED BY <1>7, <1>8, <1>9, <1>10 DEF FsInv

LEMMA LoadSizeKeeps ==
    ASSUME FsInv, NEW c \in Callers, LoadSize(c)
    PROVE  FsInv'
<1> DEFINE x == [at |-> "buffer", fd |-> load[c].fd, path |-> load[c].path, size |-> desc_table[load[c].fd].size]
<1>1. /\ load[c].at = "size" /\ job = NoJob
      /\ UNCHANGED <<kernel, disk, fat, job, desc_table, curr_fd, touched, stream>>
      /\ load' = [load EXCEPT ![c] = x]
  BY DEF LoadSize, Free
<1>2. x.at = "buffer" /\ x.fd = load[c].fd /\ x.path = load[c].path /\ x.size = desc_table[load[c].fd].size
  OBVIOUS
<1>3. Holds(c) /\ curr_fd' \in Nat /\ curr_fd <= curr_fd'
  BY <1>1 DEF Holds, FsInv, TableOK
<1> HIDE DEF x
<1>4. LoadOK'
  <2>1. x.at # "loaded" /\ x.size = desc_table[x.fd].size
    BY <1>2
  <2> QED BY <2>1, <1>1, <1>2, <1>3, LoadMoves
<1>5. TableOK' /\ StreamOK'
  BY <1>1, <1>3, TablesStay
<1>6. DiskOK' /\ JobOK'
  BY <1>1 DEF DiskOK, FsInv, JobOK
<1> QED BY <1>4, <1>5, <1>6 DEF FsInv

LEMMA LoadCopiedKeeps ==
    ASSUME FsInv, NEW c \in Callers, LoadCopied(c)
    PROVE  FsInv'
<1> DEFINE x == NotLoading
<1>1. /\ kernel = "up" /\ load[c].at = "loaded"
      /\ UNCHANGED <<disk, fat, job, desc_table, curr_fd, touched, stream>>
      /\ load' = [load EXCEPT ![c] = x]
  BY DEF LoadCopied
<1>2. x.at = "no"
  BY DEF NotLoading
<1>3. DOMAIN load = Callers /\ curr_fd' \in Nat /\ curr_fd <= curr_fd'
  BY <1>1 DEF FsInv, TableOK, LoadOK
<1> HIDE DEF x
<1>4. LoadOK'
  <2>1. x.at \notin {"size", "buffer", "read", "loaded"}
    BY <1>2
  <2> QED BY <2>1, <1>1, LoadMoves
<1>5. TableOK' /\ StreamOK'
  BY <1>1, <1>3, TablesStay
<1>6. JobOK'
  <2>1. \A b \in Callers : load[b].at \in {"no", "open", "read"} => load'[b] = load[b]
    BY <1>1, <1>3
  <2> QED BY <2>1, <1>1, JobStays
<1>7. DiskOK'
  BY <1>1 DEF DiskOK, FsInv
<1> QED BY <1>4, <1>5, <1>6, <1>7 DEF FsInv

LEMMA LookupFailedKeeps ==
    ASSUME FsInv, LookupFailed
    PROVE  FsInv'
<1>1. kernel = "up" /\ job' = NoJob /\ UNCHANGED <<disk, fat, desc_table, curr_fd, load, touched, stream>>
  BY DEF LookupFailed
<1>2. DiskOK' /\ JobOK'
  BY <1>1 DEF FsInv, DiskOK, JobOK
<1>3. curr_fd' \in Nat /\ curr_fd <= curr_fd'
  BY <1>1 DEF FsInv, TableOK
<1> QED BY <1>1, <1>2, <1>3, TablesStay, LoadsStay DEF FsInv

LEMMA ReadFoundKeeps ==
    ASSUME FsInv, ReadFound
    PROVE  FsInv'
<1>1. /\ kernel = "up" /\ job.stage = "found" /\ job.op = "read"
      /\ UNCHANGED <<kernel, disk, fat, desc_table, curr_fd, load, touched, stream>>
  BY DEF ReadFound
<1>2. DiskOK'
  BY <1>1 DEF FsInv, DiskOK
<1>3. curr_fd' \in Nat /\ curr_fd <= curr_fd'
  BY <1>1 DEF FsInv, TableOK
<1>4. DiskOK /\ TableOK /\ JobOK
  BY DEF FsInv
<1>5. Mounted
  BY <1>1, <1>4 DEF DiskOK, Mounted
<1>6. IsSeeking
  <2>1. CASE IsReading
    BY <2>1, <1>1 DEF IsReading, ReadOK, Reading
  <2>2. CASE IsOpening
    BY <2>2, <1>1 DEF IsOpening, Opening
  <2>3. CASE job = NoJob
    BY <2>3, <1>1 DEF NoJob
  <2> QED BY <1>4, <2>1, <2>2, <2>3 DEF JobOK
<1>7. PICK stage, c, fd, want, look :
        /\ job = Seeking(stage, c, fd, want, look)
        /\ c \in Callers /\ fd \in DOMAIN desc_table /\ want \in Nat /\ Reader(c, fd, want)
        /\ LookOK(stage, look, desc_table[fd].path)
  BY <1>6, Zenon DEF IsSeeking
<1>8. stage = "found" /\ job.look = look /\ job.client = c /\ job.fd = fd /\ job.want = want
  BY <1>1, <1>7 DEF Seeking
<1> DEFINE file == FileAt(desc_table[fd].path)
<1> DEFINE offset == desc_table[fd].offset
<1>9. file # NoFile /\ Describes(look.entry, file)
  BY <1>7, <1>8 DEF LookOK
<1>10. IsFile(disk, file) /\ offset \in Nat
  <2>1. desc_table[fd].path \in Paths /\ offset \in Nat
    BY <1>4, <1>7 DEF TableOK, OpenOK
  <2> QED BY <2>1, <1>4, <1>9, NamedFile DEF DiskOK
<1>11. PICK rd : rd = StartRead(look.entry, offset)
  OBVIOUS
<1>12. ReadOK("read", rd, file, offset % U32, want)
  <2> HIDE DEF file, offset
  <2> QED BY <1>5, <1>7, <1>9, <1>10, <1>11, ReadStarts
<1>13. job' = Reading("read", c, fd, want, rd)
  BY <1>8, <1>11 DEF ReadFound, Reading
<1>14. IsReading'
  <2>1. Reader(c, fd, want)'
    BY <1>1, <1>7 DEF Reader
  <2>2. ReadOK("read", rd, FileAt(desc_table[fd].path), desc_table[fd].offset % U32, want)'
    <3>1. FileAt(desc_table[fd].path)' = file
      BY <1>1, DiskFixed
    <3>2. (desc_table[fd].offset % U32)' = offset % U32
      BY <1>1
    <3> QED BY <3>1, <3>2, <1>1, <1>12, DiskFixed
  <2> QED BY <2>1, <2>2, <1>1, <1>7, <1>13 DEF IsReading
<1>15. JobOK'
  BY <1>14 DEF JobOK
<1> QED BY <1>1, <1>2, <1>3, <1>15, TablesStay, LoadsStay DEF FsInv

\* Nothing has been read yet.
LEMMA StreamStarts ==
    ASSUME NEW f, NEW at \in 0 .. Usize - 1, f.offset = at, disk \in Volumes, f.path \in Paths, FileAt(f.path) # NoFile
    PROVE  StreamsFrom([from |-> at, data |-> << >>], f)
<1> DEFINE s == [from |-> at, data |-> << >>]
<1>1. s = [from |-> s.from, data |-> s.data] /\ s.from = at /\ s.data = << >>
  OBVIOUS
<1> HIDE DEF s
<1>2. IsSeq(<< >>) /\ Len(<< >>) = 0
  <2>1. << >> \in Seq({})
    OBVIOUS
  <2> QED BY <2>1 DEF IsSeq
<1>3. Usize \in Nat \ {0}
  BY UsizeAssumption, SizesAssumption
<1>4. at + 0 = at /\ at % Usize = at
  BY <1>3, ModBelow
<1>5. Stretch(<< >>, Content(FileAt(f.path)), at, 0)
  <2> DEFINE C == Content(FileAt(f.path))
  <2>1. IsSeq(C)
    BY NamedFile, ContentFacts
  <2>2. Len(C) \in Nat
    BY <2>1, SeqFacts
  <2> HIDE DEF C
  <2>3. 0 = IF at + 0 <= Len(C) THEN 0 ELSE IF at <= Len(C) THEN Len(C) - at ELSE 0
    BY <2>2, <1>3
  <2> QED BY <2>3, <1>2 DEF Stretch, C
<1>6. StreamsFrom(s, f)
  BY <1>1, <1>2, <1>4, <1>5 DEF StreamsFrom
<1> QED BY <1>6 DEF s

LEMMA OpenDoneKeeps ==
    ASSUME FsInv, OpenDone
    PROVE  FsInv'
<1>1. /\ kernel = "up" /\ job.stage = "found" /\ job.op = "open"
      /\ job' = NoJob /\ UNCHANGED <<kernel, disk, fat, curr_fd, touched>>
  BY DEF OpenDone
<1>2. DiskOK' /\ JobOK'
  BY <1>1 DEF FsInv, DiskOK, JobOK
<1>4. DiskOK /\ TableOK /\ StreamOK /\ LoadOK /\ JobOK
  BY DEF FsInv
<1>6. IsOpening
  <2>1. CASE IsReading
    BY <2>1, <1>1 DEF IsReading, Reading
  <2>2. CASE IsSeeking
    BY <2>2, <1>1 DEF IsSeeking, Seeking
  <2>3. CASE job = NoJob
    BY <2>3, <1>1 DEF NoJob
  <2> QED BY <1>4, <2>1, <2>2, <2>3 DEF JobOK
<1>7. PICK stage, c, fd, path, look :
        /\ job = Opening(stage, c, fd, path, look)
        /\ c \in Callers /\ path \in Paths /\ LookOK(stage, look, path)
        /\ fd \in Nat /\ fd < curr_fd /\ fd \notin DOMAIN desc_table
        /\ load[c].at \in {"no", "open"}
  BY <1>6, Zenon DEF IsOpening
<1>8. stage = "found" /\ job.look = look /\ job.client = c /\ job.fd = fd /\ job.path = path
  BY <1>1, <1>7 DEF Opening
<1> DEFINE f == [path |-> path, offset |-> 0, size |-> look.entry.size]
<1>9. f.path = path /\ f.offset = 0 /\ OpenOK(f)
  <2>1. FileAt(path) # NoFile /\ look.entry.size = FileAt(path).size
    BY <1>7, <1>8 DEF LookOK, Describes
  <2>2. IsFile(disk, FileAt(path))
    BY <2>1, <1>4, <1>7, NamedFile DEF DiskOK
  <2>3. FileAt(path).size \in Nat
    BY <2>2, <1>4, FileShape DEF DiskOK
  <2> QED BY <2>1, <2>3, <1>7 DEF OpenOK
<1> DEFINE s == [from |-> 0, data |-> << >>]
<1> DEFINE T == DOMAIN desc_table \cup {fd}
<1> HIDE DEF f, s
<1>10. /\ desc_table' = [g \in T |-> IF g = fd THEN f ELSE desc_table[g]]
       /\ stream' = [g \in DOMAIN desc_table' |-> IF g = fd THEN s ELSE stream[g]]
  BY <1>8 DEF OpenDone, f, s
<1>11. /\ DOMAIN desc_table' = T /\ desc_table'[fd] = f /\ \A g \in DOMAIN desc_table : desc_table'[g] = desc_table[g]
  BY <1>7, <1>10
<1>12. /\ DOMAIN stream' = T /\ stream'[fd] = s /\ \A g \in DOMAIN desc_table : stream'[g] = stream[g]
  BY <1>7, <1>10, <1>11
<1> DEFINE x == [at |-> "size", fd |-> fd, path |-> path]
<1>13. /\ load[c].at = "open" => load' = [load EXCEPT ![c] = x]
       /\ load[c].at # "open" => load' = [load EXCEPT ![c] = load[c]]
  BY <1>8 DEF OpenDone
<1>15. TableOK'
  <2>1. \A g \in T : g \in Nat /\ g < curr_fd
    BY <1>4, <1>7 DEF TableOK
  <2>2. \A g \in T : OpenOK(desc_table'[g])
    BY <1>4, <1>9, <1>11 DEF TableOK
  <2>3. \A g \in T : OpenOK(desc_table[g])'
    BY <2>2, <1>1, DiskFixed
  <2> QED BY <2>1, <2>3, <1>1, <1>4, <1>11 DEF TableOK
<1>16. StreamOK'
  <2>1. StreamsFrom(s, f)
    <3>1. 0 \in 0 .. Usize - 1
      BY UsizeAssumption, SizesAssumption
    <3>2. disk \in Volumes /\ f.path \in Paths /\ FileAt(f.path) # NoFile
      BY <1>4, <1>7, <1>9 DEF DiskOK, OpenOK
    <3> QED BY <3>1, <3>2, <1>9, StreamStarts DEF s
  <2>2. \A g \in T : StreamsFrom(stream'[g], desc_table'[g])
    BY <2>1, <1>4, <1>11, <1>12 DEF StreamOK
  <2>3. \A g \in T : StreamsFrom(stream[g], desc_table[g])'
    BY <2>2, <1>1, DiskFixed
  <2> QED BY <2>3, <1>11, <1>12 DEF StreamOK
<1>17. DOMAIN load' = Callers /\ \A b \in Callers : b # c => load'[b] = load[b]
  BY <1>4, <1>7, <1>13 DEF LoadOK
<1>18. (load[c].at = "open" /\ load'[c] = x) \/ (load[c].at = "no" /\ load'[c] = load[c])
  BY <1>4, <1>7, <1>13 DEF LoadOK
<1>19. x.at = "size" /\ x.fd = fd /\ x.path = path
  OBVIOUS
<1> HIDE DEF x
<1>20. \A b \in Callers : Holds(b)' => \/ Holds(b) /\ load'[b] = load[b]
                                       \/ b = c /\ load'[b] = x
  <2> SUFFICES ASSUME NEW b \in Callers, Holds(b)'
               PROVE  (Holds(b) /\ load'[b] = load[b]) \/ (b = c /\ load'[b] = x)
    OBVIOUS
  <2>1. CASE b = c
    BY <2>1, <1>13, <1>18 DEF Holds
  <2>2. CASE b # c
    BY <2>2, <1>17 DEF Holds
  <2> QED BY <2>1, <2>2
<1>21. \A b \in Callers : Holds(b) => load[b].fd \in DOMAIN desc_table /\ load[b].fd # fd
  BY <1>4, <1>7 DEF LoadOK
<1>22. LoadOK'
  <2>1. ASSUME NEW b \in Callers, Holds(b)'
        PROVE  /\ load'[b].fd \in T /\ desc_table'[load'[b].fd].path = load'[b].path
               /\ load'[b].fd \notin touched => desc_table'[load'[b].fd].offset = 0
    <3>1. CASE Holds(b) /\ load'[b] = load[b]
      <4> DEFINE g == load[b].fd
      <4>1. /\ g \in DOMAIN desc_table /\ g # fd /\ desc_table[g].path = load[b].path
            /\ g \notin touched => desc_table[g].offset = 0
        BY <3>1, <1>4, <1>21 DEF LoadOK
      <4>2. desc_table'[g] = desc_table[g]
        BY <4>1, <1>11
      <4> QED BY <3>1, <4>1, <4>2
    <3>2. CASE b = c /\ load'[b] = x
      BY <3>2, <1>9, <1>11, <1>19
    <3> QED BY <2>1, <3>1, <3>2, <1>20
  <2>2. ASSUME NEW b \in Callers, load'[b].at = "buffer" PROVE load'[b].size = desc_table'[load'[b].fd].size
    <3>1. Holds(b)'
      BY <2>2 DEF Holds
    <3>2. Holds(b) /\ load'[b] = load[b]
      BY <3>1, <2>2, <1>19, <1>20
    <3>3. load[b].size = desc_table[load[b].fd].size
      BY <3>2, <2>2, <1>4 DEF LoadOK
    <3> QED BY <3>2, <3>3, <1>11, <1>21
  <2>3. ASSUME NEW a \in Callers, NEW b \in Callers, Holds(a)', Holds(b)', a # b PROVE load'[a].fd # load'[b].fd
    BY <2>3, <1>4, <1>19, <1>20, <1>21 DEF LoadOK
  <2>4. ASSUME NEW b \in Callers, load'[b].at = "loaded", load'[b].fd \notin touched
        PROVE  Whole(load[b].path, load[b].data)'
    <3>1. load'[b] = load[b]
      BY <2>4, <1>17, <1>18, <1>19
    <3>2. Whole(load'[b].path, load'[b].data)
      BY <3>1, <2>4, <1>4 DEF LoadOK
    <3>3. \A p, d : Whole(p, d)' <=> Whole(p, d)
      BY <1>1, DiskFixed
    <3> QED BY <3>2, <3>3
  <2> QED BY <2>1, <2>2, <2>3, <2>4, <1>1, <1>11, <1>17 DEF LoadOK
<1> QED BY <1>2, <1>15, <1>16, <1>22 DEF FsInv

\* One descriptor is moved.
LEMMA OffsetMoves ==
    ASSUME FsInv, disk' = disk, UNCHANGED curr_fd, NEW fd \in DOMAIN desc_table, NEW at \in Nat,
           desc_table' = [desc_table EXCEPT ![fd].offset = at]
    PROVE  /\ TableOK' /\ DOMAIN desc_table' = DOMAIN desc_table
           /\ \A g \in DOMAIN desc_table :
                /\ desc_table'[g].path = desc_table[g].path /\ desc_table'[g].size = desc_table[g].size
                /\ g # fd => desc_table'[g] = desc_table[g]
           /\ desc_table'[fd].offset = at
<1>1. TableOK
  BY DEF FsInv
<1>2. \A g \in DOMAIN desc_table : desc_table[g] \in [path : Paths, offset : Nat, size : Nat]
  BY <1>1 DEF TableOK, OpenOK
<1>3. /\ DOMAIN desc_table' = DOMAIN desc_table /\ desc_table'[fd] = [desc_table[fd] EXCEPT !.offset = at]
      /\ \A g \in DOMAIN desc_table : g # fd => desc_table'[g] = desc_table[g]
  OBVIOUS
<1>4. /\ desc_table'[fd] \in [path : Paths, offset : Nat, size : Nat] /\ desc_table'[fd].offset = at
      /\ desc_table'[fd].path = desc_table[fd].path /\ desc_table'[fd].size = desc_table[fd].size
  BY <1>2, <1>3
<1>5. \A g \in DOMAIN desc_table : OpenOK(desc_table'[g])
  <2> SUFFICES ASSUME NEW g \in DOMAIN desc_table PROVE OpenOK(desc_table'[g])
    OBVIOUS
  <2>1. OpenOK(desc_table[g])
    BY <1>1 DEF TableOK
  <2>2. CASE g = fd
    BY <2>1, <2>2, <1>4 DEF OpenOK
  <2>3. CASE g # fd
    BY <2>1, <2>3, <1>3
  <2> QED BY <2>2, <2>3
<1>6. \A g \in DOMAIN desc_table : OpenOK(desc_table[g])'
  BY <1>5, DiskFixed
<1>7. TableOK'
  BY <1>1, <1>3, <1>6 DEF TableOK
<1> QED BY <1>3, <1>4, <1>7

LEMMA SysSeekKeeps ==
    ASSUME FsInv, NEW c \in Callers, SysSeek(c)
    PROVE  FsInv'
<1>1. job = NoJob /\ UNCHANGED <<kernel, disk, fat, job, curr_fd, load>>
  BY DEF SysSeek, MayCall, Free
<1>2. DiskOK' /\ JobOK'
  BY <1>1 DEF FsInv, DiskOK, JobOK
<1>3. DiskOK /\ TableOK /\ StreamOK /\ LoadOK
  BY DEF FsInv
<1>4. PICK fd \in DOMAIN desc_table, offset \in Offsets, whence \in {"SEEK_SET", "SEEK_CUR", "SEEK_END"} :
        LET at == SeekTo(desc_table[fd], whence, offset)
        IN  /\ desc_table' = [desc_table EXCEPT ![fd].offset = at]
            /\ stream' = [stream EXCEPT ![fd] = [from |-> at, data |-> << >>]]
            /\ touched' = touched \cup {fd}
  BY Zenon DEF SysSeek
<1>5. PICK at : at = SeekTo(desc_table[fd], whence, offset)
  OBVIOUS
<1>6. fd \in DOMAIN desc_table /\ OpenOK(desc_table[fd])
  BY <1>3 DEF TableOK
<1>7. at \in 0 .. Usize - 1 /\ at \in Nat
  <2> DEFINE b == Base(desc_table[fd], whence)
  <2>1. b \in Nat
    <3>1. desc_table[fd].offset \in Nat /\ desc_table[fd].size \in Nat
      BY <1>6 DEF OpenOK
    <3>2. whence = "SEEK_SET" \/ whence = "SEEK_CUR" \/ whence = "SEEK_END"
      OBVIOUS
    <3> QED BY <3>1, <3>2 DEF Base
  <2>2. Usize \in Nat \ {0} /\ offset \in Int
    BY UsizeAssumption, SizesAssumption, InputAssumption
  <2> HIDE DEF b
  <2>3. b + offset \in Int
    BY <2>1, <2>2
  <2>4. (b + offset) % Usize \in 0 .. Usize - 1
    BY <2>2, <2>3, ModIn
  <2>5. at = (b + offset) % Usize
    BY <1>5 DEF SeekTo, b
  <2> QED BY <2>2, <2>4, <2>5
<1> DEFINE s == [from |-> at, data |-> << >>]
<1>8. /\ desc_table' = [desc_table EXCEPT ![fd].offset = at] /\ stream' = [stream EXCEPT ![fd] = s]
      /\ touched' = touched \cup {fd}
  BY <1>4, <1>5
<1> HIDE DEF s
<1>9. /\ TableOK' /\ DOMAIN desc_table' = DOMAIN desc_table
      /\ \A g \in DOMAIN desc_table :
            /\ desc_table'[g].path = desc_table[g].path /\ desc_table'[g].size = desc_table[g].size
            /\ g # fd => desc_table'[g] = desc_table[g]
      /\ desc_table'[fd].offset = at
  BY <1>1, <1>6, <1>7, <1>8, OffsetMoves
<1>10. /\ DOMAIN stream' = DOMAIN desc_table /\ stream'[fd] = s
       /\ \A g \in DOMAIN desc_table : g # fd => stream'[g] = stream[g]
  BY <1>3, <1>6, <1>8 DEF StreamOK
<1>11. StreamOK'
  <2>1. PICK f : f = desc_table'[fd]
    OBVIOUS
  <2>2. f.offset = at /\ f.path \in Paths /\ FileAt(f.path) # NoFile /\ disk \in Volumes
    BY <2>1, <1>3, <1>6, <1>9 DEF OpenOK, DiskOK
  <2>3. StreamsFrom(s, f)
    BY <2>2, <1>7, StreamStarts DEF s
  <2>4. \A g \in DOMAIN desc_table : StreamsFrom(stream'[g], desc_table'[g])
    BY <2>1, <2>3, <1>3, <1>9, <1>10 DEF StreamOK
  <2>5. \A g \in DOMAIN desc_table : StreamsFrom(stream[g], desc_table[g])'
    BY <2>4, <1>1, DiskFixed
  <2> QED BY <2>5, <1>9, <1>10 DEF StreamOK
<1>12. LoadOK'
  <2>1. \A b \in Callers : Holds(b)' <=> Holds(b)
    BY <1>1 DEF Holds
  <2>2. fd \in touched' /\ touched \subseteq touched'
    BY <1>8
  <2>3. \A b \in Callers : load[b].at = "loaded" /\ load[b].fd \notin touched' => Whole(load[b].path, load[b].data)'
    BY <2>2, <1>1, <1>3, DiskFixed DEF LoadOK
  <2>4. \A b \in Callers : Holds(b) =>
        /\ load[b].fd \in DOMAIN desc_table' /\ desc_table'[load[b].fd].path = load[b].path
        /\ load[b].fd \notin touched' => desc_table'[load[b].fd].offset = 0
    BY <2>2, <1>3, <1>9 DEF LoadOK
  <2>5. \A b \in Callers : load[b].at = "buffer" => load[b].size = desc_table'[load[b].fd].size
    <3>1. \A b \in Callers : load[b].at = "buffer" => Holds(b)
      BY DEF Holds
    <3> QED BY <3>1, <1>3, <1>9 DEF LoadOK
  <2> QED BY <2>1, <2>3, <2>4, <2>5, <1>1, <1>3 DEF LoadOK
<1> QED BY <1>2, <1>9, <1>11, <1>12 DEF FsInv

LEMMA ModAdd ==
    ASSUME NEW M \in Nat \ {0}, NEW x \in Nat, NEW n \in Nat
    PROVE  ((x % M) + n) % M = (x + n) % M
<1> DEFINE r == x % M
<1> DEFINE q == x \div M
<1>1. q \in Int /\ r \in Int /\ x = M * q + r
  <2>1. q \in Int /\ x = M * q + r
    BY DivMod
  <2>2. r \in 0 .. M - 1
    BY ModIn
  <2> QED BY <2>1, <2>2
<1> HIDE DEF r, q
<1> DEFINE y == r + n
<1> DEFINE s == y % M
<1> DEFINE p == y \div M
<1>2. y \in Int
  BY <1>1
<1>3. p \in Int /\ y = M * p + s
  <2> HIDE DEF y
  <2> QED BY <1>2, DivMod
<1>4. s \in 0 .. M - 1
  <2> HIDE DEF y
  <2> QED BY <1>2, ModIn
<1> DEFINE z == x + n
<1> DEFINE k == q + p
<1>5. z = M * q + y
  <2> DEFINE a == M * q
  <2>1. a \in Int /\ x = a + r
    BY <1>1
  <2> HIDE DEF a
  <2>2. x + n = a + (r + n)
    BY <2>1, <1>1
  <2> QED BY <2>2 DEF a
<1> HIDE DEF y, s, p
<1>6. M * k = M * q + M * p /\ M * q \in Int /\ M * p \in Int /\ k \in Int
  BY <1>1, <1>3
<1>7. z = M * k + s /\ z \in Int
  <2> DEFINE a == M * q
  <2> DEFINE b == M * p
  <2> DEFINE w == M * k
  <2>1. w = a + b /\ a \in Int /\ b \in Int /\ y = b + s /\ z = a + y /\ s \in Int
    BY <1>3, <1>4, <1>5, <1>6
  <2>3. z \in Int
    OBVIOUS
  <2> HIDE DEF a, b, w, z, k
  <2>2. z = w + s
    BY <2>1
  <2> QED BY <2>2, <2>3 DEF w
<1> HIDE DEF z, k
<1>8. z % M = s
  <2>1. k \in Int /\ z \in Int /\ s \in 0 .. M - 1 /\ z = M * k + s
    BY <1>4, <1>6, <1>7
  <2> QED BY <2>1, Quotient
<1> QED BY <1>8 DEF z, s, y, r

\* A read goes on where the last one ended.
LEMMA StretchExtends ==
    ASSUME NEW C, IsSeq(C), NEW m \in Nat, NEW s, NEW t, NEW want \in Nat,
           Stretch(s, C, m, Len(s)), Stretch(t, C, m + Len(s), want)
    PROVE  Stretch(s \o t, C, m, Len(s \o t))
<1> DEFINE a == Len(s)
<1> DEFINE b == Len(t)
<1> DEFINE l == Len(C)
<1> DEFINE r == s \o t
<1>1. IsSeq(s) /\ IsSeq(t) /\ a \in Nat /\ b \in Nat /\ l \in Nat
  BY SeqFacts DEF Stretch
<1>2. Joined(r, s, t)
  BY <1>1, ConcatJoins
<1> HIDE DEF r
<1>3. IsSeq(r) /\ Len(r) = a + b
  BY <1>2 DEF Joined
<1>4. /\ a = IF m + a <= l THEN a ELSE IF m <= l THEN l - m ELSE 0
      /\ b = IF (m + a) + want <= l THEN want ELSE IF m + a <= l THEN l - (m + a) ELSE 0
  BY DEF Stretch
<1>5. \A i \in 1 .. a : s[i] = C[m + i]
  BY DEF Stretch
<1>6. \A i \in 1 .. b : t[i] = C[(m + a) + i]
  BY DEF Stretch
<1>7. ASSUME NEW i \in 1 .. Len(r) PROVE r[i] = C[m + i]
  <2>1. CASE i \in 1 .. a
    BY <2>1, <1>2, <1>5 DEF Joined
  <2>2. CASE ~(i \in 1 .. a)
    <3> DEFINE j == i - a
    <3>1. j \in 1 .. b /\ a + j = i /\ (m + a) + j = m + i
      <4> HIDE DEF a, b
      <4> QED BY <2>2, <1>1, <1>3
    <3> HIDE DEF j
    <3>2. r[a + j] = t[j]
      BY <3>1, <1>2 DEF Joined
    <3>3. t[j] = C[(m + a) + j]
      BY <3>1, <1>6
    <3> QED BY <3>1, <3>2, <3>3
  <2> QED BY <2>1, <2>2
<1>8. a + b = IF m + (a + b) <= l THEN a + b ELSE IF m <= l THEN l - m ELSE 0
  <2> HIDE DEF a, b, l
  <2>1. CASE m + a <= l
    <3>1. CASE (m + a) + want <= l
      BY <3>1, <2>1, <1>1, <1>4
    <3>2. CASE ~((m + a) + want <= l)
      <4>1. b = l - (m + a)
        BY <3>2, <2>1, <1>4
      <4> QED BY <4>1, <2>1, <1>1
    <3> QED BY <3>1, <3>2
  <2>2. CASE ~(m + a <= l)
    <3>1. ~((m + a) + want <= l)
      BY <2>2, <1>1
    <3>2. b = 0
      BY <3>1, <2>2, <1>4
    <3>3. a = IF m <= l THEN l - m ELSE 0
      BY <2>2, <1>4
    <3> QED BY <3>2, <3>3, <2>2, <1>1
  <2> QED BY <2>1, <2>2
<1>9. Stretch(r, C, m, Len(r))
  BY <1>3, <1>7, <1>8 DEF Stretch
<1> QED BY <1>9 DEF r

LEMMA StreamExtends ==
    ASSUME disk \in Volumes, NEW f, OpenOK(f), NEW s, StreamsFrom(s, f), NEW data, IsSeq(data), NEW want \in Nat,
           FileAt(f.path).chain # << >> => Stretch(data, Content(FileAt(f.path)), f.offset % U32, want),
           NEW g, g.path = f.path, g.offset = (f.offset + Len(data)) % Usize
    PROVE  StreamsFrom([s EXCEPT !.data = @ \o data], g)
<1> DEFINE t == [s EXCEPT !.data = @ \o data]
<1> DEFINE file == FileAt(f.path)
<1> DEFINE C == Content(file)
<1> DEFINE all == s.data \o data
<1> DEFINE l == Len(s.data)
<1> DEFINE k == Len(data)
<1>0. U32 \in Nat \ {0} /\ Usize \in Nat \ {0} /\ Usize >= U32
  BY SizesAssumption, UsizeAssumption
<1>1. /\ s = [from |-> s.from, data |-> s.data] /\ s.from \in 0 .. Usize - 1 /\ IsSeq(s.data)
      /\ f.offset = (s.from + l) % Usize
      /\ file.chain # << >> /\ s.from < U32 => Stretch(s.data, C, s.from, l)
  BY DEF StreamsFrom
<1>2. l \in Nat /\ k \in Nat
  BY <1>1, SeqFacts
<1>3. t = [from |-> t.from, data |-> t.data] /\ t.from = s.from /\ t.data = all
  <2> HIDE DEF all
  <2>1. t = [s EXCEPT !.data = all]
    BY DEF all
  <2> HIDE DEF t
  <2> QED BY <2>1, <1>1
<1>4. IsSeq(all) /\ Len(all) = l + k
  BY <1>1, ConcatJoins DEF Joined
<1> HIDE DEF t
<1>5. g.offset = (s.from + Len(all)) % Usize
  <2> DEFINE x == s.from + l
  <2>1. x \in Nat
    BY <1>1, <1>2
  <2>2. s.from + Len(all) = x + k
    BY <1>1, <1>2, <1>4
  <2>3. f.offset = x % Usize
    BY <1>1
  <2> HIDE DEF x, all, k, l
  <2>4. ((x % Usize) + k) % Usize = (x + k) % Usize
    BY <2>1, <1>0, <1>2, ModAdd
  <2>5. g.offset = (f.offset + k) % Usize
    BY DEF k
  <2> QED BY <2>2, <2>3, <2>4, <2>5
<1>6. ASSUME file.chain # << >>, s.from < U32 PROVE Stretch(all, C, s.from, Len(all))
  <2>1. IsFile(disk, file)
    BY NamedFile DEF OpenOK
  <2>2. IsSeq(C) /\ Len(C) \in Nat /\ Len(C) < U32
    BY <2>1, ContentFacts, ChainFacts
  <2>3. Stretch(s.data, C, s.from, l)
    BY <1>1, <1>6
  <2>4. s.from + l < U32
    <3> DEFINE c == Len(C)
    <3> DEFINE a == s.from
    <3>1. l = IF a + l <= c THEN l ELSE IF a <= c THEN c - a ELSE 0
      BY <2>3 DEF Stretch
    <3>2. a \in Nat /\ a < U32 /\ c \in Nat /\ c < U32
      BY <1>1, <1>6, <2>2
    <3> HIDE DEF l, c, a
    <3>3. a + l < U32
      BY <3>1, <3>2, <1>0, <1>2
    <3> QED BY <3>3 DEF a
  <2>5. f.offset % U32 = s.from + l
    <3> DEFINE x == s.from + l
    <3>1. x \in 0 .. U32 - 1 /\ x \in 0 .. Usize - 1
      <4>1. x \in Nat /\ x < U32
        BY <2>4, <1>1, <1>2
      <4> HIDE DEF x
      <4> QED BY <4>1, <1>0
    <3>2. f.offset = x % Usize
      BY <1>1
    <3> HIDE DEF x
    <3>3. x % Usize = x /\ x % U32 = x
      BY <3>1, <1>0, ModBelow
    <3>4. f.offset % U32 = x
      BY <3>2, <3>3
    <3> QED BY <3>4 DEF x
  <2>6. Stretch(data, C, s.from + l, want)
    BY <2>5, <1>6
  <2>7. s.from \in Nat
    BY <1>1
  <2> HIDE DEF C
  <2> QED BY <2>2, <2>3, <2>6, <2>7, StretchExtends
<1> HIDE DEF all
<1>7. StreamsFrom(t, g)
  BY <1>1, <1>3, <1>4, <1>5, <1>6 DEF StreamsFrom
<1> QED BY <1>7 DEF t

\* The whole of a file, and the bytes from an offset on.
LEMMA WholeFile ==
    ASSUME disk \in Volumes, NEW path \in Paths, FileAt(path) # NoFile,
           NEW data, IsSeq(data), Len(data) <= FileAt(path).size,
           FileAt(path).chain # << >> => Stretch(data, Content(FileAt(path)), 0, FileAt(path).size)
    PROVE  Whole(path, data)
<1> SUFFICES ASSUME FileAt(path).kind # "deleted" PROVE data = SubSeq(Content(FileAt(path)), 1, FileAt(path).size)
  BY DEF Whole
<1> DEFINE file == FileAt(path)
<1> DEFINE C == Content(file)
<1> DEFINE n == file.size
<1>1. IsFile(disk, file)
  BY NamedFile
<1>2. IsSeq(C) /\ Len(C) \in Nat /\ n \in 0 .. Len(C) /\ (file.chain = << >> => n = 0)
  BY <1>1, ContentFacts, ChainFacts
<1>3. Stretch(SubSeq(C, 0 + 1, Min({0 + n, Len(C)})), C, 0, n)
  <2>1. n \in Nat
    BY <1>2
  <2> HIDE DEF C, n
  <2> QED BY <2>1, <1>2, SubSeqStretch
<1>4. Min({0 + n, Len(C)}) = n
  <2> HIDE DEF C, n
  <2>1. 0 + n = n /\ n \in Int /\ Len(C) \in Int /\ n <= Len(C)
    BY <1>2
  <2> QED BY <2>1, LeastOfTwo
<1>5. Stretch(SubSeq(C, 1, n), C, 0, n)
  <2>1. 0 + 1 = 1
    OBVIOUS
  <2> QED BY <2>1, <1>3, <1>4
<1>6. Stretch(data, C, 0, n)
  <2>1. CASE file.chain # << >>
    BY <2>1
  <2>2. CASE file.chain = << >>
    <3>1. n = 0 /\ Len(data) \in Nat /\ Len(data) <= n
      BY <2>2, <1>2, SeqFacts
    <3>2. Len(data) = 0 /\ 0 + n <= Len(C)
      BY <3>1, <1>2
    <3>3. \A i \in 1 .. Len(data) : data[i] = C[0 + i]
      BY <3>2
    <3> HIDE DEF C
    <3> QED BY <3>1, <3>2, <3>3 DEF Stretch
  <2> QED BY <2>1, <2>2
<1> HIDE DEF C
<1>7. data = SubSeq(C, 1, n)
  BY <1>5, <1>6, StretchUnique
<1> QED BY <1>7 DEF C

LEMMA ReadDoneKeeps ==
    ASSUME FsInv, ReadDone
    PROVE  FsInv'
<1>1. kernel = "up" /\ job.stage = "done" /\ job' = NoJob /\ UNCHANGED <<kernel, disk, fat, curr_fd, touched>>
  BY DEF ReadDone
<1>2. DiskOK' /\ JobOK'
  BY <1>1 DEF FsInv, DiskOK, JobOK
<1>3. DiskOK /\ TableOK /\ StreamOK /\ LoadOK /\ JobOK
  BY DEF FsInv
<1>4. IsReading
  <2>1. CASE IsOpening
    BY <2>1, <1>1 DEF IsOpening, LookOK, Opening
  <2>2. CASE IsSeeking
    BY <2>2, <1>1 DEF IsSeeking, LookOK, Seeking
  <2>3. CASE job = NoJob
    BY <2>3, <1>1 DEF NoJob
  <2> QED BY <1>3, <2>1, <2>2, <2>3 DEF JobOK
<1>5. PICK stage, c, fd, want, rd :
        /\ job = Reading(stage, c, fd, want, rd)
        /\ c \in Callers /\ fd \in DOMAIN desc_table /\ want \in Nat /\ Reader(c, fd, want)
        /\ ReadOK(stage, rd, FileAt(desc_table[fd].path), desc_table[fd].offset % U32, want)
  BY <1>4, Zenon DEF IsReading
<1>6. stage = "done" /\ job.rd = rd /\ job.client = c /\ job.fd = fd
  BY <1>1, <1>5 DEF Reading
<1> DEFINE f == desc_table[fd]
<1> DEFINE file == FileAt(f.path)
<1> DEFINE data == rd.data
<1> DEFINE at == (f.offset + Len(data)) % Usize
<1>7. /\ IsSeq(data) /\ Len(data) <= want
      /\ file.chain # << >> => Stretch(data, Content(file), f.offset % U32, want)
  BY <1>5, <1>6 DEF ReadOK, LoopTyped
<1>8. OpenOK(f)
  BY <1>3, <1>5 DEF TableOK
<1>9. at \in Nat
  <2>1. f.offset \in Nat /\ Len(data) \in Nat /\ Usize \in Nat \ {0}
    BY <1>7, <1>8, SeqFacts, UsizeAssumption, SizesAssumption DEF OpenOK
  <2> DEFINE x == f.offset + Len(data)
  <2>2. x \in Int
    BY <2>1
  <2> HIDE DEF x
  <2>3. x % Usize \in 0 .. Usize - 1
    BY <2>1, <2>2, ModIn
  <2> QED BY <2>3 DEF x
<1>10. desc_table' = [desc_table EXCEPT ![fd].offset = at]
  BY <1>6 DEF ReadDone, NewOffset
<1> DEFINE t == [stream[fd] EXCEPT !.data = @ \o data]
<1>11. stream' = [stream EXCEPT ![fd] = t]
  BY <1>6 DEF ReadDone
<1> HIDE DEF at
<1>12. /\ TableOK' /\ DOMAIN desc_table' = DOMAIN desc_table
       /\ \A g \in DOMAIN desc_table :
            /\ desc_table'[g].path = desc_table[g].path /\ desc_table'[g].size = desc_table[g].size
            /\ g # fd => desc_table'[g] = desc_table[g]
       /\ desc_table'[fd].offset = at
  BY <1>1, <1>5, <1>9, <1>10, OffsetMoves
<1>13. StreamOK'
  <2>1. PICK g : g = desc_table'[fd]
    OBVIOUS
  <2>2. g.path = f.path /\ g.offset = (f.offset + Len(data)) % Usize
    BY <2>1, <1>5, <1>12 DEF at
  <2>3. PICK s : s = stream[fd]
    OBVIOUS
  <2>4. StreamsFrom(s, f) /\ disk \in Volumes
    BY <2>3, <1>3, <1>5 DEF StreamOK, DiskOK
  <2>5. StreamsFrom([s EXCEPT !.data = @ \o data], g)
    <3> HIDE DEF f, data
    <3>1. FileAt(f.path).chain # << >> => Stretch(data, Content(FileAt(f.path)), f.offset % U32, want)
      BY <1>7
    <3> QED BY <3>1, <2>2, <2>4, <1>5, <1>7, <1>8, StreamExtends
  <2>6. StreamsFrom(t, g)
    BY <2>3, <2>5
  <2> HIDE DEF t
  <2>7. /\ DOMAIN stream' = DOMAIN desc_table /\ stream'[fd] = t
        /\ \A h \in DOMAIN desc_table : h # fd => stream'[h] = stream[h]
    BY <1>3, <1>5, <1>11 DEF StreamOK
  <2>8. \A h \in DOMAIN desc_table : StreamsFrom(stream'[h], desc_table'[h])
    BY <2>1, <2>6, <2>7, <1>3, <1>12 DEF StreamOK
  <2>9. \A h \in DOMAIN desc_table : StreamsFrom(stream[h], desc_table[h])'
    BY <2>8, <1>1, DiskFixed
  <2> QED BY <2>7, <2>9, <1>12 DEF StreamOK
<1> DEFINE x == [at |-> "loaded", fd |-> load[c].fd, path |-> load[c].path, data |-> data]
<1>14. load' = [load EXCEPT ![c] = IF load[c].at = "read" THEN x ELSE load[c]]
  BY <1>6 DEF ReadDone
<1>15. DOMAIN load' = Callers /\ \A b \in Callers : b # c => load'[b] = load[b]
  BY <1>3, <1>14 DEF LoadOK
<1>16. x.at = "loaded" /\ x.fd = load[c].fd /\ x.path = load[c].path /\ x.data = data
  OBVIOUS
<1> HIDE DEF x
<1>17. \/ load[c].at = "no" /\ fd \in touched /\ load'[c] = load[c]
       \/ load[c].at = "read" /\ load[c].fd = fd /\ want = f.size /\ load'[c] = x
  BY <1>3, <1>5, <1>14 DEF Reader, LoadOK
<1>18. \A b \in Callers : Holds(b)' => /\ Holds(b) /\ load'[b] = load[b]
                                       /\ load[b].fd # fd \/ fd \in touched
  <2> SUFFICES ASSUME NEW b \in Callers, Holds(b)'
               PROVE  Holds(b) /\ load'[b] = load[b] /\ (load[b].fd # fd \/ fd \in touched)
    OBVIOUS
  <2>1. CASE b = c
    BY <2>1, <1>16, <1>17 DEF Holds
  <2>2. CASE b # c
    <3>1. Holds(b) /\ load'[b] = load[b]
      BY <2>2, <1>15 DEF Holds
    <3>2. CASE fd \in touched
      BY <3>1, <3>2
    <3>3. CASE load[c].at = "read" /\ load[c].fd = fd
      <4>1. Holds(c)
        BY <3>3 DEF Holds
      <4> QED BY <4>1, <3>1, <3>3, <2>2, <1>3, <1>5 DEF LoadOK
    <3> QED BY <3>1, <3>2, <3>3, <1>17
  <2> QED BY <2>1, <2>2
<1>19. LoadOK'
  <2>1. \A b \in Callers : Holds(b)' =>
        /\ load'[b].fd \in DOMAIN desc_table' /\ desc_table'[load'[b].fd].path = load'[b].path
        /\ load'[b].fd \notin touched => desc_table'[load'[b].fd].offset = 0
    BY <1>3, <1>12, <1>18 DEF LoadOK
  <2>2. \A b \in Callers : load'[b].at = "buffer" => load'[b].size = desc_table'[load'[b].fd].size
    <3> SUFFICES ASSUME NEW b \in Callers, load'[b].at = "buffer" PROVE load'[b].size = desc_table'[load'[b].fd].size
      OBVIOUS
    <3>1. Holds(b)'
      BY DEF Holds
    <3>2. Holds(b) /\ load'[b] = load[b]
      BY <3>1, <1>18
    <3>3. load[b].fd \in DOMAIN desc_table /\ load[b].size = desc_table[load[b].fd].size
      BY <3>2, <1>3 DEF LoadOK
    <3> QED BY <3>2, <3>3, <1>12
  <2>3. \A a, b \in Callers : Holds(a)' /\ Holds(b)' /\ a # b => load'[a].fd # load'[b].fd
    BY <1>3, <1>18 DEF LoadOK
  <2>4. ASSUME NEW b \in Callers, load'[b].at = "loaded", load'[b].fd \notin touched
        PROVE  Whole(load'[b].path, load'[b].data)
    <3>1. CASE b # c \/ load'[c] = load[c]
      BY <3>1, <2>4, <1>3, <1>15 DEF LoadOK
    <3>2. CASE b = c /\ load[c].at = "read" /\ load[c].fd = fd /\ want = f.size /\ load'[c] = x
      <4>1. Holds(c)
        BY <3>2 DEF Holds
      <4>2. f.path = load[c].path /\ f.offset = 0
        BY <4>1, <3>2, <2>4, <1>3, <1>5, <1>16 DEF LoadOK
      <4>3. f.path \in Paths /\ file # NoFile /\ f.size = file.size /\ disk \in Volumes
        BY <1>3, <1>8 DEF OpenOK, DiskOK
      <4>4. 0 % U32 = 0
        <5>1. U32 \in Nat \ {0} /\ 0 \in 0 .. U32 - 1
          BY SizesAssumption
        <5> QED BY <5>1, ModBelow
      <4>5. Whole(f.path, data)
        <5>1. file.chain # << >> => Stretch(data, Content(file), 0, file.size)
          BY <4>2, <4>3, <4>4, <3>2, <1>7
        <5>2. Len(data) <= file.size
          BY <4>3, <3>2, <1>7
        <5> DEFINE path == f.path
        <5>3. path \in Paths /\ FileAt(path) # NoFile /\ Len(data) <= FileAt(path).size
          BY <4>3, <5>2
        <5>4. FileAt(path).chain # << >> => Stretch(data, Content(FileAt(path)), 0, FileAt(path).size)
          BY <5>1
        <5> HIDE DEF path, data
        <5>5. Whole(path, data)
          BY <5>3, <5>4, <4>3, <1>7, WholeFile
        <5> QED BY <5>5 DEF path
      <4> QED BY <4>2, <4>5, <3>2, <1>16
    <3> QED BY <3>1, <3>2, <1>17
  <2>5. \A p, d : Whole(p, d)' <=> Whole(p, d)
    BY <1>1, DiskFixed
  <2>6. \A b \in Callers : load'[b].at = "loaded" /\ load'[b].fd \notin touched => Whole(load[b].path, load[b].data)'
    BY <2>4, <2>5
  <2> QED BY <2>1, <2>2, <2>3, <2>6, <1>1, <1>15 DEF LoadOK
<1> QED BY <1>2, <1>12, <1>13, <1>19 DEF FsInv

LEMMA FsStutterKeeps ==
    ASSUME FsInv, UNCHANGED vars
    PROVE  FsInv'
<1>1. UNCHANGED <<kernel, disk, fat, job, desc_table, curr_fd, load, touched, stream>>
  BY DEF vars
<1>2. DiskOK'
  BY <1>1 DEF FsInv, DiskOK
<1>3. curr_fd' \in Nat /\ curr_fd <= curr_fd'
  BY <1>1 DEF FsInv, TableOK
<1> QED BY <1>1, <1>2, <1>3, TablesStay, LoadsStay, JobStays DEF FsInv

LEMMA FsInitInv ==
    ASSUME FsInit
    PROVE  FsInv
<1>1. DiskOK
  BY DEF FsInit, DiskOK
<1>2. TableOK
  BY DEF FsInit, TableOK
<1>3. StreamOK
  BY DEF FsInit, StreamOK
<1>4. LoadOK
  <2>1. DOMAIN load = Callers /\ \A c \in Callers : load[c].at = "no"
    BY DEF FsInit, NotLoading
  <2> QED BY <2>1 DEF LoadOK, Holds
<1>5. JobOK
  BY DEF FsInit, JobOK
<1> QED BY <1>1, <1>2, <1>3, <1>4, <1>5 DEF FsInv

LEMMA FsNextKeeps ==
    ASSUME FsInv, [FsNext]_vars
    PROVE  FsInv'
<1>1. CASE Progress
  BY <1>1, BootKeeps, FindKeeps, ReadAtKeeps, OpenDoneKeeps, LookupFailedKeeps, ReadFoundKeeps, ReadDoneKeeps
     DEF Progress
<1>2. CASE Halted \/ UNCHANGED vars
  BY <1>2, FsStutterKeeps DEF Halted
<1>3. ASSUME NEW c \in Callers, Call(c) PROVE FsInv'
  BY <1>3, FsStutterKeeps, SysOpenKeeps, SysSeekKeeps, SysReadKeeps, LoadExeKeeps DEF Call, Rejected
<1>4. ASSUME NEW c \in Callers, Load(c) PROVE FsInv'
  BY <1>4, LoadSizeKeeps, LoadReadKeeps, LoadCopiedKeeps DEF Load
<1> QED BY <1>1, <1>2, <1>3, <1>4 DEF FsNext

\* The invariant of the file system, for every set of well-formed disks.  Between two
\* iterations of find_file() the names behind the walk lead to the directory it is in,
\* no file before the entry it is at has the name it looks for, and it is never
\* between a name of one piece and its entry.  Between two iterations of read_at() the
\* buffer has the bytes of the chain from the offset on, and the clusters behind are
\* those that were skipped or copied.  A descriptor of load_exe() that no program has
\* used is where it was opened, and no two loads have the same.
THEOREM FsInvariant == FsSpec => []FsInv
<1>1. FsInit => FsInv
  BY FsInitInv
<1>2. FsInv /\ [FsNext]_vars => FsInv'
  BY FsNextKeeps
<1> QED BY <1>1, <1>2, PTL DEF FsSpec

LEMMA ExtractStretch ==
    ASSUME NEW file, IsFile(disk, file), NEW o \in Nat, NEW n \in Nat, NEW data, Stretch(data, Content(file), o, n)
    PROVE  data = Extract(file, o, n)
<1> DEFINE C == Content(file)
<1>1. IsSeq(C)
  BY ContentFacts
<1>2. Extract(file, o, n) = SubSeq(C, o + 1, Min({o + n, Len(C)}))
  BY Zenon DEF Extract
<1>3. Stretch(data, C, o, n)
  OBVIOUS
<1> HIDE DEF C
<1>4. Stretch(SubSeq(C, o + 1, Min({o + n, Len(C)})), C, o, n)
  BY <1>1, SubSeqStretch
<1> QED BY <1>2, <1>3, <1>4, StretchUnique

LEMMA InvLookup ==
    ASSUME FsInv
    PROVE  LookupExact
<1> SUFFICES ASSUME job.stage \in {"found", "missing"} PROVE LookupExact
  BY DEF LookupExact
<1>1. JobOK
  BY DEF FsInv
<1> DEFINE Exact(path) ==
        /\ job.stage = "missing" => FileAt(path) = NoFile
        /\ job.stage # "missing" => FileAt(path) # NoFile /\ Describes(job.look.entry, FileAt(path))
<1>2. CASE IsOpening
  <2>1. PICK stage, c, fd, path, look :
        /\ job = Opening(stage, c, fd, path, look)
        /\ LookOK(stage, look, path)
    BY <1>2, Zenon DEF IsOpening
  <2>2. job.stage = stage /\ job.look = look /\ job.op = "open" /\ job.path = path
    BY <2>1 DEF Opening
  <2>3. Exact(path)
    BY <2>1, <2>2 DEF LookOK
  <2> HIDE DEF Exact
  <2> QED BY <2>2, <2>3 DEF LookupExact, Describes, Exact
<1>3. CASE IsSeeking
  <2>1. PICK stage, c, fd, want, look :
        /\ job = Seeking(stage, c, fd, want, look)
        /\ LookOK(stage, look, desc_table[fd].path)
    BY <1>3, Zenon DEF IsSeeking
  <2>2. job.stage = stage /\ job.look = look /\ job.op = "read" /\ job.fd = fd
    BY <2>1 DEF Seeking
  <2>3. Exact(desc_table[fd].path)
    BY <2>1, <2>2 DEF LookOK
  <2> HIDE DEF Exact
  <2> QED BY <2>2, <2>3 DEF LookupExact, Describes, PathOf, Exact
<1>4. CASE IsReading
  BY <1>4 DEF IsReading, ReadOK, Reading
<1>5. CASE job = NoJob
  BY <1>5 DEF NoJob
<1> QED BY <1>1, <1>2, <1>3, <1>4, <1>5 DEF JobOK

LEMMA InvReads ==
    ASSUME FsInv
    PROVE  ReadsFileBytes
<1> SUFFICES ASSUME job.stage = "done", FileAt(PathOf(job.fd)).chain # << >>, desc_table[job.fd].offset < U32
             PROVE  job.rd.data = Extract(FileAt(PathOf(job.fd)), desc_table[job.fd].offset, job.want)
  BY DEF ReadsFileBytes
<1>1. JobOK /\ TableOK /\ DiskOK
  BY DEF FsInv
<1>2. IsReading
  <2>1. CASE IsOpening
    BY <2>1 DEF IsOpening, LookOK, Opening
  <2>2. CASE IsSeeking
    BY <2>2 DEF IsSeeking, LookOK, Seeking
  <2>3. CASE job = NoJob
    BY <2>3 DEF NoJob
  <2> QED BY <1>1, <2>1, <2>2, <2>3 DEF JobOK
<1>3. PICK stage, c, fd, want, rd :
        /\ job = Reading(stage, c, fd, want, rd)
        /\ c \in Callers /\ fd \in DOMAIN desc_table /\ want \in Nat /\ Reader(c, fd, want)
        /\ ReadOK(stage, rd, FileAt(desc_table[fd].path), desc_table[fd].offset % U32, want)
  BY <1>2, Zenon DEF IsReading
<1>4. stage = "done" /\ job.rd = rd /\ job.fd = fd /\ job.want = want
  BY <1>3 DEF Reading
<1> DEFINE file == FileAt(desc_table[fd].path)
<1> DEFINE o == desc_table[fd].offset
<1>5. Stretch(rd.data, Content(file), o % U32, want)
  BY <1>3, <1>4 DEF ReadOK, PathOf
<1>6. o \in Nat /\ IsFile(disk, file)
  <2>1. OpenOK(desc_table[fd])
    BY <1>1, <1>3 DEF TableOK
  <2> QED BY <2>1, <1>1, NamedFile DEF OpenOK, DiskOK
<1>7. o % U32 = o
  <2>1. o < U32
    BY <1>4
  <2> HIDE DEF o
  <2>2. U32 \in Nat \ {0} /\ o \in 0 .. U32 - 1
    BY <2>1, <1>6, SizesAssumption
  <2> QED BY <2>2, ModBelow
<1>8. rd.data = Extract(file, o, want)
  <2> HIDE DEF file, o
  <2> QED BY <1>3, <1>5, <1>6, <1>7, ExtractStretch
<1> QED BY <1>4, <1>8 DEF PathOf

LEMMA InvStreams ==
    ASSUME FsInv
    PROVE  StreamInOrder
<1>1. StreamOK /\ TableOK /\ DiskOK
  BY DEF FsInv
<1> SUFFICES ASSUME NEW fd \in DOMAIN desc_table
             PROVE  /\ desc_table[fd].offset = (stream[fd].from + Len(stream[fd].data)) % Usize
                    /\ FileAt(PathOf(fd)).chain # << >> /\ stream[fd].from < U32 =>
                        stream[fd].data = Extract(FileAt(PathOf(fd)), stream[fd].from, Len(stream[fd].data))
  BY Zenon DEF StreamInOrder
<1> DEFINE s == stream[fd]
<1> DEFINE file == FileAt(desc_table[fd].path)
<1>2. StreamsFrom(s, desc_table[fd])
  BY <1>1 DEF StreamOK
<1>3. IsFile(disk, file)
  <2>1. OpenOK(desc_table[fd])
    BY <1>1 DEF TableOK
  <2> QED BY <2>1, <1>1, NamedFile DEF OpenOK, DiskOK
<1>4. s.from \in Nat /\ Len(s.data) \in Nat
  BY <1>2, SeqFacts DEF StreamsFrom
<1>5. ASSUME file.chain # << >>, s.from < U32 PROVE s.data = Extract(file, s.from, Len(s.data))
  <2>1. Stretch(s.data, Content(file), s.from, Len(s.data))
    BY <1>2, <1>5 DEF StreamsFrom
  <2> HIDE DEF s, file
  <2> QED BY <2>1, <1>3, <1>4, ExtractStretch
<1>6. desc_table[fd].offset = (s.from + Len(s.data)) % Usize
  BY <1>2 DEF StreamsFrom
<1> QED BY <1>5, <1>6 DEF PathOf

LEMMA InvLoads ==
    ASSUME FsInv
    PROVE  LoadsWholeFile
<1>1. \A c \in Callers : load[c].at = "loaded" /\ load[c].fd \notin touched => Whole(load[c].path, load[c].data)
  BY Zenon DEF FsInv, LoadOK
<1> QED BY <1>1, Zenon DEF Whole, LoadsWholeFile

\* get_entry_from_path() finds the first file a path leads to, and nothing else, on
\* every well-formed disk: however many clusters its directories have, wherever the
\* pieces of a long name are cut, and with deleted entries anywhere.  A deleted file, or
\* one behind a deleted long name, is found by that long name, and never by a short one.
THEOREM LookupsAreExact == FsSpec => []LookupExact
BY FsInvariant, InvLookup, PTL

\* read_at() returns the bytes of the file's chain from the offset on, for every
\* offset of 32 bits and every length of the buffer.
THEOREM ReadsAreExact == FsSpec => []ReadsFileBytes
BY FsInvariant, InvReads, PTL

\* Successive reads through a descriptor return the file without a gap or a
\* repetition, whichever processes make them and however they are interleaved with
\* the calls of others.
THEOREM StreamsAreInOrder == FsSpec => []StreamInOrder
BY FsInvariant, InvStreams, PTL

\* load_exe() gets the whole of a file that is not deleted, although it gives up the
\* Mutex between its open, size and read, for any number of processes that use any
\* descriptors but its own.
THEOREM LoadsAreWhole == FsSpec => []LoadsWholeFile
BY FsInvariant, InvLoads, PTL

=============================================================================
