--------------------------- MODULE SpinLockProofs ---------------------------
(***************************************************************************)
(* SpinLock for every set of processes: what the same-process shortcut     *)
(* leaves of mutual exclusion, and when the hart spins for ever.           *)
(*                                                                         *)
(* RealWriteExcludes carries itself: an access that goes past the lock is  *)
(* by the process in recent_pid, which is the writer or one of those that  *)
(* were past the lock before it.  The freezes also need that who has the   *)
(* inner lock in create_process() is on the hart (CreatorRuns).            *)
(***************************************************************************)
EXTENDS SpinLock, TLAPS

LockTypeOK ==
    /\ running \in Procs /\ recent_pid \in Procs
    /\ todo \in [Procs -> Seq(Sections)]
    /\ at \in [Procs -> Places]
    /\ real \in [Procs -> Sections \cup {"none"}]
    /\ frozen \in BOOLEAN
    /\ earlier \subseteq Procs

\* A process in lock(), or with a guard, has a section to finish; one that has just
\* taken the inner lock has it.
PlacesMatch ==
    \A p \in Procs :
        /\ at[p] # "out" => todo[p] # << >>
        /\ at[p] = "taken" => real[p] # "none"

CreatorRuns ==
    \A p \in Procs : real[p] = "create" =>
        /\ p = running
        /\ todo[p] # << >> /\ Head(todo[p]) = "create"
        /\ at[p] \in {"taken", "in"}
        /\ at[p] = "in" => recent_pid = p

LockInv == LockTypeOK /\ PlacesMatch /\ CreatorRuns /\ RealWriteExcludes /\ FreezeIsExplained

-----------------------------------------------------------------------------
\* While a process writes, an access is granted only by the shortcut.
LEMMA WriterMeansShortcut ==
    ASSUME NEW p \in Procs, Writes(p), NEW kind
    PROVE  ~Free(kind)
BY DEF Writes, Free, Kind

\* While a process writes, the shortcut is for it and for those past the lock before it.
LEMMA ShortcutIsKnown ==
    ASSUME LockInv, SameProcess, NEW p \in Procs, Writes(p)
    PROVE  running = recent_pid /\ recent_pid \in earlier \cup {p}
BY DEF LockInv, RealWriteExcludes, SameProcess

LEMMA InitHolds == LockInit => LockInv
<1> SUFFICES ASSUME LockInit PROVE LockInv
    OBVIOUS
<1>1. LockTypeOK
  <2>1. Null \in Procs
    BY LockProcsAssumption DEF Procs
  <2>2. << >> \in Seq(Sections)
    OBVIOUS
  <2> QED BY <2>1, <2>2 DEF LockInit, LockTypeOK, Places
<1> QED BY <1>1 DEF LockInit, LockInv, PlacesMatch, Writes, CreatorRuns, RealWriteExcludes, FreezeIsExplained

LEMMA CallPreserves ==
    ASSUME LockInv, NEW p \in Procs, Call(p) PROVE LockInv'
<1> USE DEF LockInv, LockTypeOK
<1>1. PICK c \in Calls(p) : todo' = [todo EXCEPT ![p] = c]
    BY DEF Call
<1>2. c \in Seq(Sections) /\ c # << >>
  <2>1. c \in FsCalls \cup SysCalls
    BY DEF Calls
  <2>2. /\ <<"create", "create", "load", "update">> \in Seq(Sections)
        /\ <<"update">> \in Seq(Sections)
        /\ <<"update", "read">> \in Seq(Sections)
        /\ <<"update", "update">> \in Seq(Sections)
        /\ <<"update", "read", "update">> \in Seq(Sections)
        /\ <<"update", "update", "update", "load", "exec">> \in Seq(Sections)
    BY DEF Sections
  <2>3. /\ <<"create", "create", "load", "update">> # << >>
        /\ <<"update">> # << >>
        /\ <<"update", "read">> # << >>
        /\ <<"update", "update">> # << >>
        /\ <<"update", "read", "update">> # << >>
        /\ <<"update", "update", "update", "load", "exec">> # << >>
    OBVIOUS
  <2>4. c \in Seq(Sections)
    BY <2>1, <2>2 DEF FsCalls, SysCalls
  <2>5. c # << >>
    BY <2>1, <2>3, Zenon DEF FsCalls, SysCalls
  <2> QED BY <2>4, <2>5
<1>3. /\ todo[p] = << >>
      /\ UNCHANGED <<running, recent_pid, at, real, frozen, earlier>>
    BY DEF Call
<1>4. LockTypeOK'
    BY <1>1, <1>2, <1>3
<1>5. \A q \in Procs \ {p} : todo'[q] = todo[q]
    BY <1>1
<1>6. at[p] = "out"
    BY <1>3 DEF PlacesMatch, Places
<1>7. PlacesMatch'
    BY <1>1, <1>2, <1>3, <1>5, <1>6 DEF PlacesMatch
<1>8. CreatorRuns'
    BY <1>3, <1>5, <1>6 DEF CreatorRuns
<1> QED BY <1>3, <1>4, <1>7, <1>8 DEF Writes, RealWriteExcludes, FreezeIsExplained

LEMMA ComparePreserves ==
    ASSUME LockInv, NEW p \in Procs, Compare(p) PROVE LockInv'
<1> USE DEF LockInv, LockTypeOK
<1>1. /\ ~frozen /\ running = p /\ todo[p] # << >> /\ at[p] = "out"
      /\ UNCHANGED <<running, recent_pid, todo, real, frozen, earlier>>
      /\ \A q \in Procs \ {p} : at'[q] = at[q]
      /\ at'[p] = IF SameProcess THEN "past" ELSE "spin"
      /\ at' \in [Procs -> Places]
    BY DEF Compare, Goto, Places
<1>2. LockTypeOK' /\ PlacesMatch' /\ CreatorRuns'
    BY <1>1 DEF PlacesMatch, CreatorRuns
<1>3. RealWriteExcludes'
  <2> SUFFICES ASSUME NEW w \in Procs, Writes(w)
               PROVE  /\ \A q \in Procs \ {w} : real'[q] = "none" /\ (at'[q] \in {"past", "in"} => q \in earlier)
                      /\ recent_pid \in earlier \cup {w} \/ (w = running /\ at'[w] = "taken")
    BY <1>1 DEF RealWriteExcludes, Writes
  <2>1. at'[p] = "past" /\ p # w => p \in earlier
    BY <1>1, ShortcutIsKnown
  <2>2. /\ \A q \in Procs \ {w} : real[q] = "none" /\ (at[q] \in {"past", "in"} => q \in earlier)
        /\ recent_pid \in earlier \cup {w} \/ (w = running /\ at[w] = "taken")
    BY DEF RealWriteExcludes
  <2> QED BY <1>1, <2>1, <2>2
<1>4. FreezeIsExplained'
    BY <1>1 DEF FreezeIsExplained
<1> QED BY <1>2, <1>3, <1>4

LEMMA AcquirePreserves ==
    ASSUME LockInv, NEW p \in Procs, Acquire(p) PROVE LockInv'
<1> DEFINE s == Head(todo[p])
<1> USE DEF LockInv, LockTypeOK
<1>1. /\ ~frozen /\ running = p /\ at[p] = "spin" /\ Free(Kind(s))
      /\ UNCHANGED <<running, recent_pid, todo, frozen>>
      /\ earlier' = IF Kind(s) = "write" THEN PastLock(p) ELSE earlier
      /\ real' = [real EXCEPT ![p] = s]
      /\ at' = [at EXCEPT ![p] = "taken"]
    BY DEF Acquire, Goto
<1>2. todo[p] # << >> /\ s \in Sections
    BY <1>1 DEF PlacesMatch
<1>3. s # "none"
    BY <1>2 DEF Sections
<1> HIDE DEF s
<1>4. LockTypeOK' /\ PlacesMatch'
    BY <1>1, <1>2, <1>3 DEF PastLock, PlacesMatch, Places
<1>5. CreatorRuns'
    BY <1>1, <1>2 DEF CreatorRuns, s
<1>6. RealWriteExcludes'
  <2> SUFFICES ASSUME NEW w \in Procs, Writes(w)'
               PROVE  /\ \A q \in Procs \ {w} : real'[q] = "none" /\ (at'[q] \in {"past", "in"} => q \in earlier')
                      /\ w = running' /\ at'[w] = "taken"
    BY DEF RealWriteExcludes
  <2>1. w = p
    BY <1>1, WriterMeansShortcut DEF Writes
  <2>2. Kind(s) = "write"
    BY <1>1, <2>1 DEF Writes
  <2>3. \A q \in Procs : real[q] = "none"
    BY <1>1, <2>2 DEF Free
  <2> QED BY <1>1, <2>1, <2>2, <2>3 DEF PastLock
<1>7. FreezeIsExplained'
    BY <1>1 DEF FreezeIsExplained
<1> QED BY <1>4, <1>5, <1>6, <1>7

LEMMA StorePreserves ==
    ASSUME LockInv, NEW p \in Procs, Store(p) PROVE LockInv'
<1> USE DEF LockInv, LockTypeOK
<1>1. /\ ~frozen /\ running = p /\ at[p] \in {"past", "taken"}
      /\ UNCHANGED <<running, todo, real, frozen, earlier>>
      /\ recent_pid' = p
      /\ at' = [at EXCEPT ![p] = "in"]
    BY DEF Store, Recent, Goto
<1>2. LockTypeOK' /\ PlacesMatch' /\ CreatorRuns'
    BY <1>1 DEF PlacesMatch, CreatorRuns, Places
<1>3. RealWriteExcludes'
  <2> SUFFICES ASSUME NEW w \in Procs, Writes(w)
               PROVE  /\ \A q \in Procs \ {w} : real'[q] = "none" /\ (at'[q] \in {"past", "in"} => q \in earlier)
                      /\ recent_pid' \in earlier \cup {w}
    BY <1>1 DEF RealWriteExcludes, Writes
  <2>1. \A q \in Procs \ {w} : real[q] = "none" /\ (at[q] \in {"past", "in"} => q \in earlier)
    BY DEF RealWriteExcludes
  <2>2. p # w => p \in earlier
    BY <1>1, <2>1 DEF PlacesMatch
  <2> QED BY <1>1, <2>1, <2>2
<1>4. FreezeIsExplained'
    BY <1>1 DEF FreezeIsExplained
<1> QED BY <1>2, <1>3, <1>4

LEMMA LeavePreserves ==
    ASSUME LockInv, NEW p \in Procs, Leave(p) PROVE LockInv'
<1> USE DEF LockInv, LockTypeOK
<1>1. /\ running = p /\ ~frozen /\ at[p] = "in"
      /\ UNCHANGED <<running, recent_pid, frozen, earlier>>
      /\ at' = [at EXCEPT ![p] = "out"]
      /\ todo' = [todo EXCEPT ![p] = Tail(todo[p])]
    BY DEF Leave, Goto
<1>2. /\ \A q \in Procs \ {p} : real'[q] = real[q] /\ todo'[q] = todo[q]
      /\ real'[p] \in {real[p], "none"}
      /\ real[p] = "create" => real'[p] = "none"
      /\ real' \in [Procs -> Sections \cup {"none"}]
  <2>1. real[p] = "create" => real[p] = Head(todo[p])
    BY DEF CreatorRuns
  <2> QED BY <1>1, <2>1 DEF Leave
<1>3. LockTypeOK'
  <2>1. Tail(todo[p]) \in Seq(Sections)
    BY <1>1 DEF PlacesMatch
  <2>2. todo' \in [Procs -> Seq(Sections)]
    BY <1>1, <2>1
  <2> QED BY <1>1, <1>2, <2>2 DEF Places
<1>4. PlacesMatch' /\ CreatorRuns'
    BY <1>1, <1>2 DEF PlacesMatch, CreatorRuns
<1>5. RealWriteExcludes'
  <2> SUFFICES ASSUME NEW w \in Procs, Writes(w)'
               PROVE  /\ \A q \in Procs \ {w} : real'[q] = "none" /\ (at'[q] \in {"past", "in"} => q \in earlier)
                      /\ recent_pid \in earlier \cup {w} \/ (w = running /\ at'[w] = "taken")
    BY <1>1 DEF RealWriteExcludes
  <2>1. \A q \in Procs : real'[q] = real[q] \/ real'[q] = "none"
    BY <1>1, <1>2
  <2>2. Writes(w)
    BY <2>1 DEF Writes
  <2>3. /\ \A q \in Procs \ {w} : real[q] = "none" /\ (at[q] \in {"past", "in"} => q \in earlier)
        /\ recent_pid \in earlier \cup {w} \/ (w = running /\ at[w] = "taken")
    BY <2>2 DEF RealWriteExcludes
  <2> QED BY <1>1, <2>1, <2>3
<1>6. FreezeIsExplained'
    BY <1>1 DEF FreezeIsExplained
<1> QED BY <1>3, <1>4, <1>5, <1>6

LEMMA OperationPreserves ==
    ASSUME LockInv, NEW kind, NEW q \in Procs, Operation(kind, q) PROVE LockInv'
<1> USE DEF LockInv, LockTypeOK
<1>1. /\ ~frozen /\ Granted(kind)
      /\ running' = q /\ recent_pid' = running
      /\ q # running => MaySwitch
      /\ UNCHANGED <<todo, at, real, frozen, earlier>>
    BY DEF Operation, Recent
<1>2. LockTypeOK' /\ PlacesMatch'
    BY <1>1 DEF PlacesMatch
<1>3. CreatorRuns'
    BY <1>1 DEF CreatorRuns, MaySwitch
<1>4. RealWriteExcludes'
  <2> SUFFICES ASSUME NEW w \in Procs, Writes(w)
               PROVE  /\ \A r \in Procs \ {w} : real[r] = "none" /\ (at[r] \in {"past", "in"} => r \in earlier)
                      /\ running \in earlier \cup {w}
    BY <1>1 DEF RealWriteExcludes, Writes
  <2>1. SameProcess
    BY <1>1, WriterMeansShortcut DEF Granted
  <2> QED BY <2>1, ShortcutIsKnown DEF RealWriteExcludes
<1>5. FreezeIsExplained'
    BY <1>1 DEF FreezeIsExplained
<1> QED BY <1>2, <1>3, <1>4, <1>5

LEMMA SpinPreserves ==
    ASSUME LockInv, NEW kind, Spin(kind) PROVE LockInv'
<1> USE DEF LockInv, LockTypeOK
<1>1. ~SameProcess /\ ~Free(kind)
    BY DEF Spin, Granted
<1>2. PICK p \in Procs : real[p] # "none"
    BY <1>1 DEF Free
<1>3. p = running => recent_pid # p
    BY <1>1 DEF SameProcess
<1>4. real[p] = "create" => p = running /\ at[p] = "taken"
    BY <1>3 DEF CreatorRuns
<1>5. FreezeIsExplained'
    BY <1>2, <1>3, <1>4 DEF Spin, FreezeIsExplained
<1> QED BY <1>5 DEF Spin, PlacesMatch, CreatorRuns, Writes, RealWriteExcludes

LEMMA StepPreserves == LockInv /\ [LockNext]_lockVars => LockInv'
<1> SUFFICES ASSUME LockInv, [LockNext]_lockVars PROVE LockInv'
    OBVIOUS
<1>1. ASSUME NEW p \in Procs, Call(p) \/ Compare(p) PROVE LockInv'
    BY <1>1, CallPreserves, ComparePreserves
<1>2. ASSUME NEW p \in Procs, Acquire(p) \/ Store(p) PROVE LockInv'
    BY <1>2, AcquirePreserves, StorePreserves
<1>3. ASSUME NEW p \in Procs, Leave(p) PROVE LockInv'
    BY <1>3, LeavePreserves
<1>4. ASSUME NEW p \in Procs, Wait(p) PROVE LockInv'
    BY <1>4, OperationPreserves DEF Wait
<1>5. CASE Tick \/ DeviceInterrupt
    BY <1>5, OperationPreserves DEF Tick, DeviceInterrupt
<1>6. CASE Spin("read") \/ Spin("write")
    BY <1>6, SpinPreserves
<1>7. CASE UNCHANGED lockVars
    BY <1>7 DEF lockVars, LockInv, LockTypeOK, PlacesMatch, Writes, CreatorRuns, RealWriteExcludes, FreezeIsExplained
<1> QED BY <1>1, <1>2, <1>3, <1>4, <1>5, <1>6, <1>7 DEF LockNext, SpinOn

-----------------------------------------------------------------------------
\* Whatever the processes call and whenever they are interrupted, in lock() and
\* lock_mut() too, a process that has the inner lock for writing shares the table
\* only with those that had gone past the lock before it was taken.
THEOREM TableWritersExclude == LockSpec => []RealWriteExcludes
<1>1. LockInv => RealWriteExcludes
    BY DEF LockInv
<1> QED BY <1>1, InitHolds, StepPreserves, PTL DEF LockSpec

\* The hart spins for ever only in one of the situations that FreezeIsExplained names;
\* on create_process() only when an interrupt came between the inner lock and the
\* store to recent_pid.
THEOREM FreezesAreExplained == LockSpec => []FreezeIsExplained
<1>1. LockInv => FreezeIsExplained
    BY DEF LockInv
<1> QED BY <1>1, InitHolds, StepPreserves, PTL DEF LockSpec
=============================================================================
