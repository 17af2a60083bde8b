------------------------- MODULE VirtioInputProofs --------------------------
(***************************************************************************)
(* The events of the mouse arrive in order, for any even ring size and any *)
(* ring index that wraps at a multiple of it.                              *)
(*                                                                         *)
(* The indices of the driver and the device are remainders of counters     *)
(* that only grow.  The invariant says that there are such counters, and   *)
(* what the rings, descriptors and buffers hold between them.              *)
(***************************************************************************)
EXTENDS VirtioInput, TLAPS

Half == RingSize \div 2

\* The indices, for a events acknowledged, u completed and v buffers posted.
IndexInv(a, u, v) ==
    /\ a \in Nat /\ u \in Nat /\ v \in Nat /\ a <= u /\ u <= v
    /\ event_ack_used_index = a % IdxModulus
    /\ used_idx = u % IdxModulus /\ dev_idx = u % IdxModulus
    /\ avail_idx = v % IdxModulus /\ event_index = v % RingSize

\* The phases of the driver: outside init_input_event() half of the descriptors
\* are posted, and inside it no interrupt has been handled.
PhaseInv(a, v) ==
    /\ kproc = "init" => a = 0 /\ v = posted /\ posted < Half /\ handling = "nobody"
    /\ kproc # "init" => v = a + Half
    /\ handling = "nobody" => phase = "none"

\* The rings name the descriptors in turn.  Of the posted descriptors no two have
\* the same buffer, although a buffer moves from descriptor to descriptor.
RingInv(a, u, v) ==
    /\ desc \in [Descs -> Int] /\ buffer \in [Descs -> Int]
    /\ avail_ring \in [Descs -> Int] /\ used_ring \in [Descs -> Int]
    /\ \A x \in a .. v - 1 : avail_ring[x % RingSize] = x % RingSize
    /\ \A x \in a .. u - 1 : used_ring[x % RingSize] = x % RingSize
    /\ \A x \in a .. v - 1 : desc[x % RingSize] \in Descs /\ desc[x % RingSize] % Half = x % Half

\* The events, numbered by the device: those in buffers, the one that is being
\* read, those in the queue, and c that kproc has taken.
EventInv(a, u, c) ==
    /\ c \in Nat /\ produced = u % Events /\ popped = c % Events
    /\ event_queue \in Seq(Int)
    /\ \A x \in a .. u - 1 : buffer[desc[x % RingSize]] = x % Events
    /\ phase = "read" => /\ a = c + Len(event_queue) + 1 /\ elem = (a - 1) % RingSize
                         /\ desc[elem] \in Descs /\ buffer[desc[elem]] = (a - 1) % Events
    /\ phase # "read" => a = c + Len(event_queue)
    /\ \A i \in 1 .. Len(event_queue) : event_queue[i] = (c + i - 1) % Events

Counted(a, u, v, c) == IndexInv(a, u, v) /\ PhaseInv(a, v) /\ RingInv(a, u, v) /\ EventInv(a, u, c)

InputInv ==
    /\ raced \in BOOLEAN /\ hart \in {"kproc", "other"}
    /\ ~raced => \E a, u, v, c \in Nat : Counted(a, u, v, c)

-----------------------------------------------------------------------------
(***************************************************************************)
(* Remainders.                                                             *)
(***************************************************************************)

LEMMA ModRange ==
    ASSUME NEW M \in Nat \ {0}, NEW x \in Int
    PROVE  x % M \in 0 .. M - 1
OBVIOUS

LEMMA ModDiv ==
    ASSUME NEW M \in Nat \ {0}, NEW x \in Int
    PROVE  x \div M \in Int /\ x = M * (x \div M) + (x % M)
OBVIOUS

LEMMA ModNone ==
    ASSUME NEW M \in Nat \ {0}, NEW a \in 0 .. M - 1, NEW b \in 0 .. M - 1, NEW k \in Int, a = b + M * k
    PROVE  a = b
OBVIOUS

LEMMA ModUnique ==
    ASSUME NEW M \in Nat \ {0}, NEW x \in Int, NEW q \in Int, NEW r \in 0 .. M - 1, x = M * q + r
    PROVE  x % M = r
<1> DEFINE d == x \div M
<1> DEFINE s == x % M
<1>1. d \in Int /\ x = M * d + s
  BY ModDiv
<1>2. s \in 0 .. M - 1
  BY ModRange
<1> HIDE DEF d, s
<1>3. s = r + M * (q - d)
  BY <1>1, <1>2
<1>4. q - d \in Int
  BY <1>1
<1>5. s = r
  BY <1>2, <1>3, <1>4, ModNone
<1> QED BY <1>5 DEF s

\* A remainder may be taken before something is added.
LEMMA ModAdd ==
    ASSUME NEW M \in Nat \ {0}, NEW x \in Int, NEW y \in Int
    PROVE  ((x % M) + y) % M = (x + y) % M
<1> DEFINE d == x \div M
<1> DEFINE s == x % M
<1> DEFINE e == (s + y) \div M
<1> DEFINE t == (s + y) % M
<1>1. d \in Int /\ x = M * d + s
  BY ModDiv
<1>2. s \in 0 .. M - 1
  BY ModRange
<1> HIDE DEF d, s
<1>3. s + y \in Int
  BY <1>2
<1>4. e \in Int /\ s + y = M * e + t
  BY <1>3, ModDiv
<1>5. t \in 0 .. M - 1
  BY <1>3, ModRange
<1> HIDE DEF e, t
<1> DEFINE q == d + e
<1> DEFINE z == x + y
<1>6. z = M * q + t /\ q \in Int /\ z \in Int
  BY <1>1, <1>2, <1>4, <1>5
<1> HIDE DEF q, z
<1>7. z % M = t
  BY <1>5, <1>6, ModUnique
<1> QED BY <1>7 DEF z, t, s

\* A remainder by a multiple keeps the remainder.
LEMMA ModMod ==
    ASSUME NEW R \in Nat \ {0}, NEW M \in Nat \ {0}, NEW k \in Int, M = R * k, NEW x \in Int
    PROVE  (x % M) % R = x % R
<1> DEFINE d == x \div M
<1> DEFINE s == x % M
<1> DEFINE e == s \div R
<1> DEFINE t == s % R
<1>1. d \in Int /\ x = M * d + s
  BY ModDiv
<1>2. s \in Int
  BY ModRange
<1> HIDE DEF d, s
<1>3. e \in Int /\ s = R * e + t
  BY <1>2, ModDiv
<1>4. t \in 0 .. R - 1
  BY <1>2, ModRange
<1> HIDE DEF e, t
<1> DEFINE q == k * d + e
<1>5. q \in Int
  BY <1>1, <1>3
<1>6. x = R * q + t
  <2>1. M * d = R * (k * d)
    BY <1>1
  <2>2. k * d \in Int
    BY <1>1
  <2> DEFINE p == k * d
  <2>3. x = R * p + (R * e + t) /\ p \in Int /\ q = p + e
    BY <2>1, <2>2, <1>1, <1>3
  <2> HIDE DEF p, q
  <2> QED BY <2>3, <1>3, <1>4
<1> HIDE DEF q
<1>7. x % R = t
  BY <1>4, <1>5, <1>6, ModUnique
<1> QED BY <1>7 DEF t, s

\* Numbers that are less than M apart have different remainders.
LEMMA ModApart ==
    ASSUME NEW M \in Nat \ {0}, NEW x \in Int, NEW y \in Int, x < y, y - x < M
    PROVE  x % M # y % M
<1> SUFFICES ASSUME x % M = y % M PROVE FALSE
  OBVIOUS
<1> DEFINE d == x \div M
<1> DEFINE e == y \div M
<1> DEFINE s == x % M
<1>1. d \in Int /\ x = M * d + s
  BY ModDiv
<1>2. e \in Int /\ y = M * e + s
  BY ModDiv
<1>3. s \in 0 .. M - 1
  BY ModRange
<1> HIDE DEF d, e, s
<1> DEFINE a == y - x
<1> DEFINE k == e - d
<1> DEFINE z == 0
<1>4. a \in 0 .. M - 1 /\ z \in 0 .. M - 1 /\ k \in Int /\ a = z + M * k /\ a > 0
  BY <1>1, <1>2, <1>3
<1> HIDE DEF a, k, z
<1>5. a = z
  BY <1>4, ModNone
<1> QED BY <1>4, <1>5 DEF z

-----------------------------------------------------------------------------
(***************************************************************************)
(* The ring.                                                               *)
(***************************************************************************)

LEMMA RingSizes ==
    /\ RingSize \in Nat \ {0} /\ IdxModulus \in Nat \ {0} /\ Events \in Nat \ {0} /\ Half \in Nat \ {0}
    /\ RingSize = 2 * Half /\ Half < RingSize
    /\ \E k \in Int : IdxModulus = RingSize * k
<1>1. RingSize \in Nat /\ RingSize >= 2 /\ RingSize % 2 = 0
  BY RingAssumption
<1>2. IdxModulus \in Nat \ {0} /\ IdxModulus % RingSize = 0
  BY IdxAssumption
<1>3. Events \in Nat \ {0}
  BY QueueAssumption
<1>4. Half \in Nat \ {0} /\ RingSize = 2 * Half /\ Half < RingSize
  BY <1>1 DEF Half
<1>5. IdxModulus \div RingSize \in Int /\ IdxModulus = RingSize * (IdxModulus \div RingSize)
  <2>1. RingSize \in Nat \ {0} /\ IdxModulus \in Int
    BY <1>1, <1>2
  <2> DEFINE d == IdxModulus \div RingSize
  <2>2. d \in Int /\ IdxModulus = RingSize * d + (IdxModulus % RingSize)
    BY <2>1, ModDiv
  <2> HIDE DEF d
  <2>3. d \in Int /\ IdxModulus = RingSize * d
    BY <2>1, <2>2, <1>2
  <2> QED BY <2>3 DEF d
<1> QED BY <1>1, <1>2, <1>3, <1>4, <1>5

\* A ring index has a place in the ring, although it wraps.
LEMMA Slot ==
    ASSUME NEW x \in Int
    PROVE  /\ (x % IdxModulus) % RingSize = x % RingSize
           /\ x % RingSize \in Descs
           /\ (x % RingSize) % Half = x % Half
           /\ (x + Half) % Half = x % Half
<1>1. PICK k \in Int : IdxModulus = RingSize * k
  BY RingSizes
<1>2. RingSize \in Nat \ {0} /\ IdxModulus \in Nat \ {0} /\ Half \in Nat \ {0} /\ RingSize = Half * 2
  BY RingSizes
<1>3. (x % IdxModulus) % RingSize = x % RingSize
  BY <1>1, <1>2, ModMod
<1>4. x % RingSize \in Descs
  BY <1>2, ModRange DEF Descs
<1>5. (x % RingSize) % Half = x % Half
  <2> DEFINE k2 == 2
  <2> DEFINE h == Half
  <2>1. RingSize = h * k2 /\ k2 \in Int /\ h \in Nat \ {0}
    BY <1>2
  <2> HIDE DEF k2, h
  <2>2. (x % RingSize) % h = x % h
    BY <2>1, <1>2, ModMod
  <2> QED BY <2>2 DEF h
<1>6. (x + Half) % Half = x % Half
  <2> DEFINE h == Half
  <2> DEFINE d == x \div h
  <2> DEFINE r == x % h
  <2>0. h \in Nat \ {0}
    BY <1>2
  <2> HIDE DEF h
  <2>1. d \in Int /\ x = h * d + r
    BY <2>0, ModDiv
  <2>2. r \in 0 .. h - 1
    BY <2>0, ModRange
  <2> HIDE DEF d, r
  <2> DEFINE q == d + 1
  <2> DEFINE y == x + h
  <2>3. y \in Int /\ q \in Int /\ y = h * q + r
    BY <2>0, <2>1, <2>2
  <2> HIDE DEF q, y
  <2>4. y % h = r
    BY <2>0, <2>2, <2>3, ModUnique
  <2> QED BY <2>4 DEF y, r, h
<1> QED BY <1>3, <1>4, <1>5, <1>6

\* Within one turn of the ring no slot comes twice, within half a turn no two
\* descriptors have buffers with the same remainder.
LEMMA SlotsApart ==
    ASSUME NEW x \in Int, NEW y \in Int, x < y
    PROVE  /\ y - x < RingSize => x % RingSize # y % RingSize
           /\ y - x < Half => x % Half # y % Half
<1>1. RingSize \in Nat \ {0} /\ Half \in Nat \ {0}
  BY RingSizes
<1>2. y - x < RingSize => x % RingSize # y % RingSize
  BY <1>1, ModApart
<1>3. y - x < Half => x % Half # y % Half
  <2> DEFINE h == Half
  <2>1. h \in Nat \ {0}
    BY <1>1
  <2> HIDE DEF h
  <2>2. y - x < h => x % h # y % h
    BY <2>1, ModApart
  <2> QED BY <2>2 DEF h
<1> QED BY <1>2, <1>3

LEMMA Wraps ==
    ASSUME NEW x \in Int
    PROVE  /\ WrappingAdd(x % IdxModulus) = (x + 1) % IdxModulus
           /\ ((x % RingSize) + 1) % RingSize = (x + 1) % RingSize
           /\ ((x % Events) + 1) % Events = (x + 1) % Events
<1>1. RingSize \in Nat \ {0} /\ IdxModulus \in Nat \ {0} /\ Events \in Nat \ {0} /\ 1 \in Int
  BY RingSizes
<1> DEFINE o == 1
<1>2. o \in Int
  OBVIOUS
<1> HIDE DEF o
<1>3. ((x % IdxModulus) + o) % IdxModulus = (x + o) % IdxModulus
  BY <1>1, <1>2, ModAdd
<1>4. ((x % RingSize) + o) % RingSize = (x + o) % RingSize
  BY <1>1, <1>2, ModAdd
<1>5. ((x % Events) + o) % Events = (x + o) % Events
  BY <1>1, <1>2, ModAdd
<1> QED BY <1>3, <1>4, <1>5 DEF o, WrappingAdd

\* At most half of the descriptors are posted.
LEMMA AtMostHalf ==
    ASSUME NEW a, NEW u, NEW v, IndexInv(a, u, v), PhaseInv(a, v)
    PROVE  v - a <= Half
<1>1. a \in Nat /\ v \in Nat /\ Half \in Nat
  BY RingSizes DEF IndexInv
<1>2. CASE kproc = "init"
  BY <1>1, <1>2 DEF PhaseInv
<1>3. CASE kproc # "init"
  <2>1. v = a + Half
    BY <1>3 DEF PhaseInv
  <2> HIDE DEF Half
  <2> QED BY <1>1, <2>1
<1> QED BY <1>2, <1>3

\* repopulate_event() puts buffer b into the slot after the posted ones.
LEMMA Repopulated ==
    ASSUME NEW a, NEW u, NEW v, IndexInv(a, u, v), PhaseInv(a, v), RingInv(a, u, v),
           NEW b \in Descs, b % Half = v % Half, RepopulateEvent(b)
    PROVE  /\ avail_idx' = (v + 1) % IdxModulus /\ event_index' = (v + 1) % RingSize
           /\ desc' \in [Descs -> Int] /\ avail_ring' \in [Descs -> Int]
           /\ \A x \in a .. v : avail_ring'[x % RingSize] = x % RingSize
           /\ \A x \in a .. v : desc'[x % RingSize] \in Descs /\ desc'[x % RingSize] % Half = x % Half
           /\ \A x \in a .. v - 1 : desc'[x % RingSize] = desc[x % RingSize]
<1> DEFINE s == v % RingSize
<1>1. /\ a \in Nat /\ u \in Nat /\ v \in Nat /\ a <= v /\ Half \in Nat /\ Half < RingSize /\ RingSize \in Nat
  BY RingSizes DEF IndexInv
<1>2. v - a <= Half
  BY AtMostHalf
<1>3. s \in Descs /\ (v % IdxModulus) % RingSize = s
  BY <1>1, Slot
<1>4. /\ desc' = [desc EXCEPT ![s] = b]
      /\ avail_ring' = [avail_ring EXCEPT ![s] = s]
      /\ avail_idx' = WrappingAdd(v % IdxModulus) /\ event_index' = (s + 1) % RingSize
  BY <1>3 DEF RepopulateEvent, IndexInv
<1>5. avail_idx' = (v + 1) % IdxModulus /\ event_index' = (v + 1) % RingSize
  BY <1>1, <1>4, Wraps
<1>6. ASSUME NEW x \in a .. v - 1 PROVE x % RingSize \in Descs /\ x % RingSize # s /\ x \in a .. v
  <2>1. x \in Int /\ v \in Int /\ x < v /\ v - x < RingSize /\ x \in a .. v
    BY <1>1, <1>2
  <2> QED BY <2>1, Slot, SlotsApart
<1> HIDE DEF s
<1>7. /\ desc \in [Descs -> Int] /\ avail_ring \in [Descs -> Int] /\ b \in Int /\ s \in Int
      /\ \A x \in a .. v - 1 : avail_ring[x % RingSize] = x % RingSize
      /\ \A x \in a .. v - 1 : desc[x % RingSize] \in Descs /\ desc[x % RingSize] % Half = x % Half
  BY <1>3 DEF RingInv, Descs
<1>8. desc' \in [Descs -> Int] /\ avail_ring' \in [Descs -> Int] /\ desc'[s] = b /\ avail_ring'[s] = s
  BY <1>3, <1>4, <1>7
<1>9. \A x \in a .. v - 1 : desc'[x % RingSize] = desc[x % RingSize] /\ avail_ring'[x % RingSize] = avail_ring[x % RingSize]
  BY <1>4, <1>6, <1>7
<1>10. \A x \in a .. v : x = v \/ x \in a .. v - 1
  BY <1>1
<1>11. \A x \in a .. v : avail_ring'[x % RingSize] = x % RingSize
  BY <1>7, <1>8, <1>9, <1>10 DEF s
<1>12. \A x \in a .. v : desc'[x % RingSize] \in Descs /\ desc'[x % RingSize] % Half = x % Half
  BY <1>7, <1>8, <1>9, <1>10 DEF s
<1> QED BY <1>5, <1>8, <1>9, <1>11, <1>12

-----------------------------------------------------------------------------
(***************************************************************************)
(* The actions.                                                            *)
(***************************************************************************)

\* The device fills the next buffer, which is none of those that hold an event.
LEMMA ProduceStep ==
    ASSUME NEW a \in Nat, NEW u \in Nat, NEW v \in Nat, NEW c \in Nat, Counted(a, u, v, c), Produce, ~raced'
    PROVE  Counted(a, u + 1, v, c)'
<1> DEFINE s == u % RingSize
<1> DEFINE d == avail_ring[dev_idx % RingSize]
<1>0. IndexInv(a, u, v) /\ PhaseInv(a, v) /\ RingInv(a, u, v) /\ EventInv(a, u, c)
  BY DEF Counted
<1>1. /\ dev_idx # avail_idx
      /\ buffer' = [buffer EXCEPT ![desc[d]] = produced]
      /\ used_ring' = [used_ring EXCEPT ![used_idx % RingSize] = d]
      /\ used_idx' = WrappingAdd(used_idx) /\ dev_idx' = WrappingAdd(dev_idx)
      /\ produced' = (produced + 1) % Events
      /\ ~(phase = "read" /\ desc[d] = desc[elem])
      /\ UNCHANGED <<desc, avail_idx, avail_ring, event_index, event_queue, handling, phase, elem,
                     event_ack_used_index, kproc, posted, hart, popped>>
  BY DEF Produce, driver, handler, process
<1>2. /\ a <= u /\ u <= v /\ used_idx = u % IdxModulus /\ dev_idx = u % IdxModulus /\ avail_idx = v % IdxModulus
      /\ event_ack_used_index = a % IdxModulus /\ event_index = v % RingSize
  BY <1>0 DEF IndexInv
<1>3. u < v /\ u \in a .. v - 1
  <2>1. u # v
    BY <1>1, <1>2
  <2> QED BY <2>1, <1>2
<1>4. v - a <= Half /\ Half \in Nat /\ Half < RingSize /\ RingSize \in Nat
  BY <1>0, AtMostHalf, RingSizes
<1>5. dev_idx % RingSize = s /\ used_idx % RingSize = s /\ s \in Descs
  BY <1>2, Slot
<1>6. d = s /\ desc[s] \in Descs /\ desc[s] % Half = u % Half
  BY <1>0, <1>3, <1>5 DEF RingInv
<1> HIDE DEF d
<1>7. /\ buffer' = [buffer EXCEPT ![desc[s]] = u % Events]
      /\ used_ring' = [used_ring EXCEPT ![s] = s]
      /\ used_idx' = (u + 1) % IdxModulus /\ dev_idx' = (u + 1) % IdxModulus
      /\ produced' = (u + 1) % Events
      /\ phase = "read" => desc[s] # desc[elem]
  <2>1. produced = u % Events
    BY <1>0 DEF EventInv
  <2>2. WrappingAdd(u % IdxModulus) = (u + 1) % IdxModulus /\ ((u % Events) + 1) % Events = (u + 1) % Events
    BY Wraps
  <2> QED BY <2>1, <2>2, <1>1, <1>2, <1>5, <1>6
<1>8. ASSUME NEW x \in a .. u - 1
      PROVE  x \in a .. v - 1 /\ x % RingSize \in Descs /\ x % RingSize # s /\ desc[x % RingSize] # desc[s] /\ desc[x % RingSize] \in Descs
  <2>1. x \in Int /\ u \in Int /\ x < u /\ u - x < RingSize /\ u - x < Half /\ x \in a .. v - 1
    BY <1>2, <1>3, <1>4
  <2>2. x % RingSize # s /\ x % Half # u % Half
    BY <2>1, SlotsApart
  <2>3. desc[x % RingSize] % Half = x % Half /\ desc[x % RingSize] \in Descs
    BY <2>1, <1>0 DEF RingInv
  <2>4. x % RingSize \in Descs
    BY <2>1, Slot
  <2> QED BY <2>1, <2>2, <2>3, <2>4, <1>6
<1>9. /\ desc \in [Descs -> Int] /\ buffer \in [Descs -> Int] /\ used_ring \in [Descs -> Int] /\ avail_ring \in [Descs -> Int]
      /\ \A x \in a .. u - 1 : used_ring[x % RingSize] = x % RingSize
  BY <1>0 DEF RingInv
<1>10. s \in Int /\ u % Events \in Int
  <2>1. Events \in Nat \ {0} /\ u \in Int
    BY RingSizes
  <2>2. u % Events \in 0 .. Events - 1
    BY <2>1, ModRange
  <2>3. s \in Int
    BY <1>5 DEF Descs
  <2> QED BY <2>1, <2>2, <2>3
<1> HIDE DEF s
<1>11. /\ buffer' \in [Descs -> Int] /\ used_ring' \in [Descs -> Int]
       /\ buffer'[desc[s]] = u % Events /\ used_ring'[s] = s
       /\ \A b \in Descs : b # desc[s] => buffer'[b] = buffer[b]
       /\ \A b \in Descs : b # s => used_ring'[b] = used_ring[b]
  BY <1>5, <1>6, <1>7, <1>9, <1>10
<1>12. \A x \in a .. (u + 1) - 1 : x = u \/ x \in a .. u - 1
  BY <1>2
<1>13. IndexInv(a, u + 1, v)'
  <2>1. a <= u + 1 /\ u + 1 <= v /\ u + 1 \in Nat
    BY <1>2, <1>3
  <2> QED BY <2>1, <1>1, <1>2, <1>7 DEF IndexInv
<1>14. PhaseInv(a, v)'
  BY <1>0, <1>1 DEF PhaseInv
<1>15. RingInv(a, u + 1, v)'
  <2>1. \A x \in a .. (u + 1) - 1 : used_ring'[x % RingSize] = x % RingSize
    BY <1>8, <1>9, <1>11, <1>12 DEF s
  <2>2. /\ \A x \in a .. v - 1 : avail_ring'[x % RingSize] = x % RingSize
        /\ \A x \in a .. v - 1 : desc'[x % RingSize] \in Descs /\ desc'[x % RingSize] % Half = x % Half
    BY <1>0, <1>1 DEF RingInv
  <2>3. desc' \in [Descs -> Int] /\ avail_ring' \in [Descs -> Int]
    BY <1>1, <1>9
  <2> QED BY <2>1, <2>2, <2>3, <1>11 DEF RingInv
<1>16. EventInv(a, u + 1, c)'
  <2>1. \A x \in a .. (u + 1) - 1 : buffer'[desc'[x % RingSize]] = x % Events
    <3>1. \A x \in a .. u - 1 : buffer[desc[x % RingSize]] = x % Events
      BY <1>0 DEF EventInv
    <3>2. \A x \in a .. u - 1 : buffer'[desc[x % RingSize]] = x % Events
      BY <3>1, <1>8, <1>11
    <3>3. desc' = desc
      BY <1>1
    <3> QED BY <3>2, <3>3, <1>11, <1>12 DEF s
  <2>2. phase = "read" => buffer'[desc[elem]] = buffer[desc[elem]]
    BY <1>0, <1>7, <1>11 DEF EventInv
  <2> QED BY <2>1, <2>2, <1>0, <1>1, <1>7 DEF EventInv
<1> QED BY <1>13, <1>14, <1>15, <1>16 DEF Counted

\* The handler gives the buffer of the oldest event back, and it is not the one
\* that a posted descriptor has.
LEMMA GiveBackStep ==
    ASSUME NEW a \in Nat, NEW u \in Nat, NEW v \in Nat, NEW c \in Nat, Counted(a, u, v, c), GiveBack
    PROVE  Counted(a + 1, u, v + 1, c)'
<1> DEFINE s == a % RingSize
<1> DEFINE id == used_ring[event_ack_used_index % RingSize]
<1>0. IndexInv(a, u, v) /\ PhaseInv(a, v) /\ RingInv(a, u, v) /\ EventInv(a, u, c)
  BY DEF Counted
<1>1. /\ phase = "loop" /\ event_ack_used_index # used_idx /\ RepopulateEvent(id)
      /\ event_ack_used_index' = WrappingAdd(event_ack_used_index)
      /\ elem' = id /\ phase' = "read"
      /\ UNCHANGED <<used_idx, used_ring, dev_idx, produced, buffer, event_queue, handling, kproc, posted, popped>>
  BY DEF GiveBack, device, process
<1>2. /\ a <= u /\ u <= v /\ used_idx = u % IdxModulus /\ dev_idx = u % IdxModulus /\ avail_idx = v % IdxModulus
      /\ event_ack_used_index = a % IdxModulus /\ event_index = v % RingSize
  BY <1>0 DEF IndexInv
<1>3. a < u /\ a \in a .. u - 1 /\ a \in a .. v - 1
  <2>1. u # a
    BY <1>1, <1>2
  <2> QED BY <2>1, <1>2
<1>4. kproc # "init" /\ v = a + Half
  BY <1>0, <1>1 DEF PhaseInv
<1>5. Half \in Nat /\ Half < RingSize /\ RingSize \in Nat
  BY RingSizes
<1>6. event_ack_used_index % RingSize = s /\ s \in Descs /\ s % Half = a % Half /\ (a + Half) % Half = a % Half
  BY <1>2, Slot
<1>7. id = s
  BY <1>0, <1>3, <1>6 DEF RingInv
<1> HIDE DEF id
<1>8. RepopulateEvent(s) /\ elem' = s /\ s % Half = v % Half
  BY <1>1, <1>4, <1>6, <1>7
<1> HIDE DEF s
<1>9. /\ avail_idx' = (v + 1) % IdxModulus /\ event_index' = (v + 1) % RingSize
      /\ desc' \in [Descs -> Int] /\ avail_ring' \in [Descs -> Int]
      /\ \A x \in a .. v : avail_ring'[x % RingSize] = x % RingSize
      /\ \A x \in a .. v : desc'[x % RingSize] \in Descs /\ desc'[x % RingSize] % Half = x % Half
      /\ \A x \in a .. v - 1 : desc'[x % RingSize] = desc[x % RingSize]
  BY <1>0, <1>6, <1>8, Repopulated
<1>10. /\ \A x \in a + 1 .. (v + 1) - 1 : x \in a .. v
       /\ \A x \in a + 1 .. u - 1 : x \in a .. u - 1 /\ x \in a .. v - 1
       /\ (a + 1) - 1 = a
  BY <1>2
<1>11. IndexInv(a + 1, u, v + 1)'
  <2>1. a + 1 \in Nat /\ v + 1 \in Nat /\ a + 1 <= u /\ u <= v + 1
    BY <1>2, <1>3
  <2>2. event_ack_used_index' = (a + 1) % IdxModulus
    BY <1>1, <1>2, Wraps
  <2> QED BY <2>1, <2>2, <1>1, <1>2, <1>9 DEF IndexInv
<1>12. PhaseInv(a + 1, v + 1)'
  <2>1. v + 1 = (a + 1) + Half
    <3> HIDE DEF Half
    <3> QED BY <1>4, <1>5
  <2>2. handling # "nobody"
    BY <1>0, <1>1 DEF PhaseInv
  <2> QED BY <2>1, <2>2, <1>1, <1>4 DEF PhaseInv
<1>13. RingInv(a + 1, u, v + 1)'
  <2>1. /\ buffer \in [Descs -> Int] /\ used_ring \in [Descs -> Int]
        /\ \A x \in a .. u - 1 : used_ring[x % RingSize] = x % RingSize
    BY <1>0 DEF RingInv
  <2>2. \A x \in a + 1 .. u - 1 : used_ring'[x % RingSize] = x % RingSize
    BY <2>1, <1>1, <1>10
  <2>3. \A x \in a + 1 .. (v + 1) - 1 : avail_ring'[x % RingSize] = x % RingSize
    BY <1>9, <1>10
  <2>4. \A x \in a + 1 .. (v + 1) - 1 : desc'[x % RingSize] \in Descs /\ desc'[x % RingSize] % Half = x % Half
    BY <1>9, <1>10
  <2>5. buffer' \in [Descs -> Int] /\ used_ring' \in [Descs -> Int]
    BY <2>1, <1>1
  <2> QED BY <2>2, <2>3, <2>4, <2>5, <1>9 DEF RingInv
<1>14. EventInv(a + 1, u, c)'
  <2>1. /\ produced = u % Events /\ popped = c % Events /\ event_queue \in Seq(Int)
        /\ \A x \in a .. u - 1 : buffer[desc[x % RingSize]] = x % Events
        /\ a = c + Len(event_queue)
        /\ \A i \in 1 .. Len(event_queue) : event_queue[i] = (c + i - 1) % Events
    BY <1>0, <1>1 DEF EventInv
  <2>2. \A x \in a + 1 .. u - 1 : buffer'[desc'[x % RingSize]] = x % Events
    BY <2>1, <1>1, <1>9, <1>10
  <2>3. desc'[s] \in Descs /\ buffer'[desc'[s]] = a % Events
    <3>1. a \in a .. v
      BY <1>2
    <3>2. desc'[s] = desc[s] /\ desc'[s] \in Descs
      BY <3>1, <1>3, <1>9 DEF s
    <3>3. buffer[desc[s]] = a % Events
      BY <2>1, <1>3 DEF s
    <3> QED BY <3>2, <3>3, <1>1
  <2>4. a + 1 = c + Len(event_queue) + 1 /\ elem' = ((a + 1) - 1) % RingSize /\ buffer'[desc'[elem']] = ((a + 1) - 1) % Events
        /\ desc'[elem'] \in Descs
    BY <2>1, <2>3, <1>8, <1>10 DEF s
  <2> QED BY <2>1, <2>2, <2>4, <1>1 DEF EventInv
<1> QED BY <1>11, <1>12, <1>13, <1>14 DEF Counted

LEMMA ReadEventStep ==
    ASSUME NEW a \in Nat, NEW u \in Nat, NEW v \in Nat, NEW c \in Nat, Counted(a, u, v, c), ReadEvent
    PROVE  Counted(a, u, v, c)'
<1> DEFINE n == Len(event_queue)
<1> DEFINE e == buffer[desc[elem]]
<1>0. IndexInv(a, u, v) /\ PhaseInv(a, v) /\ RingInv(a, u, v) /\ EventInv(a, u, c)
  BY DEF Counted
<1>1. /\ phase = "read" /\ phase' = "loop" /\ event_queue' = Append(event_queue, e)
      /\ UNCHANGED <<used_idx, used_ring, dev_idx, produced, buffer, desc, avail_idx, avail_ring, event_index,
                     handling, elem, event_ack_used_index, kproc, posted, popped>>
  BY DEF ReadEvent, device, driver, process, EventAt
<1>2. /\ produced = u % Events /\ popped = c % Events /\ event_queue \in Seq(Int)
      /\ \A x \in a .. u - 1 : buffer[desc[x % RingSize]] = x % Events
      /\ a = c + n + 1 /\ desc[elem] \in Descs /\ e = (a - 1) % Events
      /\ \A i \in 1 .. n : event_queue[i] = (c + i - 1) % Events
  BY <1>0, <1>1 DEF EventInv
<1>3. n \in Nat /\ e \in Int
  <2>1. buffer \in [Descs -> Int]
    BY <1>0 DEF RingInv
  <2> QED BY <2>1, <1>2
<1> HIDE DEF e
<1>4. event_queue' \in Seq(Int) /\ Len(event_queue') = n + 1 /\ event_queue'[n + 1] = e
      /\ \A i \in 1 .. n : event_queue'[i] = event_queue[i]
  BY <1>1, <1>2, <1>3
<1> HIDE DEF n
<1>5. \A i \in 1 .. n + 1 : event_queue'[i] = (c + i - 1) % Events
  <2>1. \A i \in 1 .. n + 1 : i \in 1 .. n \/ i = n + 1
    BY <1>3
  <2>2. c + (n + 1) - 1 = a - 1
    BY <1>2, <1>3
  <2> QED BY <2>1, <2>2, <1>2, <1>4
<1>6. a = c + Len(event_queue')
  BY <1>2, <1>3, <1>4
<1>7. EventInv(a, u, c)'
  BY <1>1, <1>2, <1>4, <1>5, <1>6 DEF EventInv
<1>8. IndexInv(a, u, v)'
  BY <1>0, <1>1 DEF IndexInv
<1>9. PhaseInv(a, v)'
  <2>1. handling # "nobody"
    BY <1>0, <1>1 DEF PhaseInv
  <2> QED BY <2>1, <1>0, <1>1 DEF PhaseInv
<1>10. RingInv(a, u, v)'
  BY <1>0, <1>1 DEF RingInv
<1> QED BY <1>7, <1>8, <1>9, <1>10 DEF Counted

\* A step that touches neither the rings nor the queue.
LEMMA QuietStep ==
    ASSUME NEW a \in Nat, NEW u \in Nat, NEW v \in Nat, NEW c \in Nat, Counted(a, u, v, c),
           UNCHANGED <<used_idx, used_ring, dev_idx, produced, buffer, desc, avail_idx, avail_ring, event_index,
                       event_queue, elem, event_ack_used_index, posted, popped>>,
           phase' = phase \/ (phase # "read" /\ phase' # "read"),
           kproc' = kproc \/ (kproc # "init" /\ kproc' # "init"),
           kproc = "init" => handling' = handling,
           handling' = "nobody" => phase' = "none"
    PROVE  Counted(a, u, v, c)'
<1>0. IndexInv(a, u, v) /\ PhaseInv(a, v) /\ RingInv(a, u, v) /\ EventInv(a, u, c)
  BY DEF Counted
<1>1. IndexInv(a, u, v)'
  BY <1>0 DEF IndexInv
<1>2. PhaseInv(a, v)'
  BY <1>0 DEF PhaseInv
<1>3. RingInv(a, u, v)'
  BY <1>0 DEF RingInv
<1>4. EventInv(a, u, c)'
  BY <1>0 DEF EventInv
<1> QED BY <1>1, <1>2, <1>3, <1>4 DEF Counted

\* init_input_event() posts buffer number i in descriptor i.
LEMMA InitInputEventStep ==
    ASSUME NEW a \in Nat, NEW u \in Nat, NEW v \in Nat, NEW c \in Nat, Counted(a, u, v, c), InitInputEvent
    PROVE  Counted(a, u, v + 1, c)'
<1>0. IndexInv(a, u, v) /\ PhaseInv(a, v) /\ RingInv(a, u, v) /\ EventInv(a, u, c)
  BY DEF Counted
<1>1. /\ kproc = "init" /\ RepopulateEvent(posted) /\ posted' = posted + 1
      /\ kproc' = IF posted' = Half THEN "test" ELSE "init"
      /\ UNCHANGED <<used_idx, used_ring, dev_idx, produced, buffer, event_queue, handling, phase, elem,
                     event_ack_used_index, popped>>
  BY DEF InitInputEvent, device, handler, Half
<1>2. /\ a <= u /\ u <= v /\ used_idx = u % IdxModulus /\ dev_idx = u % IdxModulus
      /\ event_ack_used_index = a % IdxModulus
  BY <1>0 DEF IndexInv
<1>3. a = 0 /\ v = posted /\ posted < Half /\ handling = "nobody" /\ phase = "none"
  BY <1>0, <1>1 DEF PhaseInv
<1>4. Half \in Nat /\ Half < RingSize /\ RingSize \in Nat
  BY RingSizes
<1>5. v \in Descs /\ RepopulateEvent(v)
  BY <1>1, <1>3, <1>4 DEF Descs
<1>6. /\ avail_idx' = (v + 1) % IdxModulus /\ event_index' = (v + 1) % RingSize
      /\ desc' \in [Descs -> Int] /\ avail_ring' \in [Descs -> Int]
      /\ \A x \in a .. v : avail_ring'[x % RingSize] = x % RingSize
      /\ \A x \in a .. v : desc'[x % RingSize] \in Descs /\ desc'[x % RingSize] % Half = x % Half
      /\ \A x \in a .. v - 1 : desc'[x % RingSize] = desc[x % RingSize]
  BY <1>0, <1>5, Repopulated
<1>7. (v + 1) - 1 = v /\ \A x \in a .. u - 1 : x \in a .. v - 1
  BY <1>2
<1>8. IndexInv(a, u, v + 1)'
  <2>1. v + 1 \in Nat /\ u <= v + 1
    BY <1>2
  <2> QED BY <2>1, <1>1, <1>2, <1>6 DEF IndexInv
<1>9. PhaseInv(a, v + 1)'
  <2>1. kproc' = "init" => v + 1 = posted' /\ posted' < Half
    BY <1>1, <1>3, <1>4
  <2>2. kproc' # "init" => v + 1 = a + Half
    BY <1>1, <1>3, <1>4
  <2> QED BY <2>1, <2>2, <1>1, <1>3 DEF PhaseInv
<1>10. RingInv(a, u, v + 1)'
  <2>1. /\ buffer \in [Descs -> Int] /\ used_ring \in [Descs -> Int]
        /\ \A x \in a .. u - 1 : used_ring[x % RingSize] = x % RingSize
    BY <1>0 DEF RingInv
  <2>2. \A x \in a .. (v + 1) - 1 : avail_ring'[x % RingSize] = x % RingSize
    BY <1>6, <1>7
  <2>3. \A x \in a .. (v + 1) - 1 : desc'[x % RingSize] \in Descs /\ desc'[x % RingSize] % Half = x % Half
    BY <1>6, <1>7
  <2> QED BY <2>1, <2>2, <2>3, <1>1, <1>6 DEF RingInv
<1>11. EventInv(a, u, c)'
  <2>1. /\ produced = u % Events /\ popped = c % Events /\ event_queue \in Seq(Int)
        /\ \A x \in a .. u - 1 : buffer[desc[x % RingSize]] = x % Events
        /\ a = c + Len(event_queue)
        /\ \A i \in 1 .. Len(event_queue) : event_queue[i] = (c + i - 1) % Events
    BY <1>0, <1>3 DEF EventInv
  <2>2. \A x \in a .. u - 1 : buffer'[desc'[x % RingSize]] = x % Events
    BY <2>1, <1>1, <1>6, <1>7
  <2> QED BY <2>1, <2>2, <1>1, <1>3 DEF EventInv
<1> QED BY <1>8, <1>9, <1>10, <1>11 DEF Counted

LEMMA PopFrontStep ==
    ASSUME NEW a \in Nat, NEW u \in Nat, NEW v \in Nat, NEW c \in Nat, Counted(a, u, v, c), PopFront
    PROVE  Counted(a, u, v, c)' \/ Counted(a, u, v, c + 1)'
<1>0. IndexInv(a, u, v) /\ PhaseInv(a, v) /\ RingInv(a, u, v) /\ EventInv(a, u, c)
  BY DEF Counted
<1>1. /\ kproc = "drain"
      /\ UNCHANGED <<used_idx, used_ring, dev_idx, produced, buffer, desc, avail_idx, avail_ring, event_index,
                     handling, phase, elem, event_ack_used_index, posted>>
      /\ \/ /\ event_queue # << >> /\ event_queue' = Tail(event_queue)
            /\ popped' = (popped + 1) % Events /\ kproc' = kproc
         \/ kproc' = "test" /\ UNCHANGED <<event_queue, popped>>
  BY DEF PopFront, device, driver, handler
<1>2. CASE kproc' = "test" /\ UNCHANGED <<event_queue, popped>>
  <2>1. handling' = "nobody" => phase' = "none"
    BY <1>0, <1>1 DEF PhaseInv
  <2>2. Counted(a, u, v, c)'
    BY <2>1, <1>1, <1>2, QuietStep
  <2> QED BY <2>2
<1>3. CASE /\ event_queue # << >> /\ event_queue' = Tail(event_queue)
           /\ popped' = (popped + 1) % Events /\ kproc' = kproc
  <2> DEFINE n == Len(event_queue)
  <2>1. /\ produced = u % Events /\ popped = c % Events /\ event_queue \in Seq(Int)
        /\ \A x \in a .. u - 1 : buffer[desc[x % RingSize]] = x % Events
        /\ phase = "read" => /\ a = c + n + 1 /\ elem = (a - 1) % RingSize
                             /\ desc[elem] \in Descs /\ buffer[desc[elem]] = (a - 1) % Events
        /\ phase # "read" => a = c + n
        /\ \A i \in 1 .. n : event_queue[i] = (c + i - 1) % Events
    BY <1>0 DEF EventInv
  <2>2. n \in Nat /\ n >= 1 /\ event_queue' \in Seq(Int) /\ Len(event_queue') = n - 1
        /\ \A i \in 1 .. n - 1 : event_queue'[i] = event_queue[i + 1]
    BY <2>1, <1>3
  <2>3. popped' = (c + 1) % Events
    BY <2>1, <1>3, Wraps
  <2> HIDE DEF n
  <2>4. \A i \in 1 .. n - 1 : event_queue'[i] = ((c + 1) + i - 1) % Events
    <3>1. \A i \in 1 .. n - 1 : i + 1 \in 1 .. n /\ c + (i + 1) - 1 = (c + 1) + i - 1
      BY <2>2
    <3> QED BY <3>1, <2>1, <2>2
  <2>5. (c + 1) + (n - 1) = c + n /\ c + 1 \in Nat
    BY <2>2
  <2>6. EventInv(a, u, c + 1)'
    <3>1. phase' = "read" => a = (c + 1) + Len(event_queue') + 1
      BY <2>1, <2>2, <1>1
    <3>2. phase' # "read" => a = (c + 1) + Len(event_queue')
      BY <2>1, <2>2, <1>1
    <3> QED BY <3>1, <3>2, <2>1, <2>2, <2>3, <2>4, <2>5, <1>1 DEF EventInv
  <2>7. IndexInv(a, u, v)'
    BY <1>0, <1>1 DEF IndexInv
  <2>8. PhaseInv(a, v)'
    BY <1>0, <1>1, <1>3 DEF PhaseInv
  <2>9. RingInv(a, u, v)'
    BY <1>0, <1>1 DEF RingInv
  <2> QED BY <2>6, <2>7, <2>8, <2>9 DEF Counted
<1> QED BY <1>1, <1>2, <1>3
-----------------------------------------------------------------------------
(***************************************************************************)
(* The invariant.                                                          *)
(***************************************************************************)

LEMMA InputInitInv == InputInit => InputInv
<1> SUFFICES ASSUME InputInit PROVE InputInv
  OBVIOUS
<1>1. /\ RingSize \in Nat \ {0} /\ IdxModulus \in Nat \ {0} /\ Events \in Nat \ {0} /\ Half \in Nat \ {0}
  BY RingSizes
<1>2. 0 % RingSize = 0 /\ 0 % IdxModulus = 0 /\ 0 % Events = 0
  BY <1>1
<1>3. IndexInv(0, 0, 0)
  BY <1>2 DEF InputInit, IndexInv
<1>4. PhaseInv(0, 0)
  BY <1>1 DEF InputInit, PhaseInv
<1>5. RingInv(0, 0, 0)
  BY DEF InputInit, RingInv
<1>6. EventInv(0, 0, 0)
  BY <1>2 DEF InputInit, EventInv
<1>7. Counted(0, 0, 0, 0)
  BY <1>3, <1>4, <1>5, <1>6 DEF Counted
<1>8. raced \in BOOLEAN /\ hart \in {"kproc", "other"}
  BY DEF InputInit
<1> QED BY <1>7, <1>8 DEF InputInv

\* The handler's steps that touch no ring.
LEMMA HandlerQuiet ==
    ASSUME NEW a \in Nat, NEW u \in Nat, NEW v \in Nat, NEW c \in Nat, Counted(a, u, v, c),
           hart \in {"kproc", "other"}, ~raced', Interrupt \/ Signal \/ Complete
    PROVE  Counted(a, u, v, c)'
<1>0. PhaseInv(a, v)
  BY DEF Counted
<1>1. UNCHANGED <<used_idx, used_ring, dev_idx, produced, buffer, desc, avail_idx, avail_ring, event_index,
                  event_queue, elem, event_ack_used_index, posted, popped>>
  BY DEF Interrupt, Signal, Complete, device, driver, process
<1>2. CASE Interrupt
  <2>1. /\ handling = "nobody" /\ handling' = hart /\ phase' = "loop" /\ kproc' = kproc /\ kproc # "init"
    BY <1>2 DEF Interrupt, process
  <2>2. phase = "none" /\ handling' # "nobody"
    BY <2>1, <1>0 DEF PhaseInv
  <2>3. /\ phase' = phase \/ (phase # "read" /\ phase' # "read")
        /\ kproc' = kproc \/ (kproc # "init" /\ kproc' # "init")
        /\ kproc = "init" => handling' = handling
        /\ handling' = "nobody" => phase' = "none"
    BY <2>1, <2>2
  <2> QED BY <2>3, <1>1, QuietStep
<1>3. CASE Signal
  <2>1. /\ phase = "loop" /\ phase' = "complete" /\ handling' = handling
        /\ kproc' = kproc \/ (kproc = "waiting" /\ kproc' = "test")
    BY <1>3 DEF Signal, Wakes
  <2>2. handling # "nobody"
    BY <2>1, <1>0 DEF PhaseInv
  <2>3. /\ phase' = phase \/ (phase # "read" /\ phase' # "read")
        /\ kproc' = kproc \/ (kproc # "init" /\ kproc' # "init")
        /\ kproc = "init" => handling' = handling
        /\ handling' = "nobody" => phase' = "none"
    BY <2>1, <2>2
  <2> QED BY <2>3, <1>1, QuietStep
<1>4. CASE Complete
  <2>1. phase = "complete" /\ phase' = "none" /\ handling' = "nobody" /\ kproc' = kproc
    BY <1>4 DEF Complete, process
  <2>2. kproc = "init" => handling = "nobody"
    BY <1>0 DEF PhaseInv
  <2>3. /\ phase' = phase \/ (phase # "read" /\ phase' # "read")
        /\ kproc' = kproc \/ (kproc # "init" /\ kproc' # "init")
        /\ kproc = "init" => handling' = handling
        /\ handling' = "nobody" => phase' = "none"
    BY <2>1, <2>2
  <2> QED BY <2>3, <1>1, QuietStep
<1> QED BY <1>2, <1>3, <1>4

\* The steps in which only the processes change hands, or nothing does.
LEMMA ProcessQuiet ==
    ASSUME NEW a \in Nat, NEW u \in Nat, NEW v \in Nat, NEW c \in Nat, Counted(a, u, v, c),
           TestQueue \/ EventWait \/ WaitForDisplay \/ DisplayDone \/ UNCHANGED vars
    PROVE  Counted(a, u, v, c)'
<1>0. handling = "nobody" => phase = "none"
  BY DEF Counted, PhaseInv
<1>1. /\ UNCHANGED <<used_idx, used_ring, dev_idx, produced, buffer, desc, avail_idx, avail_ring, event_index,
                     event_queue, elem, event_ack_used_index, posted, popped>>
      /\ UNCHANGED <<phase, handling>>
  BY DEF TestQueue, EventWait, WaitForDisplay, DisplayDone, vars, device, driver, handler, process
<1>2. kproc' = kproc \/ (kproc # "init" /\ kproc' # "init")
  BY DEF TestQueue, EventWait, WaitForDisplay, DisplayDone, vars, process
<1>3. /\ phase' = phase \/ (phase # "read" /\ phase' # "read")
      /\ kproc = "init" => handling' = handling
      /\ handling' = "nobody" => phase' = "none"
  BY <1>0, <1>1
<1> QED BY <1>1, <1>2, <1>3, QuietStep

LEMMA InputInvStep == InputInv /\ [InputNext]_vars => InputInv'
<1> SUFFICES ASSUME InputInv, [InputNext]_vars PROVE InputInv'
  OBVIOUS
<1> USE DEF device, driver, handler, process, vars
<1>1. raced \in BOOLEAN /\ hart \in {"kproc", "other"}
  BY DEF InputInv
<1>2. hart' \in {"kproc", "other"}
  BY <1>1 DEF InputNext, Handler, Kproc, Produce, Interrupt, GiveBack, ReadEvent, Signal, Complete,
              InitInputEvent, TestQueue, EventWait, PopFront, WaitForDisplay, DisplayDone, OtherRuns
<1>3. raced' \in BOOLEAN /\ (~raced' => ~raced)
  BY <1>1 DEF InputNext, Handler, Kproc, Produce, Interrupt, GiveBack, ReadEvent, Signal, Complete,
              InitInputEvent, TestQueue, EventWait, PopFront, WaitForDisplay, DisplayDone, OtherRuns
<1>4. ASSUME ~raced' PROVE \E a, u, v, c \in Nat : Counted(a, u, v, c)'
  <2>1. \E a, u, v, c \in Nat : Counted(a, u, v, c)
    BY <1>3, <1>4 DEF InputInv
  <2>2. PICK a \in Nat : \E u, v, c \in Nat : Counted(a, u, v, c)
    BY <2>1
  <2>3. PICK u \in Nat : \E v, c \in Nat : Counted(a, u, v, c)
    BY <2>2
  <2>4. PICK v \in Nat : \E c \in Nat : Counted(a, u, v, c)
    BY <2>3
  <2>5. PICK c \in Nat : Counted(a, u, v, c)
    BY <2>4
  <2> HIDE DEF device, driver, handler, process, vars
  <2>6. a + 1 \in Nat /\ u + 1 \in Nat /\ v + 1 \in Nat /\ c + 1 \in Nat
    OBVIOUS
  <2>7. CASE Produce
    <3>1. Counted(a, u + 1, v, c)'
      BY <2>5, <2>7, <1>4, ProduceStep
    <3> QED BY <3>1, <2>6
  <2>8. CASE GiveBack
    <3>1. Counted(a + 1, u, v + 1, c)'
      BY <2>5, <2>8, GiveBackStep
    <3> QED BY <3>1, <2>6
  <2>9. CASE ReadEvent
    <3>1. Counted(a, u, v, c)'
      BY <2>5, <2>9, ReadEventStep
    <3> QED BY <3>1
  <2>10. CASE InitInputEvent
    <3>1. Counted(a, u, v + 1, c)'
      BY <2>5, <2>10, InitInputEventStep
    <3> QED BY <3>1, <2>6
  <2>11. CASE PopFront
    <3>1. Counted(a, u, v, c)' \/ Counted(a, u, v, c + 1)'
      BY <2>5, <2>11, PopFrontStep
    <3> QED BY <3>1, <2>6
  <2>12. CASE Interrupt \/ Signal \/ Complete
    <3>1. Counted(a, u, v, c)'
      BY <2>5, <2>12, <1>1, <1>4, HandlerQuiet
    <3> QED BY <3>1
  <2>13. CASE TestQueue \/ EventWait \/ WaitForDisplay \/ DisplayDone \/ UNCHANGED vars
    <3>1. Counted(a, u, v, c)'
      BY <2>5, <2>13, ProcessQuiet
    <3> QED BY <3>1
  <2> QED BY <2>7, <2>8, <2>9, <2>10, <2>11, <2>12, <2>13 DEF InputNext, Handler, Kproc, OtherRuns
<1> QED BY <1>2, <1>3, <1>4 DEF InputInv

\* Unless one of the two races happened, the indices of the rings are remainders of
\* counters that only grow, the posted descriptors have buffers of their own, and
\* the completed events are in the buffers the driver will read: the loops of
\* pending() and init_input_event() keep this, for every ring size and every wrap.
THEOREM InputInvariant == InputSpec => []InputInv
<1>1. InputInit => InputInv
  BY InputInitInv
<1>2. InputInv /\ [InputNext]_vars => InputInv'
  BY InputInvStep
<1> QED BY <1>1, <1>2, PTL DEF InputSpec

LEMMA InputInvInOrder == InputInv => EventsInOrder
<1> SUFFICES ASSUME InputInv, ~raced, NEW i \in DOMAIN event_queue
             PROVE  event_queue[i] = (popped + i - 1) % Events
  BY DEF EventsInOrder
<1>1. \E a, u, v, c \in Nat : Counted(a, u, v, c)
  BY DEF InputInv
<1>2. \E c \in Nat : \E a, u \in Nat : EventInv(a, u, c)
  BY <1>1 DEF Counted
<1>3. PICK c \in Nat : \E a, u \in Nat : EventInv(a, u, c)
  BY <1>2
<1>4. /\ popped = c % Events /\ event_queue \in Seq(Int)
      /\ \A j \in 1 .. Len(event_queue) : event_queue[j] = (c + j - 1) % Events
  BY <1>3 DEF EventInv
<1>5. i \in 1 .. Len(event_queue) /\ i \in Int
  BY <1>4
<1>6. Events \in Nat \ {0}
  BY RingSizes
<1> DEFINE y == i - 1
<1>7. y \in Int /\ c \in Int
  BY <1>5
<1> HIDE DEF y
<1>8. ((c % Events) + y) % Events = (c + y) % Events
  BY <1>6, <1>7, ModAdd
<1>9. event_queue[i] = (c + i - 1) % Events
  BY <1>4, <1>5
<1>10. c % Events \in Int
  BY <1>6, <1>7, ModRange
<1>11. c + i - 1 = c + y /\ popped + i - 1 = (c % Events) + y
  BY <1>4, <1>5, <1>7, <1>10 DEF y
<1> QED BY <1>8, <1>9, <1>11

\* kproc gets the events the device completed once and in order: pending() reads
\* each from the buffer it was written to, although it gives the buffer back first
\* and buffers move from descriptor to descriptor.
THEOREM EventsArriveInOrder == InputSpec => []EventsInOrder
<1>1. InputInv => EventsInOrder
  BY InputInvInOrder
<1> QED BY <1>1, InputInvariant, PTL
=============================================================================
