---------------------------- MODULE VirtioInput -----------------------------
(***************************************************************************)
(* The driver of the mouse (src/arch/riscv64/virtio/virtio_input.rs), its  *)
(* device, the interrupt, and kproc() (src/kmain.rs), which takes the      *)
(* events from the driver's queue and waits when there are none.           *)
(*                                                                         *)
(* The driver posts half as many buffers as there are descriptors.  For    *)
(* each event it takes the next descriptor in turn, points it at the       *)
(* buffer numbered like the descriptor that was used, hands it to the      *)
(* device, and then reads the event.  So descriptors and buffers drift     *)
(* apart, and the device works on while the handler runs.                  *)
(*                                                                         *)
(* The handler runs with interrupts off on the stack of the process it     *)
(* interrupted.  kproc has the highest priority: it leaves the hart only   *)
(* when it waits for an event or for the display.                          *)
(***************************************************************************)
EXTENDS Integers, Sequences

CONSTANTS
    RingSize,    \* VIRTIO_RING_SIZE, and EVENT_BUFFER_SIZE
    IdxModulus,  \* 2^16: the ring indices are u16 and wrap
    Events,      \* the events are numbered 0 .. Events - 1 and start again
    MaxQueue     \* bound on the events the driver has not handed on

ASSUME RingAssumption  == RingSize \in Nat /\ RingSize >= 2 /\ RingSize % 2 = 0
ASSUME IdxAssumption   == IdxModulus \in Nat \ {0} /\ IdxModulus % RingSize = 0
ASSUME QueueAssumption == MaxQueue \in Nat /\ Events \in Nat /\ Events > MaxQueue + 1

VARIABLES
    desc,                  \* the buffer each descriptor points to
    buffer,                \* event_buffer
    avail_idx, avail_ring, \* the available ring
    used_idx, used_ring,   \* the used ring
    dev_idx,               \* the device: the next available index it will use
    produced,              \* the device: the number of the next event
    irq,                   \* the device: the interrupt line
    event_index,           \* VirtioInput.event_index
    event_ack_used_index,  \* VirtioInput.event_ack_used_index
    event_queue,           \* VirtioInput.event_queue
    handling,              \* whose stack the handler is on: "kproc", "other" or "nobody"
    phase,                 \* what is left of the handler
    elem,                  \* the used descriptor in the handler's loop
    kproc,                 \* position of kproc
    posted,                \* buffers posted by init_input_event()
    hart,                  \* who is on the hart: "kproc" or "other"
    popped,                \* history: events taken by kproc, modulo Events
    raced                  \* history: the handler ran inside init_input_event(), or
                           \* the device filled the buffer being read

device  == <<used_idx, used_ring, dev_idx, produced, buffer>>
driver  == <<desc, avail_idx, avail_ring, event_index>>
handler == <<handling, phase, elem, event_ack_used_index>>
process == <<kproc, posted, hart, popped>>
vars    == <<device, irq, driver, event_queue, handler, process, raced>>

Descs == 0 .. RingSize - 1

InputInit ==
    /\ desc = [d \in Descs |-> 0] /\ buffer = [b \in Descs |-> 0]
    /\ avail_idx = 0 /\ avail_ring = [i \in Descs |-> 0]
    /\ used_idx = 0 /\ used_ring = [i \in Descs |-> 0]
    /\ dev_idx = 0 /\ produced = 0 /\ irq = FALSE
    /\ event_index = 0 /\ event_ack_used_index = 0 /\ event_queue = << >>
    /\ handling = "nobody" /\ phase = "none" /\ elem = 0
    /\ kproc = "init" /\ posted = 0 /\ hart = "kproc" /\ popped = 0
    /\ raced = FALSE

WrappingAdd(i) == (i + 1) % IdxModulus

-----------------------------------------------------------------------------
\* repopulate_event() and send_desc(): the next descriptor gets buffer i and is
\* handed to the device.  The device is not notified.
RepopulateEvent(i) ==
    /\ desc' = [desc EXCEPT ![event_index] = i]
    /\ avail_ring' = [avail_ring EXCEPT ![avail_idx % RingSize] = event_index]
    /\ avail_idx' = WrappingAdd(avail_idx)
    /\ event_index' = (event_index + 1) % RingSize

-----------------------------------------------------------------------------
(***************************************************************************)
(* The device (external).  It uses the buffers in order.  An event for     *)
(* which it has no buffer is dropped.                                      *)
(***************************************************************************)

\* Events that are completed and not yet in the driver's queue.
Unacked ==
    ((used_idx - event_ack_used_index) % IdxModulus) + (IF phase = "read" THEN 1 ELSE 0)

\* The bound.  It leaves one more event for a kproc that waits.
Room ==
    \/ Len(event_queue) + Unacked < MaxQueue
    \/ kproc = "waiting" /\ phase = "none" /\ ~irq /\ Len(event_queue) <= MaxQueue

Produce ==
    LET d == avail_ring[dev_idx % RingSize]
    IN  /\ dev_idx # avail_idx
        /\ Room
        /\ buffer' = [buffer EXCEPT ![desc[d]] = produced]
        /\ used_ring' = [used_ring EXCEPT ![used_idx % RingSize] = d]
        /\ used_idx' = WrappingAdd(used_idx)
        /\ dev_idx' = WrappingAdd(dev_idx)
        /\ produced' = (produced + 1) % Events
        /\ irq' = TRUE
        /\ raced' = (raced \/ (phase = "read" /\ desc[d] = desc[elem]))
        /\ UNCHANGED <<driver, event_queue, handler, process>>

-----------------------------------------------------------------------------
(***************************************************************************)
(* The interrupt.                                                          *)
(***************************************************************************)

\* The PLIC delivers no second interrupt before the first is completed.
Interrupt ==
    /\ irq /\ handling = "nobody"
    /\ irq' = FALSE
    /\ handling' = hart
    /\ phase' = "loop"
    /\ raced' = (raced \/ kproc = "init")
    /\ UNCHANGED <<device, driver, event_queue, elem, event_ack_used_index, process>>

\* pending(), first half of an iteration: the buffer is given back.
GiveBack ==
    LET id == used_ring[event_ack_used_index % RingSize]
    IN  /\ phase = "loop"
        /\ event_ack_used_index # used_idx
        /\ RepopulateEvent(id)
        /\ event_ack_used_index' = WrappingAdd(event_ack_used_index)
        /\ elem' = id
        /\ phase' = "read"
        /\ UNCHANGED <<device, irq, event_queue, handling, process, raced>>

\* Mutation of EventAt: the event is read from the buffer of the same number.
EventAt_SameNumber(id) == buffer[id]

\* The event of a used descriptor.
EventAt(id) == buffer[desc[id]]

\* pending(), second half of an iteration.
ReadEvent ==
    /\ phase = "read"
    /\ event_queue' = Append(event_queue, EventAt(elem))
    /\ phase' = "loop"
    /\ UNCHANGED <<device, irq, driver, handling, elem, event_ack_used_index, process, raced>>

\* Mutation of Wakes: only the event that ends the emptiness of the queue does.
Wakes_FirstOnly == kproc = "waiting" /\ Len(event_queue) = 1

\* event_signal() finds somebody waiting.
Wakes == kproc = "waiting"

\* pending(), its end: kproc is readied and switched to.
Signal ==
    /\ phase = "loop"
    /\ event_ack_used_index = used_idx
    /\ kproc' = IF Wakes THEN "test" ELSE kproc
    /\ hart' = IF Wakes THEN "kproc" ELSE hart
    /\ phase' = "complete"
    /\ UNCHANGED <<device, irq, driver, event_queue, handling, elem, event_ack_used_index, posted, popped, raced>>

\* plic::complete(), once the interrupted process is on the hart again.
Complete ==
    /\ phase = "complete"
    /\ hart = handling
    /\ handling' = "nobody"
    /\ phase' = "none"
    /\ UNCHANGED <<device, irq, driver, event_queue, elem, event_ack_used_index, process, raced>>

-----------------------------------------------------------------------------
(***************************************************************************)
(* kproc()                                                                 *)
(***************************************************************************)

KprocRuns == hart = "kproc" /\ handling # "kproc"

\* An iteration of the loop of init_input_event().
InitInputEvent ==
    /\ KprocRuns
    /\ kproc = "init"
    /\ RepopulateEvent(posted)
    /\ posted' = posted + 1
    /\ kproc' = IF posted' = RingSize \div 2 THEN "test" ELSE "init"
    /\ UNCHANGED <<device, irq, event_queue, handler, hart, popped, raced>>

\* queue.is_empty(), with interrupts on.
TestQueue ==
    /\ KprocRuns
    /\ kproc = "test"
    /\ kproc' = IF event_queue = << >> THEN "wait" ELSE "drain"
    /\ UNCHANGED <<device, irq, driver, event_queue, handler, posted, hart, popped, raced>>

\* event_wait(MouseEvent)
EventWait ==
    /\ KprocRuns
    /\ kproc = "wait"
    /\ kproc' = "waiting"
    /\ hart' = "other"
    /\ UNCHANGED <<device, irq, driver, event_queue, handler, posted, popped, raced>>

\* queue.pop_front() and what is done with the event.
PopFront ==
    /\ KprocRuns
    /\ kproc = "drain"
    /\ \/ /\ event_queue # << >>
          /\ event_queue' = Tail(event_queue)
          /\ popped' = (popped + 1) % Events
          /\ UNCHANGED kproc
       \/ /\ event_queue = << >>
          /\ kproc' = "test"
          /\ UNCHANGED <<event_queue, popped>>
    /\ UNCHANGED <<device, irq, driver, handler, posted, hart, raced>>

\* Drawing what an event changes waits for the display.
WaitForDisplay ==
    /\ KprocRuns
    /\ kproc = "drain"
    /\ hart' = "other"
    /\ UNCHANGED <<device, irq, driver, event_queue, handler, kproc, posted, popped, raced>>

\* The display has answered: its handler switches to kproc.
DisplayDone ==
    /\ hart = "other"
    /\ kproc = "drain"
    /\ phase \in {"none", "complete"}
    /\ hart' = "kproc"
    /\ UNCHANGED <<device, irq, driver, event_queue, handler, kproc, posted, popped, raced>>

\* Another process, the null process at least, runs while kproc waits.
OtherRuns == hart = "other" /\ UNCHANGED vars

-----------------------------------------------------------------------------
Handler == Interrupt \/ GiveBack \/ ReadEvent \/ Signal \/ Complete
Kproc   == InitInputEvent \/ TestQueue \/ EventWait \/ PopFront

InputNext == Produce \/ Handler \/ Kproc \/ WaitForDisplay \/ DisplayDone \/ OtherRuns

InputSpec == InputInit /\ [][InputNext]_vars

\* The handler and kproc get on with it, the display answers, and the mouse is
\* used again and again.
FairInputSpec ==
    InputSpec /\ WF_vars(Produce) /\ WF_vars(Handler) /\ SF_vars(Kproc) /\ WF_vars(DisplayDone)

-----------------------------------------------------------------------------
(***************************************************************************)
(* Properties.                                                             *)
(***************************************************************************)

\* kproc gets every event the device completed, once and in order, although the
\* handler gives a buffer back before it reads the event, and reads it through a
\* descriptor that may have been written again since.  Two races are excepted: an
\* interrupt inside init_input_event(), which posts through the same event_index,
\* and a device that fills all its buffers between two instructions of the loop.
EventsInOrder ==
    ~raced => \A i \in DOMAIN event_queue : event_queue[i] = (popped + i - 1) % Events

\* An event in the queue is handled, as long as others follow: kproc may wait with
\* events in its queue, since the interrupt may come between its test of the queue
\* and event_wait(), but the next interrupt wakes it.
EventsHandled ==
    \A n \in 0 .. Events - 1 : (event_queue # << >> /\ popped = n) ~> (popped # n)

=============================================================================
