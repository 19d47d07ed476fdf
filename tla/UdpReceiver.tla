---------------------------- MODULE UdpReceiver ----------------------------
(***************************************************************************)
(* waler::EfviInterface: n_slots_ frame buffers posted to the NIC, the     *)
(* NIC's event queue, and poll(), which hands each received frame to a     *)
(* callback and posts its buffer again.  The NIC fills posted buffers at   *)
(* any time, also while poll() and its callback run.                       *)
(*                                                                         *)
(* A frame is the number of its arrival; a buffer holds the last frame the *)
(* NIC put there (0 before the first).  Events carry the frame's number as *)
(* history.  Timestamps and lengths are left out.                          *)
(***************************************************************************)
EXTENDS Integers, SequencesExt

CONSTANTS
    RxqCapacity,   \* the constructor's rxq_capacity, 512 by default
    RingCap,       \* ef_vi_receive_capacity: descriptors the RX ring takes
    MaxEvents,     \* kMaxEvents, 32
    MaxFrames      \* bound of the model: frames that reach the port

ASSUME ReceiverAssumption ==
    /\ {RxqCapacity, RingCap, MaxEvents} \subseteq Nat \ {0}
    /\ MaxFrames \in Nat

(* n_slots_, after the constructor has clipped it to the ring.             *)
NSlots == IF RxqCapacity > RingCap THEN RingCap ELSE RxqCapacity
Slots == 0 .. NSlots - 1

VARIABLES
    pool,         \* pool_: the frame each buffer holds
    ring,         \* posted buffers the NIC has yet to fill, oldest first
    evq,          \* events the NIC has raised and nobody has polled
    evs,          \* evs[i ..] of the poll() in progress
    frame,        \* the EfviFrame the callback is looking at, or NoFrame
    n_discards,   \* n_discards_
    arrived,      \* history: frames that have reached the port
    accepted,     \* history: frames received into a buffer, in order
    delivered     \* history: frames handed to the callback, in order

vars == <<pool, ring, evq, evs, frame, n_discards, arrived, accepted, delivered>>

Event == [type : {"RX", "RX_DISCARD"}, id : Slots, number : Nat]
EfviFrame == [id : Slots, number : Nat]
NoFrame == [id |-> -1]

TypeOK ==
    /\ pool \in [Slots -> Nat]
    /\ ring \in Seq(Slots) /\ Len(ring) <= RingCap
    /\ evq \in Seq(Event)
    /\ evs \in Seq(Event) /\ Len(evs) <= MaxEvents
    /\ frame \in EfviFrame \cup {NoFrame}
    /\ n_discards \in Nat
    /\ arrived \in 0 .. MaxFrames
    /\ accepted \in Seq(Nat) /\ delivered \in Seq(Nat)

(* The constructor posts every buffer, in order.                           *)
Init ==
    /\ pool = [s \in Slots |-> 0]
    /\ ring = [i \in 1 .. NSlots |-> i - 1]
    /\ evq = <<>> /\ evs = <<>>
    /\ frame = NoFrame
    /\ n_discards = 0
    /\ arrived = 0
    /\ accepted = <<>> /\ delivered = <<>>

(* The NIC fills the oldest posted buffer, with a good frame or with one   *)
(* it will have discarded; either way the buffer's id is in the event.     *)
NicFill(type) ==
    /\ arrived < MaxFrames
    /\ ring # <<>>
    /\ LET id == Head(ring) n == arrived + 1 IN
        /\ pool' = [pool EXCEPT ![id] = n]
        /\ evq' = Append(evq, [type |-> type, id |-> id, number |-> n])
        /\ accepted' = IF type = "RX" THEN Append(accepted, n) ELSE accepted
    /\ ring' = Tail(ring)
    /\ arrived' = arrived + 1
    /\ UNCHANGED <<evs, frame, n_discards, delivered>>

(* No buffer is posted: the frame is lost without an event.                *)
NicDrop ==
    /\ arrived < MaxFrames
    /\ ring = <<>>
    /\ arrived' = arrived + 1
    /\ UNCHANGED <<pool, ring, evq, evs, frame, n_discards, accepted,
                   delivered>>

InPoll == evs # <<>> \/ frame # NoFrame

Unbatched == Len(evq)                  \* Mutant: the whole queue at once
BatchSize == IF Len(evq) < MaxEvents THEN Len(evq) ELSE MaxEvents

(* Mutant: poll() waits for a full batch.                                  *)
PollFullBatch ==
    /\ ~InPoll
    /\ Len(evq) >= MaxEvents
    /\ evs' = SubSeq(evq, 1, MaxEvents)
    /\ evq' = SubSeq(evq, MaxEvents + 1, Len(evq))
    /\ UNCHANGED <<pool, ring, frame, n_discards, arrived, accepted, delivered>>

(* poll() begins: ef_eventq_poll takes at most kMaxEvents events.          *)
PollEvents ==
    /\ ~InPoll
    /\ evs' = SubSeq(evq, 1, BatchSize)
    /\ evq' = SubSeq(evq, BatchSize + 1, Len(evq))
    /\ UNCHANGED <<pool, ring, frame, n_discards, arrived, accepted, delivered>>

(* Mutant: a discard ends the loop.                                        *)
PollDiscardBreaks ==
    /\ frame = NoFrame /\ evs # <<>> /\ Head(evs).type = "RX_DISCARD"
    /\ n_discards' = n_discards + 1
    /\ evs' = <<>>
    /\ UNCHANGED <<pool, ring, evq, frame, arrived, accepted, delivered>>

(* A discard is counted, and that is all that becomes of its buffer.       *)
PollDiscard ==
    /\ frame = NoFrame /\ evs # <<>> /\ Head(evs).type = "RX_DISCARD"
    /\ n_discards' = n_discards + 1
    /\ evs' = Tail(evs)
    /\ UNCHANGED <<pool, ring, evq, frame, arrived, accepted, delivered>>

(* Mutant: the buffer is posted again before the callback.                 *)
PollDeliverPosts ==
    /\ frame = NoFrame /\ evs # <<>> /\ Head(evs).type = "RX"
    /\ frame' = [id |-> Head(evs).id, number |-> pool[Head(evs).id]]
    /\ delivered' = Append(delivered, frame'.number)
    /\ evs' = Tail(evs)
    /\ ring' = Append(ring, Head(evs).id)
    /\ UNCHANGED <<pool, evq, n_discards, arrived, accepted>>

(* fn(p) is called on the buffer where the NIC put it.                     *)
PollDeliver ==
    /\ frame = NoFrame /\ evs # <<>> /\ Head(evs).type = "RX"
    /\ frame' = [id |-> Head(evs).id, number |-> pool[Head(evs).id]]
    /\ delivered' = Append(delivered, frame'.number)
    /\ evs' = Tail(evs)
    /\ UNCHANGED <<pool, ring, evq, n_discards, arrived, accepted>>

(* Mutant: the event's place in the batch is taken for the buffer's id.    *)
RepostIndex ==
    /\ frame # NoFrame
    /\ ring' = Append(ring, Len(evs))
    /\ frame' = NoFrame
    /\ UNCHANGED <<pool, evq, evs, n_discards, arrived, accepted, delivered>>

(* fn(p) has returned.  repost() ignores a full ring.                      *)
Repost ==
    /\ frame # NoFrame
    /\ ring' = IF Len(ring) < RingCap THEN Append(ring, frame.id) ELSE ring
    /\ frame' = NoFrame
    /\ UNCHANGED <<pool, evq, evs, n_discards, arrived, accepted, delivered>>

Poll == PollEvents \/ PollDiscard \/ PollDeliver \/ Repost
Nic == NicFill("RX") \/ NicFill("RX_DISCARD") \/ NicDrop
Next == Poll \/ Nic

(* The thread that owns the interface calls poll() in a busy loop, and its *)
(* callback returns; the NIC promises nothing.                             *)
Spec == Init /\ [][Next]_vars /\ WF_vars(Poll)

-----------------------------------------------------------------------------
Pending == evs \o evq

(* Every place a buffer can be, with repetitions.                          *)
Places ==
    ring \o [i \in DOMAIN Pending |-> Pending[i].id]
         \o (IF frame = NoFrame THEN <<>> ELSE <<frame.id>>)

(* A buffer is posted, awaiting poll() or in the callback, never two of    *)
(* these at once, and the only buffers that are nowhere are one for each   *)
(* discard counted: poll() (60-64) never posts those again, so the ring    *)
(* shrinks by exactly discard_count(), and by nothing else; in particular  *)
(* the result repost() throws away was never a failure.                    *)
BuffersAccounted ==
    /\ IsInjective(Places)
    /\ Len(Places) = NSlots - n_discards

(* The NIC never writes a buffer whose frame poll() has still to hand out, *)
(* nor the one the callback is reading: the repost comes after fn(p).      *)
NotOverwrittenBeforeRead ==
    /\ \A i \in DOMAIN Pending : pool[Pending[i].id] = Pending[i].number
    /\ frame # NoFrame => pool[frame.id] = frame.number

(* The callback has been given a prefix of what the NIC received, in its   *)
(* order, and the rest, no frame missing or given twice, still waits, also *)
(* in order: discards among them or not, however the batches fall.         *)
Waiting ==
    {Pending[i].number : i \in {j \in DOMAIN Pending : Pending[j].type = "RX"}}

DeliveredInOrder ==
    /\ IsPrefix(delivered, accepted)
    /\ Waiting = {accepted[i] : i \in Len(delivered) + 1 .. Len(accepted)}
    /\ \A i, j \in DOMAIN Pending : i < j => Pending[i].number < Pending[j].number
    /\ \A i, j \in DOMAIN accepted : i < j => accepted[i] < accepted[j]

(* A busy-polling thread hands out every frame the NIC received.           *)
EveryFrameDelivered ==
    \A n \in 1 .. MaxFrames :
        (n \in ToSet(accepted)) ~> (n \in ToSet(delivered))
=============================================================================
