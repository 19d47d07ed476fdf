----------------------------- MODULE UdpSender -----------------------------
(***************************************************************************)
(* waler::EfviUdpSender: kTxSlots frame buffers used round robin, a NIC    *)
(* that reads a buffer by DMA some time after it was posted, and the       *)
(* completion events that give transmit descriptors back.                  *)
(*                                                                         *)
(* send() is two steps, because the NIC runs beside it: it first writes    *)
(* the payload into the slot, then posts the slot's descriptor.  A frame's *)
(* data is a function from byte position to what was put there: the number *)
(* of the call whose payload it is, or Zero for padding.                   *)
(***************************************************************************)
EXTENDS Integers, Sequences

CONSTANTS
    TxSlots,      \* kTxSlots, 16 in the code
    MaxPayload,   \* kMaxPayload, 512
    MinData,      \* kMinFrameLen - kHeaderLen, 18: shorter data is padded
    Lengths,      \* the payload lengths callers ask for
    TxRing,       \* descriptors the NIC's ring holds (ef_vi's default: 512)
    EvBatch,      \* events one reapCompletions() takes, 16
    IdMod,        \* 2^32: values of next_dma_id_
    MaxCalls      \* bound of the model: send() calls that reach a slot

ASSUME SenderAssumption ==
    /\ TxSlots \in Nat \ {0}
    /\ MaxPayload \in Nat \ {0}
    /\ MinData \in 0 .. MaxPayload
    /\ Lengths \subseteq Nat
    /\ TxRing \in Nat \ {0}
    /\ EvBatch \in Nat \ {0}
    /\ IdMod \in Nat \ {0}
    /\ MaxCalls \in Nat

SlotIds == 0 .. TxSlots - 1
Zero == -1                     \* a padding byte; also every byte at the start
Data == [1 .. MaxPayload -> Nat \cup {Zero}]

VARIABLES
    slots,         \* pool_: the data region of each slot
    next_slot,     \* next_slot_
    next_dma_id,   \* next_dma_id_
    rc,            \* what the last send() returned
    sending,       \* the frame a send() in progress has written, or Idle
    posted,        \* descriptors the NIC has yet to read, oldest first
    completed,     \* completion events nobody has polled
    calls          \* history: calls that wrote a slot

tx_vars == <<slots, next_slot, next_dma_id, rc, sending, posted, completed, calls>>

(* A descriptor, and the history of the call that posted it.               *)
Frame == [slot : SlotIds, len : 0 .. MaxPayload, payload_len : 0 .. MaxPayload,
          call : Nat]
Idle == [slot |-> -1]

TxTypeOK ==
    /\ slots \in [SlotIds -> Data]
    /\ next_slot \in SlotIds
    /\ next_dma_id \in 0 .. IdMod - 1
    /\ rc \in {0, -1}
    /\ sending \in Frame \cup {Idle}
    /\ posted \in Seq(Frame)
    /\ completed \in 0 .. TxRing
    /\ Len(posted) + completed <= TxRing
    /\ calls \in Nat

TxInit ==
    /\ slots = [i \in SlotIds |-> [k \in 1 .. MaxPayload |-> Zero]]
    /\ next_slot = 0
    /\ next_dma_id = 0
    /\ rc = 0
    /\ sending = Idle
    /\ posted = <<>>
    /\ completed = 0
    /\ calls = 0

(* send(): a payload that does not fit a slot is refused and changes       *)
(* nothing.                                                                *)
SendTooLong ==
    /\ sending = Idle
    /\ \E len \in Lengths : len > MaxPayload
    /\ rc' = -1
    /\ UNCHANGED <<slots, next_slot, next_dma_id, sending, posted, completed, calls>>

DataLen(payload_len) == IF payload_len < MinData THEN MinData ELSE payload_len

(* Mutant: the padding keeps what the slot's last frame left there.        *)
WrittenUnpadded(old, payload_len, call) ==
    [k \in 1 .. MaxPayload |-> IF k <= payload_len THEN call ELSE old[k]]

(* The slot's data after memcpy of the payload and memset of the padding.  *)
Written(old, payload_len, call) ==
    [k \in 1 .. MaxPayload |->
        IF k <= payload_len THEN call
        ELSE IF k <= DataLen(payload_len) THEN Zero
        ELSE old[k]]

NextSlotUnwrapped == next_slot + 1     \* Mutant: past the last slot
NextSlot == (next_slot + 1) % TxSlots

(* send() up to the transmit: take the next slot, whatever its last frame  *)
(* is doing, and write into it.                                            *)
SendWrite ==
    /\ sending = Idle
    /\ calls < MaxCalls
    /\ \E len \in Lengths :
        /\ len <= MaxPayload
        /\ slots' = [slots EXCEPT ![next_slot] = Written(@, len, calls)]
        /\ sending' = [slot |-> next_slot, len |-> DataLen(len),
                       payload_len |-> len, call |-> calls]
    /\ next_slot' = NextSlot
    /\ calls' = calls + 1
    /\ UNCHANGED <<next_dma_id, rc, posted, completed>>

(* The rest of send(): ef_vi_transmit fails when the ring has no free      *)
(* descriptor.  The slot stays taken either way.                           *)
SendPost ==
    /\ sending # Idle
    /\ IF Len(posted) + completed < TxRing
       THEN posted' = Append(posted, sending) /\ rc' = 0
       ELSE UNCHANGED posted /\ rc' = -1
    /\ next_dma_id' = (next_dma_id + 1) % IdMod
    /\ sending' = Idle
    /\ UNCHANGED <<slots, next_slot, completed, calls>>

(* reapCompletions(): each TX-timestamp event frees one descriptor.        *)
ReapCompletions ==
    /\ sending = Idle
    /\ completed' = IF completed <= EvBatch THEN 0 ELSE completed - EvBatch
    /\ UNCHANGED <<slots, next_slot, next_dma_id, rc, sending, posted, calls>>

(* The NIC reads the oldest posted frame's buffer and puts it on the wire. *)
NicTransmit ==
    /\ posted # <<>>
    /\ posted' = Tail(posted)
    /\ completed' = completed + 1
    /\ UNCHANGED <<slots, next_slot, next_dma_id, rc, sending, calls>>

TxNext ==
    \/ SendTooLong
    \/ SendWrite
    \/ SendPost
    \/ ReapCompletions
    \/ NicTransmit

TxSpec == TxInit /\ [][TxNext]_tx_vars

-----------------------------------------------------------------------------
(* What the NIC would put on the wire for f now is what its call was       *)
(* given: every payload byte, then zeros, and no byte of another frame.    *)
Intact(f) ==
    \A k \in 1 .. f.len :
        slots[f.slot][k] = IF k <= f.payload_len THEN f.call ELSE Zero

InFlight == {posted[i] : i \in DOMAIN posted} \cup ({sending} \ {Idle})

(* The slots protect a frame for exactly the next kTxSlots - 1 calls of    *)
(* send(), failed ones included: until then it goes out as it was given,   *)
(* padded with zeros however long the slot's earlier frames were.          *)
RingProtects ==
    \A f \in InFlight : calls - f.call <= TxSlots => Intact(f)

(* EfviUdpSender.hpp:22-23: the ring of buffers is there "so consecutive   *)
(* sends don't overwrite a frame the NIC hasn't finished DMA'ing out yet". *)
NeverOverwritesInFlight == \A f \in InFlight : Intact(f)
=============================================================================
