----------------------------- MODULE Udp_proofs -----------------------------
(***************************************************************************)
(* The two ends of ef_vi.  No RX buffer is lost but by a discard, and none *)
(* is overwritten before its frame has been handed out, for every ring and *)
(* batch size and any number of frames; and what the sender's slots        *)
(* guarantee, for every number of slots, ring size and payload length.     *)
(***************************************************************************)
EXTENDS UdpReceiver, UdpSender, SequenceTheorems, TLAPS

-----------------------------------------------------------------------------
(* The receiver (EfviInterface).                                           *)

(* A buffer is in at most one of four places, and once.                    *)
Distinct ==
    /\ \A i, j \in DOMAIN ring : ring[i] = ring[j] => i = j
    /\ \A i, j \in DOMAIN evq : evq[i].id = evq[j].id => i = j
    /\ \A i, j \in DOMAIN evs : evs[i].id = evs[j].id => i = j
    /\ \A i \in DOMAIN ring, j \in DOMAIN evq : ring[i] # evq[j].id
    /\ \A i \in DOMAIN ring, j \in DOMAIN evs : ring[i] # evs[j].id
    /\ \A i \in DOMAIN evs, j \in DOMAIN evq : evs[i].id # evq[j].id
    /\ \A i \in DOMAIN ring : ring[i] # frame.id
    /\ \A i \in DOMAIN evq : evq[i].id # frame.id
    /\ \A i \in DOMAIN evs : evs[i].id # frame.id

InCallback == IF frame = NoFrame THEN 0 ELSE 1

Counted == Len(ring) + Len(evq) + Len(evs) + InCallback = NSlots - n_discards

BuffersIntact ==
    /\ \A i \in DOMAIN evq : pool[evq[i].id] = evq[i].number
    /\ \A i \in DOMAIN evs : pool[evs[i].id] = evs[i].number
    /\ frame # NoFrame => pool[frame.id] = frame.number

IInv == TypeOK /\ Distinct /\ Counted /\ BuffersIntact

LEMMA SlotCount == NSlots \in Nat \ {0} /\ NSlots <= RingCap
BY ReceiverAssumption DEF NSlots

LEMMA NoFrameIsNone == NoFrame \notin EfviFrame /\ \A s \in Slots : s # NoFrame.id
<1>1. \A s \in Slots : s # NoFrame.id
  BY SlotCount DEF NoFrame, Slots
<1> QED BY <1>1 DEF EfviFrame

LEMMA EventFields == ASSUME NEW x \in Event PROVE x.id \in Slots /\ x.number \in Nat
BY DEF Event

LEMMA FrameFields == ASSUME NEW x \in EfviFrame PROVE x.id \in Slots /\ x.number \in Nat
BY DEF EfviFrame

(* Every event's buffer is one of the pool's.                              *)
LEMMA EventSlots ==
    ASSUME TypeOK
    PROVE  /\ \A i \in DOMAIN evq : evq[i] \in Event /\ evq[i].id \in Slots
           /\ \A i \in DOMAIN evs : evs[i] \in Event /\ evs[i].id \in Slots
<1>1. /\ \A i \in DOMAIN evq : evq[i] \in Event
      /\ \A i \in DOMAIN evs : evs[i] \in Event
  BY DEF TypeOK
<1> QED BY <1>1, EventFields

LEMMA InitIInv == Init => IInv
<1> SUFFICES ASSUME Init PROVE IInv
  OBVIOUS
<1>1. ring \in Seq(Slots) /\ Len(ring) = NSlots /\ \A i \in 1 .. NSlots : ring[i] = i - 1
  BY SlotCount DEF Init, Slots
<1>2. TypeOK
  BY <1>1, SlotCount, ReceiverAssumption DEF Init, TypeOK, NoFrame
<1>3. Distinct
  BY <1>1, SlotCount DEF Init, Distinct, NoFrame
<1>4. Counted /\ BuffersIntact
  BY <1>1, SlotCount DEF Init, Counted, BuffersIntact, InCallback
<1> QED BY <1>2, <1>3, <1>4 DEF IInv

LEMMA NicFillStep ==
    ASSUME IInv, NEW type \in {"RX", "RX_DISCARD"}, NicFill(type)
    PROVE  IInv'
<1> DEFINE e == [type |-> type, id |-> Head(ring), number |-> arrived + 1]
<1>1. /\ ring \in Seq(Slots) /\ ring # <<>> /\ Len(ring) <= RingCap
      /\ evq \in Seq(Event) /\ arrived \in 0 .. MaxFrames /\ arrived < MaxFrames
      /\ accepted \in Seq(Nat) /\ pool \in [Slots -> Nat]
  BY DEF IInv, TypeOK, NicFill
<1>2. /\ ring' = Tail(ring) /\ evq' = Append(evq, e)
      /\ pool' = [pool EXCEPT ![Head(ring)] = arrived + 1]
      /\ UNCHANGED <<evs, frame, n_discards, delivered>>
      /\ arrived' = arrived + 1
      /\ accepted' = IF type = "RX" THEN Append(accepted, arrived + 1) ELSE accepted
  BY DEF NicFill
<1>3. e \in Event /\ Head(ring) = ring[1] /\ Head(ring) \in Slots /\ 1 \in DOMAIN ring
  BY <1>1, ReceiverAssumption DEF Event
<1>4. /\ Len(ring') = Len(ring) - 1 /\ ring' \in Seq(Slots)
      /\ \A i \in DOMAIN ring' : i + 1 \in DOMAIN ring /\ ring'[i] = ring[i + 1]
  BY <1>1, <1>2
<1>5. /\ Len(evq') = Len(evq) + 1 /\ evq' \in Seq(Event)
      /\ \A i \in DOMAIN evq' : \/ i \in DOMAIN evq /\ evq'[i] = evq[i]
                                \/ i = Len(evq) + 1 /\ evq'[i] = e
  BY <1>1, <1>2, <1>3
<1> HIDE DEF e
<1>6. e.id = ring[1] /\ e.number = arrived + 1
  BY <1>3 DEF e
<1>7. TypeOK'
  BY <1>1, <1>2, <1>3, <1>4, <1>5, ReceiverAssumption DEF IInv, TypeOK
<1>8. Counted'
  <2>1. InCallback' = InCallback /\ InCallback \in {0, 1}
    BY <1>2 DEF InCallback
  <2>2. /\ Len(ring) \in Nat /\ Len(evq) \in Nat /\ Len(evs) \in Nat
        /\ n_discards \in Nat
    BY <1>1 DEF IInv, TypeOK
  <2>3. Len(ring) + Len(evq) + Len(evs) + InCallback = NSlots - n_discards
    BY DEF IInv, Counted
  <2>4. /\ Len(ring') = Len(ring) - 1 /\ Len(evq') = Len(evq) + 1
        /\ Len(evs') = Len(evs) /\ n_discards' = n_discards
    BY <1>2, <1>4, <1>5
  <2>5. NSlots' = NSlots
    BY DEF NSlots
  <2>6. Len(ring') + Len(evq') + Len(evs') + InCallback' = NSlots - n_discards'
    BY <2>1, <2>2, <2>3, <2>4, SlotCount
  <2> QED BY <2>5, <2>6 DEF Counted
<1>9. Distinct'
  <2>1. Distinct BY DEF IInv
  <2>2. \A i, j \in DOMAIN ring' : ring'[i] = ring'[j] => i = j
    BY <1>1, <1>4, <2>1 DEF Distinct
  <2>3. \A i \in DOMAIN ring' : ring'[i] # ring[1]
    <3> SUFFICES ASSUME NEW i \in DOMAIN ring' PROVE ring'[i] # ring[1]
      OBVIOUS
    <3>1. i \in 1 .. Len(ring')
      BY <1>4
    <3>2. i + 1 # 1
      BY <1>1, <1>4, <3>1
    <3> QED BY <1>3, <1>4, <2>1, <3>2 DEF Distinct
  <2>4. \A i, j \in DOMAIN evq' : evq'[i].id = evq'[j].id => i = j
    BY <1>3, <1>5, <1>6, <2>1 DEF Distinct
  <2>5. \A i \in DOMAIN ring', j \in DOMAIN evq' : ring'[i] # evq'[j].id
    BY <1>4, <1>5, <1>6, <2>1, <2>3 DEF Distinct
  <2>6. /\ \A i \in DOMAIN ring', j \in DOMAIN evs : ring'[i] # evs[j].id
        /\ \A i \in DOMAIN ring' : ring'[i] # frame.id
    BY <1>4, <2>1 DEF Distinct
  <2>7. /\ \A i \in DOMAIN evs, j \in DOMAIN evq' : evs[i].id # evq'[j].id
        /\ \A i \in DOMAIN evq' : evq'[i].id # frame.id
    BY <1>3, <1>5, <1>6, <2>1 DEF Distinct
  <2> QED
    BY <1>2, <2>1, <2>2, <2>4, <2>5, <2>6, <2>7 DEF Distinct
<1>10. BuffersIntact'
  <2>1. Distinct /\ BuffersIntact BY DEF IInv
  <2>2. \A s \in Slots : pool'[s] = IF s = ring[1] THEN arrived + 1 ELSE pool[s]
    BY <1>1, <1>2, <1>3
  <2>3. \A i \in DOMAIN evq' : pool'[evq'[i].id] = evq'[i].number
    <3> SUFFICES ASSUME NEW i \in DOMAIN evq' PROVE pool'[evq'[i].id] = evq'[i].number
      OBVIOUS
    <3>1. CASE i \in DOMAIN evq /\ evq'[i] = evq[i]
      <4>1. evq[i].id \in Slots BY <3>1, EventSlots DEF IInv
      <4>2. evq[i].id # ring[1] BY <1>3, <2>1, <3>1 DEF Distinct
      <4> QED BY <2>1, <2>2, <3>1, <4>1, <4>2 DEF BuffersIntact
    <3>2. CASE evq'[i] = e
      BY <1>3, <1>6, <2>2, <3>2
    <3> QED BY <1>5, <3>1, <3>2
  <2>4. \A i \in DOMAIN evs : pool'[evs[i].id] = evs[i].number
    <3> SUFFICES ASSUME NEW i \in DOMAIN evs PROVE pool'[evs[i].id] = evs[i].number
      OBVIOUS
    <3>1. evs[i].id \in Slots BY EventSlots DEF IInv
    <3>2. evs[i].id # ring[1] BY <1>3, <2>1 DEF Distinct
    <3> QED BY <2>1, <2>2, <3>1, <3>2 DEF BuffersIntact
  <2>5. frame # NoFrame => pool'[frame.id] = frame.number
    <3> SUFFICES ASSUME frame # NoFrame PROVE pool'[frame.id] = frame.number
      OBVIOUS
    <3>1. frame.id \in Slots BY DEF IInv, TypeOK, EfviFrame
    <3>2. frame.id # ring[1] BY <1>3, <2>1 DEF Distinct
    <3> QED BY <2>1, <2>2, <3>1, <3>2 DEF BuffersIntact
  <2> QED BY <1>2, <2>3, <2>4, <2>5 DEF BuffersIntact
<1> QED BY <1>7, <1>8, <1>9, <1>10 DEF IInv

(* The batch poll() takes: the oldest events move from evq to evs.         *)
LEMMA PollEventsStep == IInv /\ PollEvents => IInv'
<1> SUFFICES ASSUME IInv, PollEvents PROVE IInv'
  OBVIOUS
<1> DEFINE k == BatchSize
<1>1. /\ evs = <<>> /\ frame = NoFrame /\ evq \in Seq(Event)
      /\ evs' = SubSeq(evq, 1, k) /\ evq' = SubSeq(evq, k + 1, Len(evq))
      /\ UNCHANGED <<pool, ring, frame, n_discards, arrived, accepted, delivered>>
  BY DEF IInv, TypeOK, PollEvents, InPoll
<1>2. k \in 0 .. Len(evq) /\ k <= MaxEvents
  BY <1>1, ReceiverAssumption DEF BatchSize
<1> HIDE DEF k
<1>3. /\ evs' \in Seq(Event) /\ Len(evs') = k
      /\ \A i \in DOMAIN evs' : i \in DOMAIN evq /\ i <= k /\ evs'[i] = evq[i]
  BY <1>1, <1>2
<1>4. /\ evq' \in Seq(Event) /\ Len(evq') = Len(evq) - k
      /\ \A i \in DOMAIN evq' : i + k \in DOMAIN evq /\ i + k > k /\ evq'[i] = evq[i + k]
  BY <1>1, <1>2
<1>5. TypeOK'
  BY <1>1, <1>2, <1>3, <1>4 DEF IInv, TypeOK
<1>6. Counted'
  <2>1. /\ InCallback' = InCallback /\ InCallback \in {0, 1} /\ NSlots' = NSlots
        /\ Len(ring') = Len(ring) /\ n_discards' = n_discards
    BY <1>1 DEF InCallback, NSlots
  <2>2. /\ Len(ring) \in Nat /\ Len(evq) \in Nat /\ n_discards \in Nat
        /\ Len(evs) = 0
    BY <1>1 DEF IInv, TypeOK
  <2>3. Len(ring) + Len(evq) + Len(evs) + InCallback = NSlots - n_discards
    BY DEF IInv, Counted
  <2> QED BY <1>2, <1>3, <1>4, <2>1, <2>2, <2>3, SlotCount DEF Counted
<1>7. Distinct'
  <2>1. Distinct BY DEF IInv
  <2>2. \A i, j \in DOMAIN evq' : evq'[i].id = evq'[j].id => i = j
    <3> SUFFICES ASSUME NEW i \in DOMAIN evq', NEW j \in DOMAIN evq',
                        evq'[i].id = evq'[j].id
                 PROVE  i = j
      OBVIOUS
    <3>1. i + k = j + k
      BY <1>4, <2>1 DEF Distinct
    <3>2. i \in Nat /\ j \in Nat
      BY <1>4
    <3> QED BY <1>2, <3>1, <3>2
  <2>3. \A i, j \in DOMAIN evs' : evs'[i].id = evs'[j].id => i = j
    BY <1>3, <2>1 DEF Distinct
  <2>4. \A i \in DOMAIN evs', j \in DOMAIN evq' : evs'[i].id # evq'[j].id
    <3> SUFFICES ASSUME NEW i \in DOMAIN evs', NEW j \in DOMAIN evq'
                 PROVE  evs'[i].id # evq'[j].id
      OBVIOUS
    <3>1. i # j + k
      BY <1>2, <1>3, <1>4
    <3> QED BY <1>3, <1>4, <2>1, <3>1 DEF Distinct
  <2>5. /\ \A i \in DOMAIN ring, j \in DOMAIN evq' : ring[i] # evq'[j].id
        /\ \A i \in DOMAIN ring, j \in DOMAIN evs' : ring[i] # evs'[j].id
        /\ \A i \in DOMAIN evq' : evq'[i].id # frame.id
        /\ \A i \in DOMAIN evs' : evs'[i].id # frame.id
    BY <1>3, <1>4, <2>1 DEF Distinct
  <2> QED BY <1>1, <2>1, <2>2, <2>3, <2>4, <2>5 DEF Distinct
<1>8. BuffersIntact'
  BY <1>1, <1>3, <1>4 DEF IInv, BuffersIntact
<1> QED BY <1>5, <1>6, <1>7, <1>8 DEF IInv

(* What is left of the batch once its first event has been seen to.        *)
LEMMA TailOfBatch ==
    ASSUME TypeOK, evs # <<>>
    PROVE  /\ Tail(evs) \in Seq(Event) /\ Len(Tail(evs)) = Len(evs) - 1
           /\ Head(evs) = evs[1] /\ 1 \in DOMAIN evs
           /\ \A i \in DOMAIN Tail(evs) : /\ i + 1 \in DOMAIN evs /\ i + 1 # 1
                                          /\ Tail(evs)[i] = evs[i + 1]
<1>1. evs \in Seq(Event)
  BY DEF TypeOK
<1>2. /\ Tail(evs) \in Seq(Event) /\ Len(Tail(evs)) = Len(evs) - 1
      /\ Head(evs) = evs[1] /\ 1 \in DOMAIN evs
      /\ \A i \in DOMAIN Tail(evs) : i + 1 \in DOMAIN evs /\ Tail(evs)[i] = evs[i + 1]
  BY <1>1
<1>3. ASSUME NEW i \in DOMAIN Tail(evs) PROVE i + 1 # 1
  <2>1. i \in 1 .. Len(Tail(evs)) BY <1>2
  <2> QED BY <1>1, <1>2, <2>1
<1> QED BY <1>2, <1>3

LEMMA PollDiscardStep == IInv /\ PollDiscard => IInv'
<1> SUFFICES ASSUME IInv, PollDiscard PROVE IInv'
  OBVIOUS
<1>1. /\ frame = NoFrame /\ evs # <<>> /\ evs' = Tail(evs)
      /\ n_discards' = n_discards + 1
      /\ UNCHANGED <<pool, ring, evq, frame, arrived, accepted, delivered>>
  BY DEF PollDiscard
<1>2. /\ evs' \in Seq(Event) /\ Len(evs') = Len(evs) - 1
      /\ \A i \in DOMAIN evs' : i + 1 \in DOMAIN evs /\ evs'[i] = evs[i + 1]
  BY <1>1, TailOfBatch DEF IInv
<1>3. Len(evs) \in Nat /\ Len(ring) \in Nat /\ Len(evq) \in Nat /\ n_discards \in Nat
  BY DEF IInv, TypeOK
<1>4. TypeOK'
  BY <1>1, <1>2, <1>3, ReceiverAssumption DEF IInv, TypeOK
<1>5. Counted'
  <2>1. InCallback' = InCallback /\ InCallback \in {0, 1} /\ NSlots' = NSlots
    BY <1>1 DEF InCallback, NSlots
  <2>2. Len(ring') = Len(ring) /\ Len(evq') = Len(evq)
    BY <1>1
  <2>3. Len(ring) + Len(evq) + Len(evs) + InCallback = NSlots - n_discards
    BY DEF IInv, Counted
  <2> QED BY <1>1, <1>2, <1>3, <2>1, <2>2, <2>3, SlotCount DEF Counted
<1>6. Distinct'
  <2>1. Distinct BY DEF IInv
  <2>2. \A i, j \in DOMAIN evs' : evs'[i].id = evs'[j].id => i = j
    <3> SUFFICES ASSUME NEW i \in DOMAIN evs', NEW j \in DOMAIN evs',
                        evs'[i].id = evs'[j].id
                 PROVE  i = j
      OBVIOUS
    <3>1. i + 1 = j + 1 BY <1>2, <2>1 DEF Distinct
    <3>2. i \in Nat /\ j \in Nat BY <1>2
    <3> QED BY <3>1, <3>2
  <2> QED BY <1>1, <1>2, <2>1, <2>2 DEF Distinct
<1>7. BuffersIntact'
  BY <1>1, <1>2 DEF IInv, BuffersIntact
<1> QED BY <1>4, <1>5, <1>6, <1>7 DEF IInv

LEMMA PollDeliverStep == IInv /\ PollDeliver => IInv'
<1> SUFFICES ASSUME IInv, PollDeliver PROVE IInv'
  OBVIOUS
<1> DEFINE f == [id |-> Head(evs).id, number |-> pool[Head(evs).id]]
<1>1. /\ frame = NoFrame /\ evs # <<>> /\ evs' = Tail(evs) /\ frame' = f
      /\ delivered' = Append(delivered, frame'.number)
      /\ UNCHANGED <<pool, ring, evq, n_discards, arrived, accepted>>
  BY DEF PollDeliver
<1>2. /\ evs' \in Seq(Event) /\ Len(evs') = Len(evs) - 1
      /\ Head(evs) = evs[1] /\ 1 \in DOMAIN evs
      /\ \A i \in DOMAIN evs' : /\ i + 1 \in DOMAIN evs /\ i + 1 # 1
                                /\ evs'[i] = evs[i + 1]
  BY <1>1, TailOfBatch DEF IInv
<1>3. evs[1].id \in Slots
  BY <1>2, EventSlots DEF IInv
<1>4. f \in EfviFrame /\ f.id = evs[1].id /\ f.number = pool[evs[1].id]
  BY <1>2, <1>3 DEF IInv, TypeOK, EfviFrame
<1> HIDE DEF f
<1>5. frame' # NoFrame
  BY <1>1, <1>4, NoFrameIsNone
<1>6. TypeOK'
  <2>1. delivered' \in Seq(Nat)
    BY <1>1, <1>4, FrameFields DEF IInv, TypeOK
  <2> QED BY <1>1, <1>2, <1>4, <2>1, ReceiverAssumption DEF IInv, TypeOK
<1>7. Counted'
  <2>1. InCallback = 0 /\ InCallback' = 1 /\ NSlots' = NSlots
    BY <1>1, <1>5 DEF InCallback, NSlots
  <2>2. /\ Len(ring') = Len(ring) /\ Len(evq') = Len(evq) /\ n_discards' = n_discards
        /\ Len(evs) \in Nat /\ Len(ring) \in Nat /\ Len(evq) \in Nat /\ n_discards \in Nat
    BY <1>1 DEF IInv, TypeOK
  <2>3. Len(ring) + Len(evq) + Len(evs) + InCallback = NSlots - n_discards
    BY DEF IInv, Counted
  <2> QED BY <1>2, <2>1, <2>2, <2>3, SlotCount DEF Counted
<1>8. Distinct'
  <2>1. Distinct BY DEF IInv
  <2>2. \A i, j \in DOMAIN evs' : evs'[i].id = evs'[j].id => i = j
    <3> SUFFICES ASSUME NEW i \in DOMAIN evs', NEW j \in DOMAIN evs',
                        evs'[i].id = evs'[j].id
                 PROVE  i = j
      OBVIOUS
    <3>1. i + 1 = j + 1 BY <1>2, <2>1 DEF Distinct
    <3>2. i \in Nat /\ j \in Nat BY <1>2
    <3> QED BY <3>1, <3>2
  <2>3. /\ \A i \in DOMAIN ring : ring[i] # f.id
        /\ \A i \in DOMAIN evq : evq[i].id # f.id
        /\ \A i \in DOMAIN evs' : evs'[i].id # f.id
    BY <1>2, <1>4, <2>1 DEF Distinct
  <2> QED BY <1>1, <1>2, <2>1, <2>2, <2>3 DEF Distinct
<1>9. BuffersIntact'
  BY <1>1, <1>2, <1>4 DEF IInv, BuffersIntact
<1> QED BY <1>6, <1>7, <1>8, <1>9 DEF IInv

(* The ring has room for every buffer the constructor posted.              *)
LEMMA RepostStep == IInv /\ Repost => IInv'
<1> SUFFICES ASSUME IInv, Repost PROVE IInv'
  OBVIOUS
<1>1. /\ frame # NoFrame /\ frame' = NoFrame
      /\ UNCHANGED <<pool, evq, evs, n_discards, arrived, accepted, delivered>>
  BY DEF Repost
<1>2. frame.id \in Slots
  BY <1>1, FrameFields DEF IInv, TypeOK
<1>3. /\ ring \in Seq(Slots) /\ Len(ring) \in Nat /\ Len(evq) \in Nat
      /\ Len(evs) \in Nat /\ n_discards \in Nat
  BY DEF IInv, TypeOK
<1>4. Len(ring) + Len(evq) + Len(evs) + 1 = NSlots - n_discards
  BY <1>1 DEF IInv, Counted, InCallback
<1>5. Len(ring) < RingCap
  BY <1>3, <1>4, SlotCount, ReceiverAssumption
<1>6. ring' = Append(ring, frame.id)
  BY <1>5 DEF Repost
<1>7. /\ ring' \in Seq(Slots) /\ Len(ring') = Len(ring) + 1
      /\ \A i \in DOMAIN ring' : \/ i \in DOMAIN ring /\ ring'[i] = ring[i]
                                 \/ i = Len(ring) + 1 /\ ring'[i] = frame.id
  BY <1>2, <1>3, <1>6
<1>8. TypeOK'
  BY <1>1, <1>5, <1>7, <1>3, ReceiverAssumption DEF IInv, TypeOK
<1>9. Counted'
  <2>1. InCallback' = 0 /\ NSlots' = NSlots
    BY <1>1 DEF InCallback, NSlots
  <2>2. Len(evq') = Len(evq) /\ Len(evs') = Len(evs) /\ n_discards' = n_discards
    BY <1>1
  <2> QED BY <1>3, <1>4, <1>7, <2>1, <2>2, SlotCount DEF Counted
<1>10. Distinct'
  <2>1. Distinct BY DEF IInv
  <2>2. \A i, j \in DOMAIN ring' : ring'[i] = ring'[j] => i = j
    BY <1>7, <2>1 DEF Distinct
  <2>3. /\ \A i \in DOMAIN ring', j \in DOMAIN evq : ring'[i] # evq[j].id
        /\ \A i \in DOMAIN ring', j \in DOMAIN evs : ring'[i] # evs[j].id
    BY <1>7, <2>1 DEF Distinct
  <2>4. /\ \A i \in DOMAIN ring' : ring'[i] # NoFrame.id
        /\ \A i \in DOMAIN evq : evq[i].id # NoFrame.id
        /\ \A i \in DOMAIN evs : evs[i].id # NoFrame.id
    <3>1. \A i \in DOMAIN ring' : ring'[i] \in Slots
      BY <1>7
    <3> QED BY <3>1, EventSlots, NoFrameIsNone DEF IInv
  <2> QED BY <1>1, <2>1, <2>2, <2>3, <2>4 DEF Distinct
<1>11. BuffersIntact'
  BY <1>1 DEF IInv, BuffersIntact
<1> QED BY <1>8, <1>9, <1>10, <1>11 DEF IInv

LEMMA IdleSteps == IInv /\ (NicDrop \/ UNCHANGED vars) => IInv'
<1>1. ASSUME IInv, NicDrop PROVE IInv'
  <2>1. TypeOK' BY <1>1, ReceiverAssumption DEF IInv, TypeOK, NicDrop
  <2>2. Distinct' /\ BuffersIntact' BY <1>1 DEF IInv, Distinct, BuffersIntact, NicDrop
  <2>3. Counted' BY <1>1 DEF IInv, Counted, InCallback, NSlots, NicDrop
  <2> QED BY <2>1, <2>2, <2>3 DEF IInv
<1>2. ASSUME IInv, UNCHANGED vars PROVE IInv'
  BY <1>2 DEF IInv, TypeOK, Distinct, Counted, BuffersIntact, InCallback, NSlots, vars
<1> QED BY <1>1, <1>2

(* Every buffer is accounted for and intact in every reachable state.      *)
THEOREM Inductive == Spec => []IInv
<1>1. IInv /\ [Next]_vars => IInv'
  BY NicFillStep, PollEventsStep, PollDiscardStep, PollDeliverStep, RepostStep,
     IdleSteps DEF Next, Poll, Nic
<1> QED BY <1>1, InitIInv, PTL DEF Spec

(* The receiver's state is well typed: the ring is never overfilled.       *)
THEOREM TypeCorrect == Spec => []TypeOK
<1>1. IInv => TypeOK BY DEF IInv
<1> QED BY <1>1, Inductive, PTL

(* The events not yet seen to: those of the batch, then those of the queue.*)
LEMMA PendingAt ==
    ASSUME TypeOK
    PROVE  /\ Len(Pending) = Len(evs) + Len(evq) /\ DOMAIN Pending = 1 .. Len(Pending)
           /\ \A i \in DOMAIN Pending :
                \/ i \in DOMAIN evs /\ Pending[i] = evs[i]
                \/ /\ i > Len(evs) /\ i - Len(evs) \in DOMAIN evq
                   /\ Pending[i] = evq[i - Len(evs)]
<1>1. /\ evs \in Seq(Event) /\ evq \in Seq(Event) /\ Len(evs) \in Nat /\ Len(evq) \in Nat
      /\ DOMAIN evs = 1 .. Len(evs) /\ DOMAIN evq = 1 .. Len(evq)
  BY DEF TypeOK
<1>2. /\ Len(Pending) = Len(evs) + Len(evq)
      /\ DOMAIN Pending = 1 .. Len(Pending)
  BY <1>1, ConcatProperties DEF Pending
<1>3. ASSUME NEW i \in DOMAIN Pending
      PROVE  \/ i \in DOMAIN evs /\ Pending[i] = evs[i]
             \/ /\ i > Len(evs) /\ i - Len(evs) \in DOMAIN evq
                /\ Pending[i] = evq[i - Len(evs)]
  <2>1. CASE i <= Len(evs)
    BY <1>1, <1>2, <1>3, <2>1, ConcatProperties DEF Pending
  <2>2. CASE i > Len(evs)
    BY <1>1, <1>2, <1>3, <2>2, ConcatProperties DEF Pending
  <2> QED BY <1>1, <1>2, <1>3, <2>1, <2>2
<1> QED BY <1>2, <1>3

(* No frame is overwritten before it has been handed out and read.         *)
THEOREM SafeToRead == Spec => []NotOverwrittenBeforeRead
<1>1. IInv => NotOverwrittenBeforeRead
  <2> SUFFICES ASSUME IInv PROVE NotOverwrittenBeforeRead
    OBVIOUS
  <2>1. \A i \in DOMAIN Pending : pool[Pending[i].id] = Pending[i].number
    BY PendingAt DEF IInv, BuffersIntact
  <2> QED BY <2>1 DEF NotOverwrittenBeforeRead, IInv, BuffersIntact
<1> QED BY <1>1, Inductive, PTL

(* A buffer is posted, awaiting poll() or in the callback, never two of    *)
(* these at once, and one is nowhere for each discard, no more.            *)
THEOREM NoBufferLost == Spec => []BuffersAccounted
<1>1. IInv => BuffersAccounted
  <2> SUFFICES ASSUME IInv PROVE BuffersAccounted
    OBVIOUS
  <2> DEFINE ids == [i \in DOMAIN Pending |-> Pending[i].id]
             read == IF frame = NoFrame THEN <<>> ELSE <<frame.id>>
             L == Len(ring)  P == Len(Pending)
  <2>1. /\ ring \in Seq(Slots) /\ L \in Nat /\ DOMAIN ring = 1 .. L
        /\ P \in Nat /\ P = Len(evs) + Len(evq) /\ DOMAIN Pending = 1 .. P
    BY PendingAt DEF IInv, TypeOK
  <2>2. \A i \in 1 .. P : Pending[i].id \in Slots
    BY <2>1, PendingAt, EventSlots DEF IInv
  <2>3. /\ ids \in Seq(Slots) /\ Len(ids) = P
        /\ \A i \in 1 .. P : ids[i] = Pending[i].id
    BY <2>1, <2>2
  <2>4. /\ read \in Seq(Slots) /\ Len(read) = InCallback /\ InCallback \in {0, 1}
        /\ InCallback = 1 => frame # NoFrame /\ read[1] = frame.id
    BY FrameFields DEF IInv, TypeOK, InCallback
  <2> HIDE DEF ids, read
  <2>5. /\ ring \o ids \in Seq(Slots) /\ Len(ring \o ids) = L + P
        /\ \A i \in 1 .. L + P : (ring \o ids)[i] = IF i <= L THEN ring[i] ELSE ids[i - L]
    <3>1. ring \in Seq(Slots) /\ ids \in Seq(Slots)
      BY <2>1, <2>3
    <3>2. /\ ring \o ids \in Seq(Slots)
          /\ Len(ring \o ids) = Len(ring) + Len(ids)
          /\ \A i \in 1 .. Len(ring) + Len(ids) : (ring \o ids)[i] =
                 IF i <= Len(ring) THEN ring[i] ELSE ids[i - Len(ring)]
      BY <3>1, ConcatProperties, Zenon
    <3> QED BY <2>3, <3>2, Zenon
  <2>6. /\ Len((ring \o ids) \o read) = L + P + InCallback
        /\ (ring \o ids) \o read \in Seq(Slots)
        /\ \A i \in 1 .. L + P + InCallback :
            ((ring \o ids) \o read)[i] =
                IF i <= L + P THEN (ring \o ids)[i] ELSE read[i - (L + P)]
    <3>1. ring \o ids \in Seq(Slots) /\ read \in Seq(Slots)
      BY <2>4, <2>5
    <3>2. /\ (ring \o ids) \o read \in Seq(Slots)
          /\ Len((ring \o ids) \o read) = Len(ring \o ids) + Len(read)
          /\ \A i \in 1 .. Len(ring \o ids) + Len(read) :
                ((ring \o ids) \o read)[i] =
                    IF i <= Len(ring \o ids) THEN (ring \o ids)[i]
                    ELSE read[i - Len(ring \o ids)]
      BY <3>1, ConcatProperties, Zenon
    <3> QED BY <2>4, <2>5, <3>2, Zenon
  <2>7. Places = (ring \o ids) \o read
    BY DEF Places, ids, read
  <2>8. \A i \in DOMAIN Places :
            /\ i \in Nat
            /\ \/ i \in 1 .. L /\ Places[i] = ring[i]
               \/ i > L /\ i - L \in 1 .. P /\ Places[i] = Pending[i - L].id
               \/ /\ i = L + P + 1 /\ Places[i] = frame.id /\ frame # NoFrame
    <3> SUFFICES ASSUME NEW i \in 1 .. L + P + InCallback
                 PROVE  \/ i \in 1 .. L /\ Places[i] = ring[i]
                        \/ /\ i > L /\ i - L \in 1 .. P
                           /\ Places[i] = Pending[i - L].id
                        \/ /\ i = L + P + 1 /\ Places[i] = frame.id
                           /\ frame # NoFrame
      BY <2>1, <2>4, <2>6, <2>7, SMTT(60)
    <3>1. CASE i <= L
      BY <2>1, <2>4, <2>5, <2>6, <2>7, <3>1
    <3>2. CASE i > L /\ i <= L + P
      BY <2>1, <2>3, <2>4, <2>5, <2>6, <2>7, <3>2, SMTT(30)
    <3>3. CASE i > L + P
      BY <2>1, <2>4, <2>6, <2>7, <3>3
    <3> QED BY <2>1, <2>4, <3>1, <3>2, <3>3
  <2>9. \A i, j \in 1 .. P : Pending[i].id = Pending[j].id => i = j
    <3> SUFFICES ASSUME NEW i \in 1 .. P, NEW j \in 1 .. P,
                        Pending[i].id = Pending[j].id
                 PROVE  i = j
      OBVIOUS
    <3>1. /\ \/ i \in DOMAIN evs /\ Pending[i] = evs[i]
             \/ i - Len(evs) \in DOMAIN evq /\ Pending[i] = evq[i - Len(evs)]
          /\ \/ j \in DOMAIN evs /\ Pending[j] = evs[j]
             \/ j - Len(evs) \in DOMAIN evq /\ Pending[j] = evq[j - Len(evs)]
      BY <2>1, PendingAt DEF IInv
    <3>2. i = j \/ i - Len(evs) = j - Len(evs)
      BY <3>1 DEF IInv, Distinct
    <3>3. Len(evs) \in Nat
      BY DEF IInv, TypeOK
    <3> QED BY <2>1, <3>2, <3>3
  <2>10. /\ \A i \in 1 .. L, j \in 1 .. P : ring[i] # Pending[j].id
         /\ \A i \in 1 .. L : ring[i] # frame.id
         /\ \A j \in 1 .. P : Pending[j].id # frame.id
    BY <2>1, PendingAt DEF IInv, Distinct
  <2>11. IsInjective(Places)
    <3> SUFFICES ASSUME NEW i \in DOMAIN Places, NEW j \in DOMAIN Places,
                        Places[i] = Places[j]
                 PROVE  i = j
      BY DEF IsInjective
    <3>1. CASE i \in 1 .. L /\ Places[i] = ring[i]
      <4>1. CASE j \in 1 .. L /\ Places[j] = ring[j]
        BY <2>1, <3>1, <4>1 DEF IInv, Distinct
      <4>2. CASE \/ j > L /\ j - L \in 1 .. P /\ Places[j] = Pending[j - L].id
                 \/ j = L + P + 1 /\ Places[j] = frame.id
        BY <2>10, <3>1, <4>2
      <4> QED BY <2>8, <4>1, <4>2
    <3>2. CASE i > L /\ i - L \in 1 .. P /\ Places[i] = Pending[i - L].id
      <4>1. CASE j > L /\ j - L \in 1 .. P /\ Places[j] = Pending[j - L].id
        <5>1. i - L = j - L BY <2>9, <3>2, <4>1
        <5> QED BY <2>1, <2>8, <5>1
      <4>2. CASE \/ j \in 1 .. L /\ Places[j] = ring[j]
                 \/ j = L + P + 1 /\ Places[j] = frame.id
        BY <2>10, <3>2, <4>2
      <4> QED BY <2>8, <4>1, <4>2
    <3>3. CASE i = L + P + 1 /\ Places[i] = frame.id
      BY <2>1, <2>8, <2>10, <3>3
    <3> QED BY <2>8, <3>1, <3>2, <3>3
  <2>12. Len(Places) = NSlots - n_discards
    BY <2>1, <2>4, <2>6, <2>7 DEF IInv, Counted
  <2> QED BY <2>11, <2>12 DEF BuffersAccounted
<1> QED BY <1>1, Inductive, PTL

-----------------------------------------------------------------------------
(* No frame is numbered above the count of arrivals, so a new one is the   *)
(* largest of all.                                                         *)
Numbered ==
    /\ \A i \in DOMAIN Pending : Pending[i].number <= arrived
    /\ \A i \in DOMAIN accepted : accepted[i] <= arrived

OrderInv == DeliveredInOrder /\ Numbered

LEMMA PendingTyped ==
    ASSUME TypeOK
    PROVE  /\ Pending \in Seq(Event) /\ Len(Pending) \in Nat
           /\ \A i \in DOMAIN Pending :
                /\ Pending[i] \in Event /\ Pending[i].number \in Nat
                /\ Pending[i].type \in {"RX", "RX_DISCARD"}
<1>1. evs \in Seq(Event) /\ evq \in Seq(Event)
  BY DEF TypeOK
<1>2. Pending \in Seq(Event)
  BY <1>1, ConcatProperties DEF Pending
<1>3. \A e \in Event : e.number \in Nat /\ e.type \in {"RX", "RX_DISCARD"}
  BY DEF Event
<1>4. Len(Pending) \in Nat /\ \A i \in DOMAIN Pending : Pending[i] \in Event
  BY <1>2
<1> QED BY <1>2, <1>3, <1>4

(* A prefix, element by element.                                           *)
LEMMA Prefix ==
    ASSUME NEW s \in Seq(Nat), NEW t \in Seq(Nat)
    PROVE  IsPrefix(s, t) <=> /\ Len(s) <= Len(t)
                              /\ \A i \in 1 .. Len(s) : s[i] = t[i]
<1>1. Len(s) \in Nat /\ Len(t) \in Nat
  OBVIOUS
<1>2. CASE ~(Len(s) <= Len(t))
  BY <1>2 DEF IsPrefix
<1>3. CASE Len(s) <= Len(t)
  <2> DEFINE a == SubSeq(s, 1, Len(s))  b == SubSeq(t, 1, Len(s))
  <2>1. /\ a \in Seq(Nat) /\ b \in Seq(Nat) /\ Len(a) = Len(s) /\ Len(b) = Len(s)
        /\ \A i \in 1 .. Len(s) : a[i] = s[i] /\ b[i] = t[i]
    BY <1>1, <1>3
  <2> HIDE DEF a, b
  <2>2. a = b <=> \A i \in 1 .. Len(s) : s[i] = t[i]
    <3>1. (\A i \in 1 .. Len(s) : s[i] = t[i]) => a = b
      BY <2>1, SeqEqual
    <3> QED BY <2>1, <3>1
  <2>3. IsPrefix(s, t) <=> Len(s) <= Len(t) /\ a = b
    BY DEF IsPrefix, a, b
  <2> QED BY <1>3, <2>2, <2>3
<1> QED BY <1>2, <1>3

(* A filled buffer joins the end of what is pending.                       *)
LEMMA PendingGrows ==
    ASSUME TypeOK, NEW type \in {"RX", "RX_DISCARD"}, NicFill(type)
    PROVE  /\ Len(Pending') = Len(Pending) + 1 /\ DOMAIN Pending' = 1 .. Len(Pending) + 1
           /\ \A i \in 1 .. Len(Pending) : Pending'[i] = Pending[i]
           /\ Pending'[Len(Pending) + 1].type = type
           /\ Pending'[Len(Pending) + 1].number = arrived + 1
<1> DEFINE e == [type |-> type, id |-> Head(ring), number |-> arrived + 1]
<1>1. /\ evs \in Seq(Event) /\ evq \in Seq(Event) /\ evs' = evs
      /\ evq' = Append(evq, e)
  BY DEF TypeOK, NicFill
<1>2. e \in Event
  <2>1. Head(ring) \in Slots /\ arrived + 1 \in Nat
    BY ReceiverAssumption DEF TypeOK, NicFill
  <2> QED BY <2>1 DEF Event
<1>3. e.type = type /\ e.number = arrived + 1
  OBVIOUS
<1> HIDE DEF e
<1>4. /\ evq' \in Seq(Event) /\ Len(evq') = Len(evq) + 1
      /\ \A i \in 1 .. Len(evq) : evq'[i] = evq[i]
      /\ evq'[Len(evq) + 1] = e
  BY <1>1, <1>2
<1>5. /\ Pending \in Seq(Event) /\ Len(Pending) = Len(evs) + Len(evq)
      /\ \A i \in 1 .. Len(evs) + Len(evq) :
            Pending[i] = IF i <= Len(evs) THEN evs[i] ELSE evq[i - Len(evs)]
  BY <1>1, ConcatProperties DEF Pending
<1>6. /\ Pending' \in Seq(Event) /\ Len(Pending') = Len(evs) + Len(evq')
      /\ \A i \in 1 .. Len(evs) + Len(evq') :
            Pending'[i] = IF i <= Len(evs) THEN evs[i] ELSE evq'[i - Len(evs)]
  BY <1>1, <1>4, ConcatProperties DEF Pending
<1>7. Len(evs) \in Nat /\ Len(evq) \in Nat
  BY <1>1
<1>8. Len(Pending') = Len(Pending) + 1 /\ DOMAIN Pending' = 1 .. Len(Pending) + 1
  BY <1>4, <1>5, <1>6, <1>7
<1>9. ASSUME NEW i \in 1 .. Len(Pending) PROVE Pending'[i] = Pending[i]
  <2>1. i \in 1 .. Len(evs) + Len(evq) /\ i \in 1 .. Len(evs) + Len(evq')
    BY <1>4, <1>5, <1>7
  <2>2. CASE i <= Len(evs)
    BY <1>5, <1>6, <2>1, <2>2
  <2>3. CASE ~(i <= Len(evs))
    <3>1. i - Len(evs) \in 1 .. Len(evq)
      BY <1>7, <2>1, <2>3
    <3> QED BY <1>4, <1>5, <1>6, <2>1, <2>3, <3>1
  <2> QED BY <2>2, <2>3
<1>10. Pending'[Len(Pending) + 1] = e
  BY <1>4, <1>5, <1>6, <1>7
<1> QED BY <1>3, <1>8, <1>9, <1>10

(* poll() takes a batch off the queue: the same events are pending.        *)
LEMMA PendingKept == TypeOK /\ PollEvents => Pending' = Pending
<1> SUFFICES ASSUME TypeOK, PollEvents PROVE Pending' = Pending
  OBVIOUS
<1>1. /\ evs = <<>> /\ evq \in Seq(Event)
      /\ evs' = SubSeq(evq, 1, BatchSize)
      /\ evq' = SubSeq(evq, BatchSize + 1, Len(evq))
  BY DEF TypeOK, PollEvents, InPoll
<1>2. BatchSize \in 0 .. Len(evq) /\ Len(evq) \in Nat
  BY <1>1, ReceiverAssumption DEF BatchSize
<1>3. Pending = evq
  BY <1>1, ConcatEmptySeq DEF Pending
<1>4. SubSeq(evq, 1, BatchSize) \o SubSeq(evq, BatchSize + 1, Len(evq)) = evq
  <2> DEFINE k == BatchSize  n == Len(evq)
  <2>1. 1 \in 1 .. n + 1 /\ k \in 1 - 1 .. n /\ n \in k .. n
    BY <1>2
  <2> HIDE DEF k, n
  <2>2. SubSeq(evq, 1, k) \o SubSeq(evq, k + 1, n) = SubSeq(evq, 1, n)
    BY <1>1, <2>1, ConcatAdjacentSubSeq DEF n
  <2>3. SubSeq(evq, 1, n) = evq
    BY <1>1, SubSeqFull DEF n
  <2> QED BY <2>2, <2>3 DEF k, n
<1> QED BY <1>1, <1>3, <1>4 DEF Pending

(* The first pending event has been seen to.                               *)
LEMMA PendingShrinks ==
    ASSUME TypeOK, evs # <<>>, evs' = Tail(evs), evq' = evq
    PROVE  /\ Head(evs) = Pending[1] /\ Len(Pending) > 0
           /\ Len(Pending') = Len(Pending) - 1 /\ DOMAIN Pending' = 1 .. Len(Pending) - 1
           /\ \A i \in 1 .. Len(Pending) - 1 : Pending'[i] = Pending[i + 1]
<1>1. /\ evs \in Seq(Event) /\ evq \in Seq(Event) /\ Len(evs) \in Nat /\ Len(evq) \in Nat
      /\ Len(evs) > 0
  BY DEF TypeOK
<1>2. /\ evs' \in Seq(Event) /\ Len(evs') = Len(evs) - 1 /\ Head(evs) = evs[1]
      /\ \A i \in 1 .. Len(evs) - 1 : evs'[i] = evs[i + 1]
  BY <1>1
<1>3. /\ Pending \in Seq(Event) /\ Len(Pending) = Len(evs) + Len(evq)
      /\ \A i \in 1 .. Len(evs) + Len(evq) :
            Pending[i] = IF i <= Len(evs) THEN evs[i] ELSE evq[i - Len(evs)]
  BY <1>1, ConcatProperties DEF Pending
<1>4. /\ Pending' \in Seq(Event) /\ Len(Pending') = Len(evs') + Len(evq)
      /\ \A i \in 1 .. Len(evs') + Len(evq) :
            Pending'[i] = IF i <= Len(evs') THEN evs'[i] ELSE evq[i - Len(evs')]
  <2>1. Pending' = evs' \o evq
    BY DEF Pending
  <2> QED BY <1>1, <1>2, <2>1, ConcatProperties
<1>5. Head(evs) = Pending[1] /\ Len(Pending) > 0
  BY <1>1, <1>2, <1>3
<1>6. Len(Pending') = Len(Pending) - 1 /\ DOMAIN Pending' = 1 .. Len(Pending) - 1
  BY <1>1, <1>2, <1>3, <1>4
<1>7. ASSUME NEW i \in 1 .. Len(Pending) - 1 PROVE Pending'[i] = Pending[i + 1]
  <2>1. CASE i <= Len(evs) - 1
    BY <1>1, <1>2, <1>3, <1>4, <2>1
  <2>2. CASE i > Len(evs) - 1
    <3>1. i - (Len(evs) - 1) = (i + 1) - Len(evs)
      BY <1>1, <1>3
    <3>2. /\ i \in 1 .. Len(evs') + Len(evq) /\ ~(i <= Len(evs'))
          /\ i + 1 \in 1 .. Len(evs) + Len(evq) /\ ~(i + 1 <= Len(evs))
      BY <1>1, <1>2, <1>3, <2>2
    <3>3. Pending'[i] = evq[i - Len(evs')] /\ Pending[i + 1] = evq[(i + 1) - Len(evs)]
      BY <1>3, <1>4, <3>2
    <3> QED BY <1>2, <3>1, <3>3
  <2> QED BY <1>1, <1>3, <2>1, <2>2
<1> QED BY <1>5, <1>6, <1>7

LEMMA InitOrder == Init => OrderInv
<1> SUFFICES ASSUME Init PROVE OrderInv
  OBVIOUS
<1>1. /\ delivered = <<>> /\ accepted = <<>> /\ evs = <<>> /\ evq = <<>>
  BY DEF Init
<1>2. Pending = <<>>
  <2>1. <<>> \in Seq(Event)
    OBVIOUS
  <2> QED BY <1>1, <2>1, ConcatEmptySeq DEF Pending
<1>3. IsPrefix(delivered, accepted)
  BY <1>1 DEF IsPrefix
<1> QED BY <1>1, <1>2, <1>3 DEF OrderInv, DeliveredInOrder, Waiting, Numbered

(* Steps that neither receive, discard nor hand out a frame.               *)
LEMMA OrderKept ==
    ASSUME OrderInv, Pending' = Pending, accepted' = accepted,
           delivered' = delivered, arrived \in Nat, arrived' >= arrived,
           arrived' \in Nat, TypeOK
    PROVE  OrderInv'
<1>1. DeliveredInOrder'
  <2>1. Waiting' = Waiting
    BY DEF Waiting
  <2>2. DeliveredInOrder
    BY DEF OrderInv
  <2>3. IsPrefix(delivered', accepted') <=> IsPrefix(delivered, accepted)
    BY Zenon
  <2>4. {accepted'[i] : i \in Len(delivered') + 1 .. Len(accepted')}
            = {accepted[i] : i \in Len(delivered) + 1 .. Len(accepted)}
    OBVIOUS
  <2>5. /\ \A i, j \in DOMAIN Pending' : i < j => Pending'[i].number < Pending'[j].number
        /\ \A i, j \in DOMAIN accepted' : i < j => accepted'[i] < accepted'[j]
    BY <2>2 DEF DeliveredInOrder
  <2> QED BY <2>1, <2>2, <2>3, <2>4, <2>5 DEF DeliveredInOrder
<1>2. Numbered'
  <2>1. /\ \A i \in DOMAIN Pending : Pending[i].number \in Nat
        /\ \A i \in DOMAIN accepted : accepted[i] \in Nat
    BY PendingTyped DEF TypeOK
  <2>2. /\ \A i \in DOMAIN Pending : Pending[i].number <= arrived
        /\ \A i \in DOMAIN accepted : accepted[i] <= arrived
    BY DEF OrderInv, Numbered
  <2>3. \A n \in Nat : n <= arrived => n <= arrived'
    OBVIOUS
  <2>4. \A i \in DOMAIN Pending : Pending[i].number <= arrived'
    BY <2>1, <2>2, <2>3
  <2>5. \A i \in DOMAIN accepted : accepted[i] <= arrived'
    BY <2>1, <2>2, <2>3
  <2> QED BY <2>4, <2>5 DEF Numbered
<1> QED BY <1>1, <1>2 DEF OrderInv

LEMMA NicFillOrder ==
    ASSUME IInv, OrderInv, NEW type \in {"RX", "RX_DISCARD"}, NicFill(type)
    PROVE  OrderInv'
<1> DEFINE n == arrived + 1  P == Len(Pending)  A == Len(accepted)  D == Len(delivered)
<1>1. /\ arrived \in Nat /\ arrived' = n /\ delivered' = delivered
      /\ accepted \in Seq(Nat) /\ delivered \in Seq(Nat)
      /\ accepted' = IF type = "RX" THEN Append(accepted, n) ELSE accepted
  BY ReceiverAssumption DEF IInv, TypeOK, NicFill
<1>2. /\ P \in Nat /\ DOMAIN Pending = 1 .. P /\ DOMAIN Pending' = 1 .. P + 1
      /\ \A i \in 1 .. P : /\ Pending'[i] = Pending[i] /\ Pending[i].number \in Nat
                           /\ Pending[i].number < n
      /\ Pending'[P + 1].type = type /\ Pending'[P + 1].number = n
  <2>1. /\ P \in Nat /\ DOMAIN Pending = 1 .. P
        /\ \A i \in 1 .. P : Pending[i].number \in Nat
    BY PendingTyped DEF IInv
  <2>2. \A i \in 1 .. P : Pending[i].number <= arrived
    BY <2>1 DEF OrderInv, Numbered
  <2>3. \A i \in 1 .. P : Pending[i].number < n
    BY <1>1, <2>1, <2>2
  <2> QED BY <2>1, <2>3, PendingGrows DEF IInv
<1>3. /\ A \in Nat /\ D \in Nat /\ DOMAIN accepted = 1 .. A
      /\ \A i \in 1 .. A : accepted[i] \in Nat /\ accepted[i] < n
  BY <1>1 DEF OrderInv, Numbered
<1>4. D <= A /\ \A i \in 1 .. D : delivered[i] = accepted[i]
  BY <1>1, Prefix DEF OrderInv, DeliveredInOrder
<1>5. /\ Waiting = {accepted[i] : i \in D + 1 .. A}
      /\ \A i, j \in 1 .. P : i < j => Pending[i].number < Pending[j].number
      /\ \A i, j \in 1 .. A : i < j => accepted[i] < accepted[j]
  BY <1>2, <1>3 DEF OrderInv, DeliveredInOrder
<1>6. /\ accepted' \in Seq(Nat) /\ Len(accepted') = IF type = "RX" THEN A + 1 ELSE A
      /\ \A i \in 1 .. A : accepted'[i] = accepted[i]
      /\ type = "RX" => accepted'[A + 1] = n
  BY <1>1
<1> HIDE DEF n, P, A, D
<1>7. \A i, j \in DOMAIN Pending' : i < j => Pending'[i].number < Pending'[j].number
  <2> SUFFICES ASSUME NEW i \in 1 .. P + 1, NEW j \in 1 .. P + 1, i < j
               PROVE  Pending'[i].number < Pending'[j].number
    BY <1>2
  <2>1. i \in 1 .. P
    BY <1>2
  <2>2. CASE j \in 1 .. P
    BY <1>2, <1>5, <2>1, <2>2
  <2>3. CASE j = P + 1
    BY <1>2, <2>1, <2>3
  <2> QED BY <1>2, <2>2, <2>3
<1>8. \A i, j \in DOMAIN accepted' : i < j => accepted'[i] < accepted'[j]
  <2> SUFFICES ASSUME NEW i \in DOMAIN accepted', NEW j \in DOMAIN accepted', i < j
               PROVE  accepted'[i] < accepted'[j]
    OBVIOUS
  <2>1. /\ i \in Nat /\ j \in Nat /\ i >= 1 /\ j >= 1
        /\ j <= A \/ (j = A + 1 /\ type = "RX")
    <3>1. i \in 1 .. Len(accepted') /\ j \in 1 .. Len(accepted')
      BY <1>6
    <3>2. CASE type = "RX"
      BY <1>3, <1>6, <3>1, <3>2
    <3>3. CASE type # "RX"
      BY <1>3, <1>6, <3>1, <3>3
    <3> QED BY <3>2, <3>3
  <2>2. i \in 1 .. A
    BY <1>3, <2>1
  <2>3. CASE j \in 1 .. A
    BY <1>5, <1>6, <2>2, <2>3
  <2>4. CASE j = A + 1 /\ type = "RX"
    BY <1>3, <1>6, <2>2, <2>4
  <2> QED BY <1>3, <2>1, <2>3, <2>4
<1>9. IsPrefix(delivered', accepted')
  <2>1. Len(delivered') = D
    BY <1>1 DEF D
  <2>2. D <= Len(accepted')
    BY <1>3, <1>4, <1>6
  <2>3. \A i \in 1 .. D : delivered'[i] = accepted'[i]
    BY <1>1, <1>3, <1>4, <1>6
  <2> QED BY <1>1, <1>6, <2>1, <2>2, <2>3, Prefix
<1>10. Waiting' = IF type = "RX" THEN Waiting \cup {n} ELSE Waiting
  <2> DEFINE Rx == {j \in 1 .. P : Pending[j].type = "RX"}
             Rx1 == {j \in 1 .. P + 1 : Pending'[j].type = "RX"}
  <2>1. Waiting = {Pending[i].number : i \in Rx}
    BY <1>2 DEF Waiting
  <2>2. Waiting' = {Pending'[i].number : i \in Rx1}
    BY <1>2 DEF Waiting
  <2>3. Rx1 = IF type = "RX" THEN Rx \cup {P + 1} ELSE Rx
    <3>1. 1 .. P + 1 = (1 .. P) \cup {P + 1}
      BY <1>2
    <3> QED BY <1>2, <3>1
  <2>4. \A i \in Rx : Pending'[i].number = Pending[i].number
    BY <1>2
  <2> HIDE DEF Rx, Rx1
  <2> QED BY <1>2, <2>1, <2>2, <2>3, <2>4
<1>11. {accepted'[i] : i \in D + 1 .. Len(accepted')}
           = IF type = "RX" THEN {accepted[i] : i \in D + 1 .. A} \cup {n}
             ELSE {accepted[i] : i \in D + 1 .. A}
  <2>1. D + 1 .. Len(accepted') = IF type = "RX" THEN (D + 1 .. A) \cup {A + 1}
                                  ELSE D + 1 .. A
    <3>1. D + 1 .. A + 1 = (D + 1 .. A) \cup {A + 1}
      BY <1>3, <1>4
    <3> QED BY <1>6, <3>1
  <2>2. \A i \in D + 1 .. A : accepted'[i] = accepted[i]
    BY <1>3, <1>6
  <2> QED BY <1>6, <2>1, <2>2
<1>12. Waiting' = {accepted'[i] : i \in Len(delivered') + 1 .. Len(accepted')}
  <2>1. Len(delivered') = D
    BY <1>1 DEF D
  <2> QED BY <1>5, <1>10, <1>11, <2>1
<1>13. Numbered'
  <2>1. \A i \in DOMAIN Pending' : Pending'[i].number <= n
    <3> SUFFICES ASSUME NEW i \in 1 .. P + 1 PROVE Pending'[i].number <= n
      BY <1>2
    <3>1. n \in Nat
      BY <1>1 DEF n
    <3>2. i \in 1 .. P \/ i = P + 1
      BY <1>2
    <3> QED BY <1>2, <3>1, <3>2
  <2>2. \A i \in DOMAIN accepted' : accepted'[i] <= n
    <3> SUFFICES ASSUME NEW i \in DOMAIN accepted' PROVE accepted'[i] <= n
      OBVIOUS
    <3>1. n \in Nat
      BY <1>1 DEF n
    <3>2. i \in 1 .. A \/ (i = A + 1 /\ type = "RX")
      BY <1>3, <1>6
    <3> QED BY <1>3, <1>6, <3>1, <3>2
  <2> QED BY <1>1, <2>1, <2>2 DEF Numbered
<1> QED BY <1>7, <1>8, <1>9, <1>12, <1>13 DEF OrderInv, DeliveredInOrder

(* What handing out and discarding have in common: the first pending event *)
(* is gone, and the waiting frames are the received ones of the others.    *)
LEMMA FirstSeenTo ==
    ASSUME TypeOK, evs # <<>>, evs' = Tail(evs), evq' = evq, OrderInv,
           accepted' = accepted, arrived' = arrived
    PROVE  /\ \A i, j \in DOMAIN Pending' : i < j => Pending'[i].number < Pending'[j].number
           /\ \A i, j \in DOMAIN accepted' : i < j => accepted'[i] < accepted'[j]
           /\ Numbered'
           /\ Waiting = IF Head(evs).type = "RX" THEN Waiting' \cup {Head(evs).number}
                        ELSE Waiting'
           /\ \A n \in Waiting' : n > Head(evs).number
           /\ Waiting \subseteq Nat
<1> DEFINE P == Len(Pending)  h == Head(evs)
<1>1. /\ P \in Nat /\ DOMAIN Pending = 1 .. P /\ P > 0 /\ h = Pending[1]
      /\ DOMAIN Pending' = 1 .. P - 1
      /\ \A i \in 1 .. P - 1 : Pending'[i] = Pending[i + 1] /\ i + 1 \in 1 .. P
      /\ \A i \in 1 .. P : Pending[i].number \in Nat
  BY PendingTyped, PendingShrinks
<1>2. /\ \A i, j \in 1 .. P : i < j => Pending[i].number < Pending[j].number
      /\ \A i, j \in DOMAIN accepted : i < j => accepted[i] < accepted[j]
      /\ \A i \in 1 .. P : Pending[i].number <= arrived
      /\ \A i \in DOMAIN accepted : accepted[i] <= arrived
  BY <1>1 DEF OrderInv, DeliveredInOrder, Numbered
<1> HIDE DEF P, h
<1>3. \A i, j \in DOMAIN Pending' : i < j => Pending'[i].number < Pending'[j].number
  BY <1>1, <1>2
<1>4. Numbered'
  BY <1>1, <1>2 DEF Numbered
<1> DEFINE Rx == {j \in 1 .. P : Pending[j].type = "RX"}
           Rx1 == {j \in 1 .. P - 1 : Pending'[j].type = "RX"}
<1>5. Waiting = {Pending[i].number : i \in Rx}
  BY <1>1 DEF Waiting
<1>6. Waiting' = {Pending'[i].number : i \in Rx1}
  BY <1>1 DEF Waiting
<1>7. \A i \in Rx1 : i + 1 \in Rx /\ i + 1 > 1 /\ Pending'[i].number = Pending[i + 1].number
  BY <1>1
<1>8. \A i \in Rx : i = 1 \/ (i - 1 \in Rx1 /\ Pending'[i - 1].number = Pending[i].number)
  <2> SUFFICES ASSUME NEW i \in Rx, i # 1
               PROVE  i - 1 \in Rx1 /\ Pending'[i - 1].number = Pending[i].number
    OBVIOUS
  <2>1. i - 1 \in 1 .. P - 1 /\ (i - 1) + 1 = i
    BY <1>1
  <2> QED BY <1>1, <2>1
<1>9. 1 \in Rx <=> h.type = "RX"
  BY <1>1
<1>10. Waiting = IF h.type = "RX" THEN Waiting' \cup {h.number} ELSE Waiting'
  <2> HIDE DEF Rx, Rx1
  <2>1. Waiting' \subseteq Waiting
    BY <1>5, <1>6, <1>7
  <2>2. ASSUME NEW n \in Waiting PROVE n \in Waiting' \/ (1 \in Rx /\ n = h.number)
    <3>1. PICK i \in Rx : n = Pending[i].number
      BY <1>5
    <3> QED BY <1>1, <1>6, <1>8, <3>1
  <2>3. 1 \in Rx => h.number \in Waiting
    BY <1>1, <1>5
  <2> QED BY <1>9, <2>1, <2>2, <2>3
<1>11. \A n \in Waiting' : n > h.number
  <2> SUFFICES ASSUME NEW n \in Waiting' PROVE n > h.number
    OBVIOUS
  <2>1. PICK i \in Rx1 : n = Pending'[i].number
    BY <1>6
  <2>2. i + 1 \in 1 .. P /\ i + 1 > 1 /\ n = Pending[i + 1].number
    BY <1>7, <2>1
  <2> QED BY <1>1, <1>2, <2>2
<1>12. Waiting \subseteq Nat
  BY <1>1, <1>5
<1> QED BY <1>2, <1>3, <1>4, <1>10, <1>11, <1>12 DEF h

LEMMA PollDiscardOrder == IInv /\ OrderInv /\ PollDiscard => OrderInv'
<1> SUFFICES ASSUME IInv, OrderInv, PollDiscard PROVE OrderInv'
  OBVIOUS
<1>1. /\ evs # <<>> /\ Head(evs).type # "RX" /\ evs' = Tail(evs) /\ evq' = evq
      /\ accepted' = accepted /\ delivered' = delivered /\ arrived' = arrived
  BY DEF PollDiscard
<1>2. /\ \A i, j \in DOMAIN Pending' : i < j => Pending'[i].number < Pending'[j].number
      /\ \A i, j \in DOMAIN accepted' : i < j => accepted'[i] < accepted'[j]
      /\ Numbered' /\ Waiting' = Waiting
  BY <1>1, FirstSeenTo DEF IInv
<1>3. IsPrefix(delivered', accepted')
  <2>1. IsPrefix(delivered, accepted)
    BY DEF OrderInv, DeliveredInOrder
  <2> QED BY <1>1, <2>1, Zenon
<1>4. Waiting' = {accepted'[i] : i \in Len(delivered') + 1 .. Len(accepted')}
  <2>1. Waiting = {accepted[i] : i \in Len(delivered) + 1 .. Len(accepted)}
    BY DEF OrderInv, DeliveredInOrder
  <2> QED BY <1>1, <1>2, <2>1
<1> QED BY <1>2, <1>3, <1>4 DEF OrderInv, DeliveredInOrder

(* The first waiting frame is the oldest one not handed out yet, and it is *)
(* still what its buffer holds.                                            *)
LEMMA PollDeliverOrder == IInv /\ OrderInv /\ PollDeliver => OrderInv'
<1> SUFFICES ASSUME IInv, OrderInv, PollDeliver PROVE OrderInv'
  OBVIOUS
<1> DEFINE n == Head(evs).number  A == Len(accepted)  D == Len(delivered)
<1>1. /\ evs # <<>> /\ Head(evs).type = "RX" /\ evs' = Tail(evs) /\ evq' = evq
      /\ accepted' = accepted /\ arrived' = arrived
      /\ accepted \in Seq(Nat) /\ delivered \in Seq(Nat)
  BY DEF PollDeliver, IInv, TypeOK
<1>2. delivered' = Append(delivered, n)
  <2>1. delivered' = Append(delivered, pool[Head(evs).id])
    BY DEF PollDeliver
  <2>2. Head(evs) = evs[1] /\ 1 \in DOMAIN evs
    BY <1>1, TailOfBatch DEF IInv
  <2>3. pool[evs[1].id] = evs[1].number
    BY <2>2 DEF IInv, BuffersIntact
  <2> QED BY <2>1, <2>2, <2>3
<1>3. /\ \A i, j \in DOMAIN Pending' : i < j => Pending'[i].number < Pending'[j].number
      /\ \A i, j \in DOMAIN accepted' : i < j => accepted'[i] < accepted'[j]
      /\ Numbered' /\ Waiting = Waiting' \cup {n}
      /\ Waiting \subseteq Nat
      /\ \A m \in Waiting' : m > n
  BY <1>1, FirstSeenTo DEF IInv
<1>4. /\ D \in Nat /\ A \in Nat /\ DOMAIN accepted = 1 .. A
      /\ \A i \in 1 .. A : accepted[i] \in Nat
  BY <1>1
<1>5. D <= A /\ \A i \in 1 .. D : delivered[i] = accepted[i]
  BY <1>1, Prefix DEF OrderInv, DeliveredInOrder
<1>6. /\ Waiting = {accepted[i] : i \in D + 1 .. A}
      /\ \A i, j \in 1 .. A : i < j => accepted[i] < accepted[j]
  BY <1>4 DEF OrderInv, DeliveredInOrder
<1>7. n \in Nat
  BY <1>3
<1> HIDE DEF n, A, D
<1>8. D + 1 \in 1 .. A /\ n = accepted[D + 1]
  <2>1. PICK i \in D + 1 .. A : n = accepted[i]
    BY <1>3, <1>6
  <2>2. D + 1 \in 1 .. A /\ D + 1 \in D + 1 .. A /\ i \in 1 .. A
    BY <1>4, <2>1
  <2>3. accepted[D + 1] \in Waiting
    BY <1>6, <2>2
  <2>4. accepted[D + 1] = n \/ accepted[D + 1] > n
    BY <1>3, <2>3
  <2>5. i = D + 1 \/ accepted[D + 1] < n
    BY <1>4, <1>6, <2>1, <2>2
  <2> QED BY <1>4, <1>7, <2>1, <2>2, <2>4, <2>5
<1>9. Waiting' = {accepted[i] : i \in D + 2 .. A}
  <2>1. n \notin Waiting'
    BY <1>3, <1>7
  <2>2. Waiting' = Waiting \ {n}
    BY <1>3, <2>1
  <2>3. D + 1 .. A = {D + 1} \cup (D + 2 .. A)
    BY <1>4, <1>8
  <2>4. \A i \in D + 2 .. A : accepted[i] # n
    <3> SUFFICES ASSUME NEW i \in D + 2 .. A PROVE accepted[i] # n
      OBVIOUS
    <3>1. i \in 1 .. A /\ D + 1 < i
      BY <1>4
    <3>2. accepted[D + 1] < accepted[i]
      BY <1>6, <1>8, <3>1
    <3> QED BY <1>4, <1>7, <1>8, <3>1, <3>2
  <2> QED BY <1>6, <1>8, <2>2, <2>3, <2>4
<1>10. /\ delivered' \in Seq(Nat) /\ Len(delivered') = D + 1
       /\ \A i \in 1 .. D : delivered'[i] = delivered[i]
       /\ delivered'[D + 1] = n
  BY <1>1, <1>2, <1>7 DEF D
<1>11. IsPrefix(delivered', accepted')
  <2>1. D + 1 <= A
    BY <1>4, <1>8
  <2>2. \A i \in 1 .. D + 1 : delivered'[i] = accepted[i]
    <3> SUFFICES ASSUME NEW i \in 1 .. D + 1 PROVE delivered'[i] = accepted[i]
      OBVIOUS
    <3>1. i \in 1 .. D \/ i = D + 1
      BY <1>4
    <3> QED BY <1>5, <1>8, <1>10, <3>1
  <2> QED BY <1>1, <1>10, <2>1, <2>2, Prefix DEF A
<1>12. Waiting' = {accepted'[i] : i \in Len(delivered') + 1 .. Len(accepted')}
  <2>1. Len(delivered') + 1 = D + 2 /\ Len(accepted') = A
    BY <1>1, <1>4, <1>10 DEF A
  <2> QED BY <1>1, <1>9, <2>1
<1> QED BY <1>3, <1>11, <1>12 DEF OrderInv, DeliveredInOrder

(* The callback is given the frames the NIC received, each once, in their  *)
(* order of arrival.                                                       *)
THEOREM InArrivalOrder == Spec => []DeliveredInOrder
<1>1. IInv /\ OrderInv /\ [Next]_vars => OrderInv'
  <2> SUFFICES ASSUME IInv, OrderInv, [Next]_vars PROVE OrderInv'
    OBVIOUS
  <2>1. arrived \in Nat
    BY ReceiverAssumption DEF IInv, TypeOK
  <2>2. CASE PollEvents
    <3>1. /\ Pending' = Pending /\ accepted' = accepted /\ delivered' = delivered
          /\ arrived' = arrived
      BY <2>2, PendingKept DEF IInv, PollEvents
    <3> QED BY <2>1, <3>1, OrderKept DEF IInv
  <2>3. CASE Repost \/ NicDrop \/ UNCHANGED vars
    <3>1. /\ evs' = evs /\ evq' = evq /\ accepted' = accepted
          /\ delivered' = delivered /\ arrived' \in {arrived, arrived + 1}
      BY <2>3 DEF Repost, NicDrop, vars
    <3>2. Pending' = Pending
      BY <3>1 DEF Pending
    <3> QED BY <2>1, <3>1, <3>2, OrderKept DEF IInv
  <2>4. CASE PollDiscard
    BY <2>4, PollDiscardOrder
  <2>5. CASE PollDeliver
    BY <2>5, PollDeliverOrder
  <2>6. CASE NicFill("RX") \/ NicFill("RX_DISCARD")
    BY <2>6, NicFillOrder
  <2> QED BY <2>2, <2>3, <2>4, <2>5, <2>6 DEF Next, Poll, Nic
<1>2. OrderInv => DeliveredInOrder
  BY DEF OrderInv
<1> QED BY <1>1, <1>2, InitOrder, Inductive, PTL DEF Spec

-----------------------------------------------------------------------------
(* The sender (EfviUdpSender).                                             *)

(* The slot taken d calls ago.                                             *)
Back(d) == IF d <= next_slot THEN next_slot - d ELSE next_slot - d + TxSlots

(* SlotIds are taken round robin, so as long as no more than TxSlots calls   *)
(* have been made since, a frame's slot is known from its age, and not the *)
(* next one to be written.                                                 *)
Recent(f) ==
    /\ f \in Frame
    /\ f.call < calls
    /\ calls - f.call <= TxSlots => f.slot = Back(calls - f.call) /\ Intact(f)

TxInv == TxTypeOK /\ \A f \in InFlight : Recent(f)

LEMMA NextSlotTurns ==
    ASSUME next_slot \in SlotIds
    PROVE  /\ NextSlot \in SlotIds
           /\ NextSlot = IF next_slot + 1 = TxSlots THEN 0 ELSE next_slot + 1
BY SenderAssumption DEF NextSlot, SlotIds

LEMMA DmaIdTurns ==
    ASSUME next_dma_id \in 0 .. IdMod - 1
    PROVE  (next_dma_id + 1) % IdMod \in 0 .. IdMod - 1
BY SenderAssumption

LEMMA InitTxInv == TxInit => TxInv
<1> SUFFICES ASSUME TxInit PROVE TxInv
  OBVIOUS
<1>1. TxTypeOK
  BY SenderAssumption DEF TxInit, TxTypeOK, SlotIds, Data, Frame, Zero
<1>2. InFlight = {}
  BY DEF TxInit, InFlight
<1> QED BY <1>1, <1>2 DEF TxInv

(* Only SendWrite touches the slots and the count of calls; every other    *)
(* step keeps what is known of the frames still in flight.                 *)
LEMMA KeepsRecent ==
    ASSUME TxInv, TxTypeOK', InFlight' \subseteq InFlight,
           UNCHANGED <<slots, next_slot, calls>>
    PROVE  TxInv'
<1> SUFFICES ASSUME NEW f \in InFlight' PROVE Recent(f)'
  BY DEF TxInv
<1>1. Recent(f)
  BY DEF TxInv
<1> QED BY <1>1 DEF Recent, Intact, Back

LEMMA SendWriteStep == TxInv /\ SendWrite => TxInv'
<1> SUFFICES ASSUME TxInv, SendWrite PROVE TxInv'
  OBVIOUS
<1> USE SenderAssumption
<1>1. PICK len \in Lengths :
        /\ len <= MaxPayload
        /\ slots' = [slots EXCEPT ![next_slot] = Written(@, len, calls)]
        /\ sending' = [slot |-> next_slot, len |-> DataLen(len),
                       payload_len |-> len, call |-> calls]
  BY DEF SendWrite
<1>2. /\ next_slot \in SlotIds /\ next_slot' = NextSlot /\ calls \in Nat
      /\ calls' = calls + 1 /\ posted' = posted /\ len \in 0 .. MaxPayload
      /\ slots \in [SlotIds -> Data]
  BY <1>1 DEF SendWrite, TxInv, TxTypeOK
<1>3. DataLen(len) \in 0 .. MaxPayload
  BY <1>1, <1>2 DEF DataLen
<1>4. next_slot' \in SlotIds
      /\ next_slot' = IF next_slot + 1 = TxSlots THEN 0 ELSE next_slot + 1
  BY <1>2, NextSlotTurns
<1>5. slots' \in [SlotIds -> Data]
  <2>1. Written(slots[next_slot], len, calls) \in Data
    BY <1>2 DEF Written, Data, Zero
  <2> QED BY <1>1, <1>2, <2>1
<1>6. sending' \in Frame
  BY <1>1, <1>2, <1>3 DEF Frame
<1>7. TxTypeOK'
  BY <1>2, <1>4, <1>5, <1>6 DEF TxTypeOK, TxInv, SendWrite
<1>8. ASSUME NEW f \in InFlight' PROVE Recent(f)'
  <2>1. CASE f = sending'
    <3>1. f.slot = Back(calls - f.call)'
      BY <1>1, <1>2, <1>4, <2>1 DEF Back, SlotIds
    <3>2. Intact(f)'
      <4> SUFFICES ASSUME NEW k \in 1 .. f.len
                   PROVE  slots'[f.slot][k] = IF k <= f.payload_len THEN f.call
                                              ELSE Zero
        BY DEF Intact
      <4>1. /\ f.slot = next_slot /\ f.len = DataLen(len)
            /\ f.payload_len = len /\ f.call = calls
        BY <1>1, <2>1
      <4>2. slots'[next_slot] = Written(slots[next_slot], len, calls)
        BY <1>1, <1>2
      <4>3. k \in 1 .. MaxPayload /\ k <= DataLen(len)
        BY <1>3, <4>1
      <4> QED BY <1>2, <4>1, <4>2, <4>3 DEF Written
    <3>3. f.call < calls'
      BY <1>1, <1>2, <2>1
    <3> QED BY <1>6, <2>1, <3>1, <3>2, <3>3 DEF Recent
  <2>2. CASE f # sending'
    <3>1. f \in InFlight
      BY <1>2, <2>2 DEF InFlight
    <3>2. Recent(f)
      BY <3>1 DEF TxInv
    <3>3. f \in Frame /\ f.slot \in SlotIds /\ f.call \in Nat /\ f.call < calls
      BY <3>2 DEF Recent, Frame
    <3>4. CASE calls' - f.call <= TxSlots
      <4>1. f.slot = Back(calls - f.call) /\ Intact(f)
        BY <1>2, <3>2, <3>3, <3>4 DEF Recent
      <4>2. f.slot # next_slot
        BY <1>2, <3>3, <3>4, <4>1 DEF Back, SlotIds
      <4>3. Intact(f)'
        BY <1>1, <1>2, <3>3, <4>1, <4>2 DEF Intact
      <4>4. f.slot = Back(calls - f.call)'
        <5> DEFINE d == calls - f.call
        <5>1. d \in 1 .. TxSlots - 1 /\ calls' - f.call = d + 1
          BY <1>2, <3>3, <3>4
        <5>2. f.slot = IF d <= next_slot THEN next_slot - d
                       ELSE next_slot - d + TxSlots
          BY <4>1 DEF Back
        <5>3. f.slot = IF d + 1 <= next_slot' THEN next_slot' - (d + 1)
                       ELSE next_slot' - (d + 1) + TxSlots
          <6> HIDE DEF d
          <6>1. CASE next_slot + 1 = TxSlots
            BY <1>2, <1>4, <5>1, <5>2, <6>1 DEF SlotIds
          <6>2. CASE next_slot + 1 # TxSlots
            BY <1>2, <1>4, <5>1, <5>2, <6>2 DEF SlotIds
          <6> QED BY <6>1, <6>2
        <5> QED BY <5>1, <5>3 DEF Back
      <4> QED BY <1>2, <3>3, <4>3, <4>4 DEF Recent
    <3>5. CASE ~(calls' - f.call <= TxSlots)
      BY <1>2, <3>3, <3>5 DEF Recent
    <3> QED BY <3>4, <3>5
  <2> QED BY <2>1, <2>2
<1> QED BY <1>7, <1>8 DEF TxInv

LEMMA SendPostStep == TxInv /\ SendPost => TxInv'
<1> SUFFICES ASSUME TxInv, SendPost PROVE TxInv'
  OBVIOUS
<1>1. sending \in Frame /\ posted \in Seq(Frame)
  BY DEF TxInv, TxTypeOK, SendPost
<1>2. next_dma_id' \in 0 .. IdMod - 1
  BY DmaIdTurns DEF TxInv, TxTypeOK, SendPost
<1>3. CASE Len(posted) + completed < TxRing
  <2>1. posted' = Append(posted, sending) /\ rc' = 0 /\ sending' = Idle
    BY <1>3 DEF SendPost
  <2>2. TxTypeOK'
    BY <1>1, <1>2, <1>3, <2>1, SenderAssumption DEF TxInv, TxTypeOK, SendPost
  <2>3. InFlight' \subseteq InFlight
    <3> SUFFICES ASSUME NEW f \in InFlight' PROVE f \in InFlight
      OBVIOUS
    <3>1. PICK i \in DOMAIN posted' : f = posted'[i]
      BY <2>1 DEF InFlight
    <3>2. sending # Idle
      BY DEF SendPost
    <3>3. CASE i \in DOMAIN posted
      BY <1>1, <2>1, <3>1, <3>3 DEF InFlight
    <3>4. CASE i \notin DOMAIN posted
      BY <1>1, <2>1, <3>1, <3>2, <3>4 DEF InFlight
    <3> QED BY <3>3, <3>4
  <2> QED BY <2>2, <2>3, KeepsRecent DEF SendPost
<1>4. CASE ~(Len(posted) + completed < TxRing)
  <2>1. posted' = posted /\ rc' = -1 /\ sending' = Idle
    BY <1>4 DEF SendPost
  <2>2. TxTypeOK'
    BY <1>1, <1>2, <2>1 DEF TxInv, TxTypeOK, SendPost
  <2>3. InFlight' \subseteq InFlight
    BY <2>1 DEF InFlight
  <2> QED BY <2>2, <2>3, KeepsRecent DEF SendPost
<1> QED BY <1>3, <1>4

LEMMA NicTransmitStep == TxInv /\ NicTransmit => TxInv'
<1> SUFFICES ASSUME TxInv, NicTransmit PROVE TxInv'
  OBVIOUS
<1>1. posted \in Seq(Frame) /\ posted # <<>> /\ posted' = Tail(posted)
  BY DEF TxInv, TxTypeOK, NicTransmit
<1>2. /\ posted' \in Seq(Frame) /\ Len(posted') = Len(posted) - 1
      /\ \A i \in DOMAIN posted' : i + 1 \in DOMAIN posted /\ posted'[i] = posted[i + 1]
  BY <1>1
<1>3. TxTypeOK'
  BY <1>1, <1>2, SenderAssumption DEF TxInv, TxTypeOK, NicTransmit
<1>4. InFlight' \subseteq InFlight
  BY <1>2 DEF InFlight, NicTransmit
<1> QED BY <1>3, <1>4, KeepsRecent DEF NicTransmit

LEMMA OtherSteps == TxInv /\ (SendTooLong \/ ReapCompletions \/ UNCHANGED tx_vars) => TxInv'
<1>1. ASSUME TxInv, SendTooLong PROVE TxInv'
  <2>1. TxTypeOK' BY <1>1 DEF TxInv, TxTypeOK, SendTooLong
  <2>2. InFlight' \subseteq InFlight BY <1>1 DEF InFlight, SendTooLong
  <2> QED BY <1>1, <2>1, <2>2, KeepsRecent DEF SendTooLong
<1>2. ASSUME TxInv, ReapCompletions PROVE TxInv'
  <2>1. TxTypeOK' BY <1>2, SenderAssumption DEF TxInv, TxTypeOK, ReapCompletions
  <2>2. InFlight' \subseteq InFlight BY <1>2 DEF InFlight, ReapCompletions
  <2> QED BY <1>2, <2>1, <2>2, KeepsRecent DEF ReapCompletions
<1>3. ASSUME TxInv, UNCHANGED tx_vars PROVE TxInv'
  <2>1. TxTypeOK' BY <1>3 DEF TxInv, TxTypeOK, tx_vars
  <2>2. InFlight' \subseteq InFlight BY <1>3 DEF InFlight, tx_vars
  <2> QED BY <1>3, <2>1, <2>2, KeepsRecent DEF tx_vars
<1> QED BY <1>1, <1>2, <1>3

(* A frame in flight is where its age says, and intact for TxSlots calls.  *)
THEOREM TxInductive == TxSpec => []TxInv
<1>1. TxInv /\ [TxNext]_tx_vars => TxInv'
  BY SendWriteStep, SendPostStep, NicTransmitStep, OtherSteps DEF TxNext
<1> QED BY <1>1, InitTxInv, PTL DEF TxSpec

(* The sender's state is well typed: the ring is never overfilled.         *)
THEOREM TxTypeCorrect == TxSpec => []TxTypeOK
<1>1. TxInv => TxTypeOK BY DEF TxInv
<1> QED BY <1>1, TxInductive, PTL

(* A frame goes out as it was given for the next TxSlots - 1 calls.        *)
THEOREM SlotsProtect == TxSpec => []RingProtects
<1>1. TxInv => RingProtects BY DEF TxInv, RingProtects, Recent
<1> QED BY <1>1, TxInductive, PTL
=============================================================================
