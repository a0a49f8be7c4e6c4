----------------------------- MODULE UtilsProofs -----------------------------
(***************************************************************************)
(* Theorems about the data structures that the programs are built from:    *)
(* LFQueue and MemPool of src/utils/, and the pointer lists of a side of   *)
(* the book with the pool their orders come from.                          *)
(*                                                                         *)
(* For every ring size and every kind of consumer loop: as long as the     *)
(* producer is never a whole ring ahead, LFQueue is a FIFO queue without   *)
(* data races, and the guarded loops never run into the ASSERT of          *)
(* updateReadIndex.  For every size of a pool and whatever lies behind its *)
(* store: no block of the store has two holders.  For every set of prices  *)
(* and every size of the pool, when what lies behind the store looks free: *)
(* the lists of a side lead both ways and are those of SideOfBook.         *)
(***************************************************************************)
EXTENDS LFQueue, BookSide, SequencesExt, SequenceTheorems, WellFoundedInduction,
        TLAPS

(* The producer is never a whole ring ahead when it begins a write. *)
RoomAssumption == MaxBacklog < Size

(* The read and write index bound what was sent and not released; a write   *)
(* in progress leaves one more slot free.                                   *)
RingCount == /\ Popped >= 0
             /\ Pending = Len(sent) - Popped
             /\ ppc = "index" => Pending <= Size - 2

(* The slots between the indices hold the elements not yet released. *)
RingContents == \A k \in 0 .. Pending - 1 : store_[Slot(k)] = sent[Popped + 1 + k]

(* What the consumer's pointer means at each point of its loop. *)
PointerOK ==
    /\ cpc \in {"use", "index"} => ptr = next_read_index_ /\ Pending >= 1
    /\ cpc = "test" /\ ptr # nullptr => ptr = next_read_index_ /\ Pending >= 1
    /\ cpc \in {"count", "late"} =>
         /\ ptr \in Slots /\ next_read_index_ = Succ(ptr)
         /\ Len(taken) >= 1 /\ store_[ptr] = taken[Len(taken)]

(* How far the late copies are behind the first uses. *)
RelayCount ==
    /\ cpc = "late" => LateUse
    /\ LateUse /\ cpc \in {"peek", "test", "use"} => Len(relayed) = Len(taken)
    /\ LateUse /\ cpc \in {"index", "count", "late"} => Len(relayed) = Len(taken) - 1
    /\ ~LateUse => relayed = <<>>

(* num_elements_ lags behind the indices by the steps still to be taken. *)
CounterOK ==
    ~failed => num_elements_ = Pending + (IF cpc = "count" THEN 1 ELSE 0)
                                       - (IF ppc = "count" THEN 1 ELSE 0)

(* Only the consumer decrements: what it tested stays true. *)
GuardOK == Guarded => /\ ~failed
                      /\ cpc \in {"use", "index", "count"} => num_elements_ >= 1

Ring == /\ TypeOK /\ RingCount /\ RingContents /\ PointerOK
        /\ RelayCount /\ FifoOrder

IInv == Ring /\ CounterOK /\ GuardOK

-----------------------------------------------------------------------------
(* The successor of a slot, without the modulo (lock_free_queue.h:30, 39). *)
LEMMA SuccValue ==
    ASSUME NEW i \in Slots
    PROVE  Succ(i) = IF i + 1 = Size THEN 0 ELSE i + 1
  BY SizeAssumption, SMT DEF Succ, Slots

LEMMA InitIInv == Init => IInv
  <1> SUFFICES ASSUME Init PROVE IInv
    OBVIOUS
  <1> USE SizeAssumption, ValueAssumption
  <1>1. TypeOK
    <2>1. store_ \in [Slots -> Values \cup {NoValue}] /\ failed \in BOOLEAN
      BY Zenon DEF Init
    <2>2. 0 \in Slots
      BY DEF Slots
    <2> QED BY <2>1, <2>2 DEF Init, TypeOK, nullptr
  <1>2. Pending = 0 /\ Popped = 0
    BY DEF Init, Pending, Popped
  <1>3. RingCount /\ RingContents /\ PointerOK /\ RelayCount /\ FifoOrder
    BY <1>2 DEF Init, RingCount, RingContents, PointerOK, RelayCount, FifoOrder,
                InitialPart, nullptr
  <1>4. CounterOK /\ GuardOK
    BY <1>2 DEF Init, CounterOK, GuardOK
  <1> QED BY <1>1, <1>3, <1>4 DEF IInv, Ring

(* Filling the slot at the write index disturbs neither the pending slots   *)
(* nor the one the consumer has just released.                              *)
LEMMA WriteNextStep ==
    ASSUME RoomAssumption, IInv, NEW v \in Values, WriteNext(v)
    PROVE  IInv'
  <1> USE SizeAssumption, BoundAssumption
  <1>0. TypeOK /\ RingCount /\ RingContents /\ PointerOK /\ RelayCount
        /\ FifoOrder /\ CounterOK /\ GuardOK
    BY DEF IInv, Ring
  <1>1. Pending' = Pending /\ Popped' = Popped /\ \A k : Slot(k)' = Slot(k)
    BY DEF WriteNext, Pending, Popped, Slot
  <1>2. Pending \in 0 .. Size - 2 /\ Popped \in Nat
    <2>1. Len(sent) \in Nat /\ Len(taken) \in Nat
      BY <1>0 DEF TypeOK
    <2>2. Popped \in Nat
      BY <1>0, <2>1 DEF RingCount, Popped
    <2>3. Pending \in 0 .. Size - 1
      BY <1>0 DEF TypeOK, Slots, Pending
    <2>4. Pending < MaxBacklog
      BY <1>0 DEF WriteNext, RingCount
    <2> QED BY <2>2, <2>3, <2>4 DEF RoomAssumption
  <1>3. TypeOK'
    BY <1>0 DEF WriteNext, TypeOK
  <1>4. RingCount'
    BY <1>0, <1>1, <1>2 DEF WriteNext, RingCount
  <1>5. \A k \in 0 .. Pending - 1 : Slot(k) \in Slots /\ Slot(k) # next_write_index_
    BY <1>0, <1>2 DEF TypeOK, Slots, Slot, Pending
  <1>6. RingContents'
    BY <1>0, <1>1, <1>2, <1>5 DEF WriteNext, RingContents, TypeOK
  <1>7. ASSUME cpc \in {"count", "late"} PROVE ptr # next_write_index_
    <2>1. ptr \in Slots /\ next_read_index_ = IF ptr + 1 = Size THEN 0 ELSE ptr + 1
      BY <1>0, <1>7, SuccValue DEF PointerOK
    <2> QED BY <1>0, <1>2, <2>1 DEF TypeOK, Slots, Pending
  <1>8. PointerOK'
    BY <1>0, <1>1, <1>7 DEF WriteNext, PointerOK, TypeOK, Slots, Succ
  <1>9. RelayCount' /\ FifoOrder' /\ CounterOK' /\ GuardOK'
    BY <1>0, <1>1 DEF WriteNext, RelayCount, FifoOrder, InitialPart, CounterOK, GuardOK
  <1> QED BY <1>3, <1>4, <1>6, <1>8, <1>9 DEF IInv, Ring

(* Advancing the write index makes exactly the filled slot visible. *)
LEMMA UpdateWriteIndexStep ==
    ASSUME IInv, UpdateWriteIndex
    PROVE  IInv'
  <1> USE SizeAssumption
  <1>0. TypeOK /\ RingCount /\ RingContents /\ PointerOK /\ RelayCount
        /\ FifoOrder /\ CounterOK /\ GuardOK
    BY DEF IInv, Ring
  <1>1. next_write_index_' = IF next_write_index_ + 1 = Size THEN 0 ELSE next_write_index_ + 1
    BY <1>0, SuccValue DEF UpdateWriteIndex, TypeOK
  <1>2. Popped' = Popped /\ Popped \in Nat /\ \A k : Slot(k)' = Slot(k)
    BY <1>0 DEF UpdateWriteIndex, Popped, Slot, TypeOK, RingCount
  <1>3. Pending \in 0 .. Size - 2 /\ Pending' = Pending + 1
    BY <1>0, <1>1 DEF UpdateWriteIndex, TypeOK, RingCount, Pending, Slots
  <1>4. next_write_index_ = Slot(Pending)
    BY <1>0, <1>3 DEF TypeOK, Slots, Pending, Slot
  <1>5. TypeOK'
    <2>1. next_write_index_' \in Slots
      BY <1>0, <1>1 DEF TypeOK, Slots
    <2>2. store_[next_write_index_] \in Values \cup {NoValue}
      BY <1>0 DEF TypeOK
    <2> QED BY <1>0, <2>1, <2>2 DEF UpdateWriteIndex, TypeOK
  <1>6. sent' = Append(sent, store_[next_write_index_]) /\ Len(sent') = Len(sent) + 1
        /\ sent'[Len(sent) + 1] = store_[next_write_index_]
        /\ \A i \in 1 .. Len(sent) : sent'[i] = sent[i]
    BY <1>0 DEF UpdateWriteIndex, TypeOK
  <1>7. RingCount'
    BY <1>0, <1>2, <1>3, <1>6 DEF UpdateWriteIndex, RingCount, TypeOK
  <1>8. RingContents'
    <2>0. 0 .. Pending' - 1 = 0 .. Pending
      BY <1>3
    <2> SUFFICES ASSUME NEW k \in 0 .. Pending
                 PROVE  store_[Slot(k)] = sent'[Popped + 1 + k]
      BY <1>2, <2>0 DEF RingContents, UpdateWriteIndex
    <2>1. CASE k = Pending
      <3>1. Popped + 1 + k = Len(sent) + 1
        BY <2>1, <1>0, <1>2, <1>3 DEF RingCount, TypeOK
      <3> QED BY <2>1, <3>1, <1>4, <1>6
    <2>2. CASE k \in 0 .. Pending - 1
      <3>1. store_[Slot(k)] = sent[Popped + 1 + k]
        BY <1>0, <2>2 DEF RingContents
      <3>2. Popped + 1 + k \in 1 .. Len(sent)
        BY <1>0, <1>2, <2>2 DEF RingCount, TypeOK
      <3> QED BY <1>6, <3>1, <3>2
    <2>3. k = Pending \/ k \in 0 .. Pending - 1
      BY <1>3
    <2> QED BY <2>1, <2>2, <2>3
  <1>9. PointerOK'
    BY <1>0, <1>3 DEF UpdateWriteIndex, PointerOK, TypeOK, Succ
  <1>10. FifoOrder'
    BY <1>0, <1>6 DEF UpdateWriteIndex, FifoOrder, InitialPart, TypeOK
  <1>11. RelayCount' /\ CounterOK' /\ GuardOK'
    BY <1>0, <1>3 DEF UpdateWriteIndex, RelayCount, CounterOK, GuardOK, TypeOK
  <1> QED BY <1>5, <1>7, <1>8, <1>9, <1>10, <1>11 DEF IInv, Ring

LEMMA IncrementStep ==
    ASSUME IInv, IncrementNumElements
    PROVE  IInv'
  <1>0. TypeOK /\ RingCount /\ RingContents /\ PointerOK /\ RelayCount
        /\ FifoOrder /\ CounterOK /\ GuardOK
    BY DEF IInv, Ring
  <1>1. Pending' = Pending /\ Popped' = Popped /\ \A k : Slot(k)' = Slot(k)
    BY DEF IncrementNumElements, Pending, Popped, Slot
  <1>2. TypeOK' /\ RingCount' /\ RelayCount' /\ FifoOrder'
    BY <1>0, <1>1 DEF IncrementNumElements, TypeOK, RingCount, RelayCount,
                      FifoOrder, InitialPart
  <1>3. RingContents' /\ PointerOK'
    BY <1>0, <1>1 DEF IncrementNumElements, RingContents, PointerOK, Succ, Slots
  <1>4. CounterOK' /\ GuardOK'
    <2>1. Pending \in Int
      BY <1>0, SizeAssumption DEF TypeOK, Pending, Slots
    <2>2. CounterOK'
      BY <1>0, <1>1, <2>1 DEF IncrementNumElements, CounterOK, TypeOK
    <2>3. GuardOK'
      BY <1>0 DEF IncrementNumElements, GuardOK, TypeOK
    <2> QED BY <2>2, <2>3
  <1> QED BY <1>2, <1>3, <1>4 DEF IInv, Ring

LEMMA GetNextToReadStep ==
    ASSUME IInv, GetNextToRead
    PROVE  IInv'
  <1> USE SizeAssumption
  <1>0. TypeOK /\ RingCount /\ RingContents /\ PointerOK /\ RelayCount
        /\ FifoOrder /\ CounterOK /\ GuardOK
    BY DEF IInv, Ring
  <1>1. Pending' = Pending /\ Popped' = Popped /\ \A k : Slot(k)' = Slot(k)
    BY DEF GetNextToRead, Pending, Popped, Slot
  <1>2. TypeOK' /\ RingCount' /\ RelayCount' /\ FifoOrder'
    BY <1>0, <1>1 DEF GetNextToRead, TypeOK, RingCount, RelayCount, FifoOrder, InitialPart
  <1>3. next_read_index_ # next_write_index_ => Pending >= 1
    BY <1>0 DEF TypeOK, Slots, Pending
  <1>4. RingContents' /\ PointerOK'
    BY <1>0, <1>1, <1>3 DEF GetNextToRead, RingContents, PointerOK
  <1>5. CounterOK' /\ GuardOK'
    BY <1>0, <1>1 DEF GetNextToRead, CounterOK, GuardOK
  <1> QED BY <1>2, <1>4, <1>5 DEF IInv, Ring

LEMMA TestLoopStep ==
    ASSUME IInv, TestLoop
    PROVE  IInv'
  <1>0. TypeOK /\ RingCount /\ RingContents /\ PointerOK /\ RelayCount
        /\ FifoOrder /\ CounterOK /\ GuardOK
    BY DEF IInv, Ring
  <1>1. Pending' = Pending /\ Popped' = Popped /\ \A k : Slot(k)' = Slot(k)
    BY DEF TestLoop, Pending, Popped, Slot
  <1>2. TypeOK' /\ RingCount' /\ RelayCount' /\ FifoOrder'
    BY <1>0, <1>1 DEF TestLoop, TypeOK, RingCount, RelayCount, FifoOrder, InitialPart
  <1>3. RingContents' /\ PointerOK'
    BY <1>0, <1>1 DEF TestLoop, RingContents, PointerOK
  <1>4. CounterOK' /\ GuardOK'
    BY <1>0, <1>1 DEF TestLoop, CounterOK, GuardOK, TypeOK
  <1> QED BY <1>2, <1>3, <1>4 DEF IInv, Ring

(* The consumer reads the oldest element not released. *)
LEMMA UseStep ==
    ASSUME IInv, Use
    PROVE  IInv'
  <1> USE SizeAssumption
  <1>0. TypeOK /\ RingCount /\ RingContents /\ PointerOK /\ RelayCount
        /\ FifoOrder /\ CounterOK /\ GuardOK
    BY DEF IInv, Ring
  <1>1. Len(sent) \in Nat /\ Len(taken) \in Nat /\ Popped = Len(taken)
    BY <1>0 DEF Use, TypeOK, Popped
  <1>2. ptr = next_read_index_ /\ ptr \in Slots /\ Pending >= 1 /\ Pending \in Int
    BY <1>0 DEF Use, PointerOK, TypeOK, Pending, Slots
  <1>3. store_[ptr] \in Values \cup {NoValue}
    BY <1>0, <1>2 DEF TypeOK
  <1>4. taken' = Append(taken, store_[ptr]) /\ taken' \in Seq(Values \cup {NoValue})
        /\ Len(taken') = Len(taken) + 1 /\ taken'[Len(taken) + 1] = store_[ptr]
        /\ \A i \in 1 .. Len(taken) : taken'[i] = taken[i]
    BY <1>0, <1>3 DEF Use, TypeOK
  <1>5. Pending' = Pending /\ Popped' = Popped /\ \A k : Slot(k)' = Slot(k)
    <2>1. Popped' = Popped
      BY <1>1, <1>4 DEF Use, Popped
    <2> QED BY <2>1 DEF Use, Pending, Slot
  <1>6. store_[ptr] = sent[Len(taken) + 1] /\ Len(taken) + 1 <= Len(sent)
    <2>1. Slot(0) = next_read_index_
      BY <1>0 DEF TypeOK, Slots, Slot
    <2>2. 0 \in 0 .. Pending - 1
      BY <1>2
    <2>3. store_[Slot(0)] = sent[Popped + 1 + 0]
      BY <1>0, <2>2 DEF RingContents
    <2> QED BY <1>0, <1>1, <1>2, <2>1, <2>3 DEF RingCount
  <1>7. TypeOK' /\ RingCount'
    BY <1>0, <1>4, <1>5 DEF Use, TypeOK, RingCount
  <1>8. RingContents' /\ PointerOK'
    BY <1>0, <1>2, <1>5 DEF Use, RingContents, PointerOK
  <1>9. InitialPart(taken, sent)'
    BY <1>0, <1>1, <1>4, <1>6 DEF Use, FifoOrder, InitialPart
  <1>10. InitialPart(relayed, taken)'
    BY <1>0, <1>1, <1>4 DEF Use, FifoOrder, InitialPart, TypeOK
  <1>11. RelayCount' /\ CounterOK' /\ GuardOK'
    BY <1>0, <1>1, <1>4, <1>5 DEF Use, RelayCount, CounterOK, GuardOK
  <1> QED BY <1>7, <1>8, <1>9, <1>10, <1>11 DEF IInv, Ring, FifoOrder

(* Releasing the slot shifts the window of pending slots by one. *)
LEMMA UpdateReadIndexStep ==
    ASSUME IInv, UpdateReadIndex
    PROVE  IInv'
  <1> USE SizeAssumption
  <1>0. TypeOK /\ RingCount /\ RingContents /\ PointerOK /\ RelayCount
        /\ FifoOrder /\ CounterOK /\ GuardOK
    BY DEF IInv, Ring
  <1>1. next_read_index_' = IF next_read_index_ + 1 = Size THEN 0 ELSE next_read_index_ + 1
    BY <1>0, SuccValue DEF UpdateReadIndex, TypeOK
  <1>2. Len(sent) \in Nat /\ Len(taken) \in Nat /\ Len(taken) >= 1
        /\ Popped = Len(taken) - 1 /\ Popped' = Len(taken) /\ Popped' = Popped + 1
    BY <1>0 DEF UpdateReadIndex, TypeOK, Popped, RingCount
  <1>3. ptr = next_read_index_ /\ ptr \in Slots /\ Pending \in 1 .. Size - 1
    BY <1>0 DEF UpdateReadIndex, PointerOK, TypeOK, Pending, Slots
  <1>4. Pending' = Pending - 1
    BY <1>0, <1>1, <1>3 DEF UpdateReadIndex, TypeOK, Pending, Slots
  <1>5. \A k \in 0 .. Pending' - 1 : Slot(k)' = Slot(k + 1)
    BY <1>0, <1>1, <1>3, <1>4 DEF UpdateReadIndex, TypeOK, Slot, Slots
  <1>6. TypeOK'
    <2>1. next_read_index_' \in Slots
      BY <1>0, <1>1 DEF TypeOK, Slots
    <2> QED BY <1>0, <2>1 DEF UpdateReadIndex, TypeOK
  <1>7. RingCount'
    BY <1>0, <1>2, <1>3, <1>4 DEF UpdateReadIndex, RingCount
  <1>8. RingContents'
    <2> SUFFICES ASSUME NEW k \in 0 .. Pending' - 1
                 PROVE  store_[Slot(k + 1)] = sent[Popped' + 1 + k]
      BY <1>5 DEF RingContents, UpdateReadIndex
    <2>1. k + 1 \in 0 .. Pending - 1
      BY <1>3, <1>4
    <2>2. store_[Slot(k + 1)] = sent[Popped + 1 + (k + 1)]
      BY <1>0, <2>1 DEF RingContents
    <2> QED BY <1>2, <2>2
  <1>9. store_[ptr] = taken[Len(taken)]
    <2>1. Slot(0) = ptr
      BY <1>0, <1>3 DEF TypeOK, Slots, Slot
    <2>2. 0 \in 0 .. Pending - 1
      BY <1>3
    <2>3. store_[Slot(0)] = sent[Popped + 1 + 0]
      BY <1>0, <2>2 DEF RingContents
    <2> QED BY <1>0, <1>2, <2>1, <2>3 DEF FifoOrder, InitialPart
  <1>10. PointerOK'
    BY <1>0, <1>2, <1>3, <1>9 DEF UpdateReadIndex, PointerOK, Succ, Slots
  <1>11. RelayCount' /\ FifoOrder'
    BY <1>0, <1>2 DEF UpdateReadIndex, RelayCount, FifoOrder, InitialPart
  <1>12. CounterOK' /\ GuardOK'
    BY <1>0, <1>3, <1>4 DEF UpdateReadIndex, CounterOK, GuardOK, TypeOK
  <1> QED BY <1>6, <1>7, <1>8, <1>10, <1>11, <1>12 DEF IInv, Ring

LEMMA DecrementStep ==
    ASSUME IInv, DecrementNumElements
    PROVE  IInv'
  <1> USE LoopAssumption
  <1>0. TypeOK /\ RingCount /\ RingContents /\ PointerOK /\ RelayCount
        /\ FifoOrder /\ CounterOK /\ GuardOK
    BY DEF IInv, Ring
  <1>1. Pending' = Pending /\ Popped' = Popped /\ \A k : Slot(k)' = Slot(k)
    BY DEF DecrementNumElements, Pending, Popped, Slot
  <1>2. failed' \in BOOLEAN /\ num_elements_' \in Nat
    BY <1>0 DEF DecrementNumElements, TypeOK
  <1>3. TypeOK' /\ RingCount'
    BY <1>0, <1>1, <1>2 DEF DecrementNumElements, TypeOK, RingCount
  <1>4. RelayCount' /\ FifoOrder'
    BY <1>0 DEF DecrementNumElements, RelayCount, FifoOrder, InitialPart, TypeOK
  <1>5. RingContents' /\ PointerOK'
    BY <1>0, <1>1 DEF DecrementNumElements, RingContents, PointerOK, Succ, Slots
  <1>6. CounterOK' /\ GuardOK'
    <2>1. Pending \in Int
      BY <1>0, SizeAssumption DEF TypeOK, Pending, Slots
    <2>2. CounterOK'
      <3>1. CASE num_elements_ = 0
        BY <3>1, Zenon DEF DecrementNumElements, CounterOK
      <3>2. CASE num_elements_ # 0
        <4>1. num_elements_' = num_elements_ - 1 /\ cpc' \in {"late", "peek"} /\ ppc' = ppc
          BY <3>2 DEF DecrementNumElements
        <4>2. num_elements_ = Pending + 1 - (IF ppc = "count" THEN 1 ELSE 0)
          BY <1>0 DEF CounterOK, DecrementNumElements
        <4> QED BY <1>0, <1>1, <2>1, <4>1, <4>2 DEF CounterOK, TypeOK
      <3> QED BY <3>1, <3>2
    <2>3. GuardOK'
      <3>1. CASE Guarded
        <4>1. num_elements_ >= 1 /\ failed' = FALSE /\ cpc' \in {"late", "peek"}
          BY <1>0, <3>1 DEF DecrementNumElements, GuardOK, TypeOK
        <4> QED BY <4>1 DEF GuardOK
      <3> QED BY <3>1 DEF GuardOK
    <2> QED BY <2>2, <2>3
  <1> QED BY <1>3, <1>4, <1>5, <1>6 DEF IInv, Ring

(* The copy made after the release is still the element taken before it. *)
LEMMA UseAfterReleaseStep ==
    ASSUME IInv, UseAfterRelease
    PROVE  IInv'
  <1>0. TypeOK /\ RingCount /\ RingContents /\ PointerOK /\ RelayCount
        /\ FifoOrder /\ CounterOK /\ GuardOK
    BY DEF IInv, Ring
  <1>1. Pending' = Pending /\ Popped' = Popped /\ \A k : Slot(k)' = Slot(k)
    BY DEF UseAfterRelease, Pending, Popped, Slot
  <1>2. LateUse /\ ptr \in Slots /\ store_[ptr] = taken[Len(taken)]
        /\ Len(taken) \in Nat /\ Len(relayed) = Len(taken) - 1
    BY <1>0 DEF UseAfterRelease, PointerOK, RelayCount, TypeOK
  <1>3. store_[ptr] \in Values \cup {NoValue}
    BY <1>0, <1>2 DEF TypeOK
  <1>4. relayed' = Append(relayed, store_[ptr]) /\ relayed' \in Seq(Values \cup {NoValue})
        /\ Len(relayed') = Len(relayed) + 1 /\ relayed'[Len(relayed) + 1] = store_[ptr]
        /\ \A i \in 1 .. Len(relayed) : relayed'[i] = relayed[i]
    BY <1>0, <1>3 DEF UseAfterRelease, TypeOK
  <1>5. TypeOK' /\ RingCount'
    BY <1>0, <1>1, <1>4 DEF UseAfterRelease, TypeOK, RingCount
  <1>6. RingContents' /\ PointerOK'
    BY <1>0, <1>1 DEF UseAfterRelease, RingContents, PointerOK
  <1>7. FifoOrder'
    BY <1>0, <1>2, <1>4 DEF UseAfterRelease, FifoOrder, InitialPart, TypeOK
  <1>8. RelayCount' /\ CounterOK' /\ GuardOK'
    BY <1>0, <1>1, <1>2, <1>4 DEF UseAfterRelease, RelayCount, CounterOK, GuardOK
  <1> QED BY <1>5, <1>6, <1>7, <1>8 DEF IInv, Ring

LEMMA StutterStep ==
    ASSUME IInv, UNCHANGED vars
    PROVE  IInv'
  <1>1. Pending' = Pending /\ Popped' = Popped /\ \A k : Slot(k)' = Slot(k)
    BY DEF vars, Pending, Popped, Slot
  <1> QED BY <1>1 DEF vars, IInv, Ring, TypeOK, RingCount, RingContents, PointerOK,
                      RelayCount, FifoOrder, InitialPart, CounterOK, GuardOK, Succ, Slots

LEMMA IInvInductive == RoomAssumption => (Spec => []IInv)
  <1> SUFFICES ASSUME RoomAssumption PROVE Spec => []IInv
    OBVIOUS
  <1>1. IInv /\ [Next]_vars => IInv'
    BY WriteNextStep, UpdateWriteIndexStep, IncrementStep, GetNextToReadStep,
       TestLoopStep, UseStep, UpdateReadIndexStep, DecrementStep,
       UseAfterReleaseStep, StutterStep
       DEF Next, Producer, Consumer
  <1> QED BY InitIInv, <1>1, PTL DEF Spec
-----------------------------------------------------------------------------
(* Type correctness of the ring under its access discipline. *)
THEOREM TypeCorrect == RoomAssumption => (Spec => []TypeOK)
  <1>1. IInv => TypeOK
    BY DEF IInv, Ring
  <1> QED BY IInvInductive, <1>1, PTL

(* Whatever the size of the ring and the kind of loop, the consumer takes   *)
(* every element once and in order, and a copy made after updateReadIndex   *)
(* is the same element.                                                     *)
THEOREM TakesInOrder == RoomAssumption => (Spec => []FifoOrder)
  <1>1. IInv => FifoOrder
    BY DEF IInv, Ring
  <1> QED BY IInvInductive, <1>1, PTL

(* The producer never fills the slot a consumer is reading. *)
THEOREM RaceFree == RoomAssumption => (Spec => []NoDataRace)
  <1>1. IInv => NoDataRace
    <2> SUFFICES ASSUME IInv, ppc = "index", cpc \in {"use", "late"}
                 PROVE  ptr # next_write_index_
      BY DEF NoDataRace
    <2> USE SizeAssumption
    <2>0. TypeOK /\ RingCount /\ PointerOK
      BY DEF IInv, Ring
    <2>1. CASE cpc = "use"
      BY <2>0, <2>1 DEF TypeOK, PointerOK, Pending, Slots
    <2>2. CASE cpc = "late"
      <3>1. ptr \in Slots /\ next_read_index_ = IF ptr + 1 = Size THEN 0 ELSE ptr + 1
        BY <2>0, <2>2, SuccValue DEF PointerOK
      <3>2. Pending \in 0 .. Size - 2
        BY <2>0 DEF TypeOK, RingCount, Pending, Slots
      <3> QED BY <2>0, <3>1, <3>2 DEF TypeOK, Pending, Slots
    <2> QED BY <2>1, <2>2
  <1> QED BY IInvInductive, <1>1, PTL

(* A loop that tests size() as well never trips the ASSERT of               *)
(* lock_free_queue.h:40.                                                    *)
THEOREM GuardedReadIsValid == RoomAssumption /\ Guarded => (Spec => []ReadIsValid)
  <1> SUFFICES ASSUME RoomAssumption, Guarded PROVE Spec => []ReadIsValid
    OBVIOUS
  <1>1. IInv => ReadIsValid
    BY DEF IInv, GuardOK, ReadIsValid
  <1> QED BY IInvInductive, <1>1, PTL
-----------------------------------------------------------------------------
(* The two queues of the refinement mapping. *)
Visible == [k \in 1 .. Pending |-> store_[Slot(k - 1)]]
Released == SubSeq(taken, 1, Popped)

Elements == Values \cup {NoValue}

(* The visible slots, read from the read index on, form a sequence. *)
LEMMA VisibleIsSeq ==
    ASSUME TypeOK
    PROVE  /\ Pending \in 0 .. Size - 1
           /\ \A k \in 1 .. Pending : Slot(k - 1) \in Slots
           /\ Visible \in Seq(Elements) /\ Len(Visible) = Pending
  <1>1. Pending \in 0 .. Size - 1 /\ Pending \in Nat
    BY SizeAssumption DEF TypeOK, Slots, Pending
  <1>2. \A k \in 1 .. Pending : Slot(k - 1) \in Slots
    BY <1>1, SizeAssumption DEF TypeOK, Slots, Slot
  <1>3. Visible \in [1 .. Pending -> Elements]
    BY <1>1, <1>2 DEF TypeOK, Visible, Elements
  <1>4. Visible \in Seq(Elements)
    BY <1>1, <1>3, SeqDef
  <1>5. DOMAIN Visible = 1 .. Pending
    BY DEF Visible
  <1>6. Len(Visible) \in Nat /\ DOMAIN Visible = 1 .. Len(Visible)
    BY <1>4, LenProperties
  <1>7. Len(Visible) = Pending
    BY <1>1, <1>5, <1>6
  <1> QED BY <1>1, <1>2, <1>4, <1>7

(* So do the elements whose slot was given back. *)
LEMMA ReleasedIsSeq ==
    ASSUME TypeOK, RingCount
    PROVE  /\ Popped \in 0 .. Len(taken) /\ Released \in Seq(Elements)
           /\ Len(Released) = Popped /\ \A i \in 1 .. Popped : Released[i] = taken[i]
  <1>1. Len(taken) \in Nat /\ Popped \in 0 .. Len(taken)
    BY DEF TypeOK, RingCount, Popped
  <1>2. \A i \in 1 .. Popped : taken[i] \in Elements
    BY <1>1, ElementOfSeq DEF TypeOK, Elements
  <1>3. /\ SubSeq(taken, 1, Popped) \in Seq(Elements)
        /\ Len(SubSeq(taken, 1, Popped)) = IF 1 <= Popped THEN Popped - 1 + 1 ELSE 0
        /\ \A i \in 1 .. Popped - 1 + 1 : SubSeq(taken, 1, Popped)[i] = taken[1 + i - 1]
    BY <1>1, <1>2, SubSeqProperties
  <1> QED BY <1>1, <1>3 DEF Released

(* Steps that neither move an index nor touch a visible slot. *)
LEMMA Unseen ==
    ASSUME TypeOK, TypeOK', RingCount, RingCount', Pending' = Pending, Popped' = Popped,
           \A k \in 1 .. Pending : store_'[Slot(k - 1)'] = store_[Slot(k - 1)],
           \A i \in 1 .. Popped : taken'[i] = taken[i]
    PROVE  UNCHANGED <<Visible, Released>>
  <1>1. Visible' = Visible
    BY DEF Visible
  <1>2. Released' = Released
    <2>1. Released \in Seq(Elements) /\ Len(Released) = Popped
          /\ \A i \in 1 .. Popped : Released[i] = taken[i]
      BY ReleasedIsSeq
    <2>2. (Popped \in 0 .. Len(taken) /\ Released \in Seq(Elements)
          /\ Len(Released) = Popped /\ \A i \in 1 .. Popped : Released[i] = taken[i])'
      BY ReleasedIsSeq, PTL
    <2>3. Released' \in Seq(Elements) /\ Len(Released') = Popped
          /\ \A i \in 1 .. Popped : Released'[i] = taken[i]
      BY <2>2 DEF Elements
    <2> QED BY <2>1, <2>3, SeqEqual
  <1> QED BY <1>1, <1>2

(* Moving the write index is the Put of the element written before it. *)
LEMMA UpdateWriteIndexPuts ==
    ASSUME IInv, IInv', UpdateWriteIndex
    PROVE  /\ store_[next_write_index_] \in Elements
           /\ Visible' = Append(Visible, store_[next_write_index_])
           /\ Released' = Released
  <1> USE SizeAssumption
  <1>0. TypeOK /\ RingCount
    BY DEF IInv, Ring
  <1>p. TypeOK' /\ RingCount'
    BY DEF IInv, Ring
  <1>1. next_write_index_' = IF next_write_index_ + 1 = Size THEN 0 ELSE next_write_index_ + 1
    BY <1>0, SuccValue DEF UpdateWriteIndex, TypeOK
  <1>2. Popped' = Popped /\ \A k : Slot(k)' = Slot(k)
    BY DEF UpdateWriteIndex, Popped, Slot
  <1>3. Pending \in 0 .. Size - 2 /\ Pending' = Pending + 1
    BY <1>0, <1>1 DEF UpdateWriteIndex, TypeOK, RingCount, Pending, Slots
  <1>4. next_write_index_ = Slot(Pending)
    BY <1>0, <1>3 DEF TypeOK, Slots, Pending, Slot
  <1>5. PICK e \in Elements : e = store_[next_write_index_]
    BY <1>0 DEF TypeOK, Elements
  <1>6. Visible \in Seq(Elements) /\ Len(Visible) = Pending
    BY <1>0, VisibleIsSeq
  <1>7. Visible' \in Seq(Elements) /\ Len(Visible') = Pending'
    <2>1. (Visible \in Seq(Elements) /\ Len(Visible) = Pending)'
      BY <1>p, VisibleIsSeq, PTL
    <2> QED BY <2>1 DEF Elements
  <1>8. PICK longer : longer = Append(Visible, e)
    OBVIOUS
  <1>9. /\ longer \in Seq(Elements) /\ Len(longer) = Pending + 1
        /\ \A i \in 1 .. Pending : longer[i] = Visible[i]
        /\ longer[Pending + 1] = e
    BY <1>5, <1>6, <1>8, AppendProperties
  <1>10. \A i \in 1 .. Pending + 1 : Visible'[i] = longer[i]
    <2> TAKE i \in 1 .. Pending + 1
    <2>1. Visible'[i] = store_[Slot(i - 1)]
      BY <1>2, <1>3 DEF Visible, UpdateWriteIndex
    <2>2. CASE i \in 1 .. Pending
      BY <1>9, <2>1, <2>2 DEF Visible
    <2>3. CASE i = Pending + 1
      <3>1. i - 1 = Pending
        BY <1>3, <2>3
      <3> QED BY <1>4, <1>5, <1>9, <2>1, <2>3, <3>1
    <2> QED BY <1>3, <2>2, <2>3
  <1>11. Visible' = longer
    BY <1>3, <1>7, <1>9, <1>10, SeqEqual
  <1>12. Released' = Released
    BY <1>2 DEF UpdateWriteIndex, Released
  <1> QED BY <1>5, <1>8, <1>11, <1>12

(* Moving the read index is the Get of the element used before it. *)
LEMMA UpdateReadIndexGets ==
    ASSUME IInv, IInv', UpdateReadIndex
    PROVE  /\ Visible # <<>>
           /\ Visible' = Tail(Visible)
           /\ Released' = Append(Released, Head(Visible))
  <1> USE SizeAssumption
  <1>0. TypeOK /\ RingCount /\ RingContents /\ PointerOK /\ FifoOrder
    BY DEF IInv, Ring
  <1>p. TypeOK' /\ RingCount' /\ PointerOK'
    BY DEF IInv, Ring
  <1>1. next_read_index_' = IF next_read_index_ + 1 = Size THEN 0 ELSE next_read_index_ + 1
    BY <1>0, SuccValue DEF UpdateReadIndex, TypeOK
  <1>2. Len(taken) \in Nat /\ Len(taken) >= 1 /\ Popped = Len(taken) - 1 /\ Popped' = Len(taken)
    BY <1>0 DEF UpdateReadIndex, TypeOK, Popped, RingCount
  <1>3. ptr = next_read_index_ /\ ptr \in Slots /\ Pending \in 1 .. Size - 1
    BY <1>0 DEF UpdateReadIndex, PointerOK, TypeOK, Pending, Slots
  <1>4. Pending' = Pending - 1
    BY <1>0, <1>1, <1>3 DEF UpdateReadIndex, TypeOK, Pending, Slots
  <1>5. \A k \in 0 .. Pending' - 1 : Slot(k)' = Slot(k + 1)
    BY <1>0, <1>1, <1>3, <1>4 DEF UpdateReadIndex, TypeOK, Slot, Slots
  <1>6. Visible \in Seq(Elements) /\ Len(Visible) = Pending
    BY <1>0, VisibleIsSeq
  <1>7. Visible' \in Seq(Elements) /\ Len(Visible') = Pending'
    <2>1. (Visible \in Seq(Elements) /\ Len(Visible) = Pending)'
      BY <1>p, VisibleIsSeq, PTL
    <2> QED BY <2>1 DEF Elements
  <1>8. Visible # <<>>
    BY <1>3, <1>6, EmptySeq
  <1>9. PICK rest : rest = Tail(Visible)
    OBVIOUS
  <1>10. /\ rest \in Seq(Elements) /\ Len(rest) = Pending - 1
         /\ \A i \in 1 .. Pending - 1 : rest[i] = Visible[i + 1]
    BY <1>6, <1>8, <1>9, HeadTailProperties
  <1>11. \A i \in 1 .. Pending - 1 : Visible'[i] = rest[i]
    <2> TAKE i \in 1 .. Pending - 1
    <2>1. i \in 1 .. Pending' /\ i - 1 \in 0 .. Pending' - 1 /\ (i - 1) + 1 = i
      BY <1>3, <1>4
    <2>2. Visible'[i] = store_'[Slot(i - 1)']
      BY <2>1 DEF Visible
    <2>3. Slot(i - 1)' = Slot(i)
      BY <1>5, <2>1
    <2>4. i + 1 \in 1 .. Pending /\ (i + 1) - 1 = i
      BY <1>3
    <2>5. Visible[i + 1] = store_[Slot(i)]
      BY <2>4 DEF Visible
    <2> QED BY <1>10, <2>2, <2>3, <2>5 DEF UpdateReadIndex
  <1>12. Visible' = rest
    BY <1>3, <1>4, <1>7, <1>10, <1>11, SeqEqual
  <1>13. Head(Visible) = Visible[1]
    BY <1>6, <1>8
  <1>14. Visible[1] = taken[Len(taken)]
    <2>1. Slot(0) = ptr
      BY <1>0, <1>3 DEF TypeOK, Slots, Slot
    <2>2. 1 \in 1 .. Pending /\ 1 - 1 = 0
      BY <1>3
    <2>3. Visible[1] = store_[ptr]
      BY <2>1, <2>2 DEF Visible
    <2>4. ptr' = ptr /\ store_' = store_ /\ taken' = taken /\ cpc' = "count"
      BY DEF UpdateReadIndex
    <2>5. store_[ptr] = taken[Len(taken)]
      BY <1>p, <2>4 DEF PointerOK
    <2> QED BY <2>3, <2>5
  <1>15. PICK e \in Elements : e = taken[Len(taken)]
    BY <1>0, <1>2, ElementOfSeq DEF TypeOK, Elements
  <1>16. /\ Released \in Seq(Elements) /\ Len(Released) = Popped
         /\ \A i \in 1 .. Popped : Released[i] = taken[i]
    BY <1>0, ReleasedIsSeq
  <1>17. /\ Released' \in Seq(Elements) /\ Len(Released') = Popped'
         /\ \A i \in 1 .. Popped' : Released'[i] = taken[i]
    <2>1. (/\ Released \in Seq(Elements) /\ Len(Released) = Popped
           /\ \A i \in 1 .. Popped : Released[i] = taken[i])'
      BY <1>p, ReleasedIsSeq, PTL
    <2> QED BY <2>1 DEF Elements, UpdateReadIndex
  <1>18. PICK longer : longer = Append(Released, e)
    OBVIOUS
  <1>19. /\ longer \in Seq(Elements) /\ Len(longer) = Popped + 1
         /\ \A i \in 1 .. Popped : longer[i] = Released[i]
         /\ longer[Popped + 1] = e
    BY <1>15, <1>16, <1>18, AppendProperties
  <1>20. \A i \in 1 .. Popped' : Released'[i] = longer[i]
    <2> TAKE i \in 1 .. Popped'
    <2>1. CASE i \in 1 .. Popped
      BY <1>16, <1>17, <1>19, <2>1
    <2>2. CASE i = Popped + 1
      <3>1. i = Len(taken)
        BY <1>2, <2>2
      <3> QED BY <1>15, <1>17, <1>19, <2>2, <3>1
    <2> QED BY <1>2, <2>1, <2>2
  <1>21. Released' = longer
    BY <1>2, <1>17, <1>19, <1>20, SeqEqual
  <1> QED BY <1>8, <1>9, <1>12, <1>13, <1>14, <1>15, <1>18, <1>21
(* A step that is not one of these two leaves the mapped queue alone: the   *)
(* slot being filled is not visible, and a first use is not a release.      *)
LEMMA OtherStepsStutter ==
    ASSUME RoomAssumption, IInv, IInv',
           \/ \E v \in Values : WriteNext(v)
           \/ IncrementNumElements \/ GetNextToRead \/ TestLoop \/ Use
           \/ DecrementNumElements \/ UseAfterRelease \/ UNCHANGED vars
    PROVE  UNCHANGED <<Visible, Released>>
  <1> USE SizeAssumption
  <1>0. TypeOK /\ RingCount
    BY DEF IInv, Ring
  <1>p. TypeOK' /\ RingCount'
    BY DEF IInv, Ring
  <1>1. ASSUME NEW v \in Values, WriteNext(v) PROVE UNCHANGED <<Visible, Released>>
    <2>1. Pending' = Pending /\ Popped' = Popped /\ \A k : Slot(k)' = Slot(k)
      BY <1>1 DEF WriteNext, Pending, Popped, Slot
    <2>2. Pending \in 0 .. Size - 2
      <3>1. Pending \in 0 .. Size - 1
        BY <1>0 DEF TypeOK, Slots, Pending
      <3>2. Len(sent) \in Nat /\ Popped \in Nat
        BY <1>0 DEF TypeOK, RingCount, Popped
      <3>3. Pending < MaxBacklog
        BY <1>0, <1>1 DEF WriteNext, RingCount
      <3> QED BY <3>1, <3>2, <3>3, BoundAssumption DEF RoomAssumption
    <2>3. \A k \in 0 .. Pending - 1 : Slot(k) \in Slots /\ Slot(k) # next_write_index_
      BY <1>0, <2>2 DEF TypeOK, Slots, Slot, Pending
    <2>4. \A k \in 1 .. Pending : store_'[Slot(k - 1)'] = store_[Slot(k - 1)]
      <3> TAKE k \in 1 .. Pending
      <3>1. k - 1 \in 0 .. Pending - 1
        BY <2>2
      <3>2. Slot(k - 1) \in Slots /\ Slot(k - 1) # next_write_index_
        BY <2>3, <3>1
      <3>3. store_'[Slot(k - 1)] = store_[Slot(k - 1)]
        BY <1>0, <1>1, <3>2 DEF WriteNext, TypeOK
      <3> QED BY <2>1, <3>3
    <2>5. taken' = taken
      BY <1>1 DEF WriteNext
    <2> QED BY <1>0, <1>p, <2>1, <2>4, <2>5, Unseen
  <1>2. ASSUME Use PROVE UNCHANGED <<Visible, Released>>
    <2>1. Len(taken) \in Nat /\ Popped = Len(taken)
      BY <1>0, <1>2 DEF Use, TypeOK, Popped
    <2>2. taken' = Append(taken, store_[ptr]) /\ cpc' = "index" /\ store_' = store_
      BY <1>2 DEF Use
    <2>3. store_[ptr] \in Values \cup {NoValue}
      <3>1. ptr \in Slots
        BY <1>2 DEF IInv, Ring, PointerOK, TypeOK, Use
      <3> QED BY <1>0, <3>1 DEF TypeOK
    <2>4. Len(taken') = Len(taken) + 1 /\ \A i \in 1 .. Len(taken) : taken'[i] = taken[i]
      BY <1>0, <2>2, <2>3, AppendProperties DEF TypeOK
    <2>5. Popped' = Popped
      BY <2>1, <2>2, <2>4 DEF Popped
    <2>6. Pending' = Pending /\ \A k : Slot(k)' = Slot(k)
      BY <1>2 DEF Use, Pending, Slot
    <2> QED BY <1>0, <1>p, <2>1, <2>2, <2>4, <2>5, <2>6, Unseen
  <1>3. ASSUME \/ IncrementNumElements \/ GetNextToRead \/ TestLoop
               \/ DecrementNumElements \/ UseAfterRelease \/ UNCHANGED vars
        PROVE  UNCHANGED <<Visible, Released>>
    <2>1. UNCHANGED <<store_, next_write_index_, next_read_index_, taken>>
      BY <1>3 DEF IncrementNumElements, GetNextToRead, TestLoop,
                  DecrementNumElements, UseAfterRelease, vars
    <2>2. cpc' = "index" <=> cpc = "index"
      BY <1>3 DEF IncrementNumElements, GetNextToRead, TestLoop,
                  DecrementNumElements, UseAfterRelease, vars
    <2> QED BY <2>1, <2>2 DEF Visible, Released, Pending, Popped, Slot
  <1> QED BY <1>1, <1>2, <1>3

(* Whatever its size, a ring with room implements the queue its users have  *)
(* in mind (lock_free_queue.h): an element is put at the one instant at     *)
(* which the write index moves and got when the read index moves.           *)
THEOREM RingIsQueue == RoomAssumption => (Spec => ImplementsFIFO)
  <1> SUFFICES ASSUME RoomAssumption PROVE Spec => ImplementsFIFO
    OBVIOUS
  <1>1. Init => Queue!Init
    <2> SUFFICES ASSUME Init PROVE Queue!Init
      OBVIOUS
    <2>1. TypeOK /\ RingCount
      BY InitIInv DEF IInv, Ring
    <2>2. Pending = 0 /\ Popped = 0
      BY DEF Init, Pending, Popped
    <2>3. /\ Visible \in Seq(Elements) /\ Len(Visible) = 0
          /\ Released \in Seq(Elements) /\ Len(Released) = 0
      BY <2>1, <2>2, VisibleIsSeq, ReleasedIsSeq
    <2>4. Visible = <<>> /\ Released = <<>>
      BY <2>3, EmptySeq
    <2> QED BY <2>4 DEF Queue!Init, Visible, Released
  <1>2. IInv /\ IInv' /\ [Next]_vars => [Queue!Next]_<<Visible, Released>>
    <2> SUFFICES ASSUME IInv, IInv', [Next]_vars
                 PROVE  [Queue!Next]_<<Visible, Released>>
      OBVIOUS
    <2>1. CASE UpdateWriteIndex
      <3>1. Queue!Put(store_[next_write_index_])
        BY <2>1, UpdateWriteIndexPuts DEF Queue!Put, Visible, Released
      <3>2. store_[next_write_index_] \in Values \cup {NoValue}
        BY <2>1, UpdateWriteIndexPuts DEF Elements
      <3> QED BY <3>1, <3>2 DEF Queue!Next
    <2>2. CASE UpdateReadIndex
      BY <2>2, UpdateReadIndexGets DEF Queue!Next, Queue!Get, Visible, Released
    <2>3. CASE \/ \E v \in Values : WriteNext(v)
               \/ IncrementNumElements \/ GetNextToRead \/ TestLoop \/ Use
               \/ DecrementNumElements \/ UseAfterRelease \/ UNCHANGED vars
      BY <2>3, OtherStepsStutter
    <2> QED BY <2>1, <2>2, <2>3 DEF Next, Producer, Consumer
  <1>3. Spec => []IInv
    BY IInvInductive
  <1> QED BY <1>1, <1>2, <1>3, PTL DEF Spec, ImplementsFIFO, Queue!Spec, Visible, Released

-----------------------------------------------------------------------------
(* A set of natural numbers that is not empty has a least one. *)
LEMMA Least == ASSUME NEW T, T \subseteq Nat, T # {} PROVE \E t \in T : \A u \in T : t <= u
  <1>1. PICK t \in T : \A u \in T : ~(<<u, t>> \in OpToRel(<, Nat))
    BY WFMin, NatLessThanWellFounded, Zenon
  <1>2. \A u \in T : ~(u < t)
    BY <1>1, Zenon DEF OpToRel
  <1>3. t \in Nat /\ \A u \in T : u \in Nat
    BY <1>1
  <1>4. \A u \in T : t <= u
    BY <1>2, <1>3
  <1> QED BY <1>1, <1>4

(* Induction over 0 .. n, for a set in the place of a predicate. *)
LEMMA UpTo ==
    ASSUME NEW n \in Nat, NEW T, 0 \in T, \A k \in 1 .. n : k - 1 \in T => k \in T
    PROVE  0 .. n \subseteq T
  <1> DEFINE U == {k \in 0 .. n : k \notin T}
  <1> SUFFICES ASSUME U # {} PROVE FALSE
    OBVIOUS
  <1>1. U \subseteq Nat /\ U # {}
    OBVIOUS
  <1> HIDE DEF U
  <1>2. PICK t \in U : \A u \in U : ~(<<u, t>> \in OpToRel(<, Nat))
    BY <1>1, WFMin, NatLessThanWellFounded, Zenon
  <1>3. \A u \in U : ~(u < t)
    BY <1>1, <1>2, Zenon DEF OpToRel
  <1>4. t \in 0 .. n /\ t \notin T /\ t # 0
    BY DEF U
  <1>5. t \in 1 .. n /\ t - 1 \in 0 .. n /\ t - 1 < t
    BY <1>4
  <1>6. t - 1 \in U
    BY <1>4, <1>5 DEF U
  <1> QED BY <1>3, <1>5, <1>6

-----------------------------------------------------------------------------
(* MemPool. *)

(* What the variables of a pool may hold. *)
PoolTypeOK == /\ is_free_ \in [Blocks -> BOOLEAN]
              /\ holders \in [0 .. Beyond -> Nat]
              /\ next_free_index_ \in Blocks \cup {Beyond}
              /\ ended \in BOOLEAN

PoolInv == PoolTypeOK /\ HeldOnce

(* Where a search may end. *)
LEMMA SearchEnds ==
    ASSUME NEW free, NEW from \in Blocks \cup {Beyond}, NEW next \in nextFree(free, from)
    PROVE  next \in Blocks \cup {Beyond}
  <1> DEFINE ahead == {b \in Blocks : b >= from /\ free[b]}
  <1>1. CASE ahead # {}
    <2>1. ahead \subseteq Nat /\ ahead \subseteq Blocks
      BY PoolAssumption DEF Blocks
    <2>2. next = CHOOSE b \in ahead : \A c \in ahead : b <= c
      BY <1>1 DEF nextFree
    <2> HIDE DEF ahead
    <2>3. next \in ahead
      BY <1>1, <2>1, <2>2, Least, Zenon
    <2> QED BY <2>1, <2>3
  <1>2. CASE ahead = {} /\ from = Beyond
    BY <1>2 DEF nextFree
  <1>3. CASE ahead = {} /\ from # Beyond
    <2>1. next \in {atEnd(IF m = "free" THEN N ELSE Beyond) : m \in PastEnd}
      BY <1>3 DEF nextFree
    <2> QED BY <2>1, PoolAssumption DEF atEnd, Beyond, Blocks
  <1> QED BY <1>1, <1>2, <1>3

(* A pool starts with every block free. *)
LEMMA InitPoolInv == PoolInit => PoolInv
  <1> SUFFICES ASSUME PoolInit PROVE PoolInv
    OBVIOUS
  <1>1. 0 \in Blocks /\ Blocks \subseteq 0 .. Beyond
    BY PoolAssumption DEF Blocks, Beyond
  <1>2. is_free_ \in [Blocks -> BOOLEAN] /\ ended \in BOOLEAN
    BY Zenon DEF PoolInit
  <1>3. holders \in [0 .. Beyond -> Nat] /\ next_free_index_ \in Blocks
    BY <1>1 DEF PoolInit
  <1>4. HeldOnce
    BY <1>1 DEF PoolInit, HeldOnce
  <1> QED BY <1>2, <1>3, <1>4, Zenon DEF PoolInv, PoolTypeOK

(* A block of the store is handed out only when it is free, and marked; a   *)
(* place behind the store is none of its blocks.                            *)
LEMMA AllocateStep == ASSUME PoolInv, allocate PROVE PoolInv'
  <1>0. PoolTypeOK /\ HeldOnce
    BY DEF PoolInv
  <1>1. next_free_index_' \in Blocks \cup {Beyond} /\ ended' \in BOOLEAN
    <2>1. PICK next \in nextFree([b \in Blocks |-> is_free_[b] /\ b # next_free_index_],
                                 next_free_index_) :
              next_free_index_' = next /\ ended' = (next = next_free_index_ /\ next # Beyond)
      BY Zenon DEF allocate
    <2>2. next \in Blocks \cup {Beyond}
      BY <1>0, SearchEnds DEF PoolTypeOK
    <2> QED BY <2>1, <2>2, Zenon
  <1>2. is_free_' = [b \in Blocks |-> is_free_[b] /\ b # next_free_index_]
        /\ holders' = [holders EXCEPT ![next_free_index_] = @ + 1]
        /\ isFree(next_free_index_)
    BY Zenon DEF allocate
  <1>3. is_free_' \in [Blocks -> BOOLEAN]
    BY <1>2, Zenon
  <1>4. next_free_index_ \in 0 .. Beyond /\ Blocks \subseteq 0 .. Beyond /\ Beyond \notin Blocks
    BY <1>0, PoolAssumption DEF PoolTypeOK, Blocks, Beyond
  <1>5. holders' \in [0 .. Beyond -> Nat]
    BY <1>0, <1>2, <1>4 DEF PoolTypeOK
  <1>6. HeldOnce'
    <2> SUFFICES ASSUME NEW b \in Blocks
                 PROVE  holders'[b] = IF is_free_'[b] THEN 0 ELSE 1
      BY DEF HeldOnce
    <2>1. CASE b = next_free_index_
      <3>1. is_free_[b] /\ ~is_free_'[b]
        BY <1>2, <2>1, Zenon DEF isFree
      <3>2. holders[b] = 0
        BY <1>0, <3>1, Zenon DEF HeldOnce
      <3>3. holders'[b] = holders[b] + 1
        BY <1>0, <1>2, <1>4, <2>1 DEF PoolTypeOK
      <3> QED BY <3>1, <3>2, <3>3
    <2>2. CASE b # next_free_index_
      <3>1. is_free_'[b] = is_free_[b]
        BY <1>0, <1>2, <2>2 DEF PoolTypeOK
      <3>2. holders'[b] = holders[b]
        BY <1>0, <1>2, <1>4, <2>2 DEF PoolTypeOK
      <3> QED BY <1>0, <3>1, <3>2 DEF HeldOnce
    <2> QED BY <2>1, <2>2
  <1> QED BY <1>1, <1>3, <1>5, <1>6 DEF PoolInv, PoolTypeOK

(* Only a block in use, which has one holder, is given back. *)
LEMMA DeallocateStep ==
    ASSUME PoolInv, NEW i \in 0 .. Beyond, deallocate(i)
    PROVE  PoolInv'
  <1>0. PoolTypeOK /\ HeldOnce
    BY DEF PoolInv
  <1>1. CASE i \in Blocks /\ ~is_free_[i]
    <2>1. is_free_' = [is_free_ EXCEPT ![i] = TRUE]
          /\ holders' = [holders EXCEPT ![i] = @ - 1]
          /\ UNCHANGED <<ended, next_free_index_>>
      BY <1>1, Zenon DEF deallocate
    <2>2. holders[i] = 1 /\ Blocks \subseteq 0 .. Beyond
      BY <1>0, <1>1, PoolAssumption DEF HeldOnce, Blocks, Beyond
    <2>3. PoolTypeOK'
      <3>1. is_free_' \in [Blocks -> BOOLEAN]
        BY <1>0, <1>1, <2>1, Zenon DEF PoolTypeOK
      <3>2. holders' \in [0 .. Beyond -> Nat]
        BY <1>0, <2>1, <2>2 DEF PoolTypeOK
      <3> QED BY <1>0, <2>1, <3>1, <3>2, Zenon DEF PoolTypeOK
    <2>4. HeldOnce'
      BY <1>0, <2>1, <2>2 DEF PoolTypeOK, HeldOnce
    <2> QED BY <2>3, <2>4 DEF PoolInv
  <1>2. CASE ~(i \in Blocks /\ ~is_free_[i])
    <2>1. ended' = TRUE /\ UNCHANGED <<is_free_, holders, next_free_index_>>
      BY <1>2, Zenon DEF deallocate
    <2> QED BY <1>0, <2>1 DEF PoolInv, PoolTypeOK, HeldOnce
  <1> QED BY <1>1, <1>2

(* No two users of a pool ever hold one block of its store (mem_pool.h).    *)
THEOREM NoSharedBlock == PoolSpec => []HeldOnce
  <1>1. PoolInv /\ [PoolNext]_poolVars => PoolInv'
    <2> SUFFICES ASSUME PoolInv, [PoolNext]_poolVars PROVE PoolInv'
      OBVIOUS
    <2>1. CASE allocateFails
      BY <2>1 DEF allocateFails, PoolInv, PoolTypeOK, HeldOnce
    <2>2. CASE UNCHANGED poolVars
      BY <2>2 DEF poolVars, PoolInv, PoolTypeOK, HeldOnce
    <2> QED BY <2>1, <2>2, AllocateStep, DeallocateStep DEF PoolNext
  <1>2. PoolInv => HeldOnce
    BY DEF PoolInv
  <1> QED BY InitPoolInv, <1>1, <1>2, PTL DEF PoolSpec

-----------------------------------------------------------------------------
(* A circular list of distinct entries, s, in the pointers of f. *)
Nxt(i, n) == IF i = n THEN 1 ELSE i + 1
Prv(i, n) == IF i = 1 THEN n ELSE i - 1
Distinct(s) == \A i, j \in 1 .. Len(s) : s[i] = s[j] => i = j
Circle(f, s) == \A i \in 1 .. Len(s) : /\ f[s[i]].next = s[Nxt(i, Len(s))]
                                       /\ f[s[i]].prev = s[Prv(i, Len(s))]

(* s with x behind its k-th entry, and without its k-th entry. *)
Into(s, k, x) == [i \in 1 .. Len(s) + 1 |->
                     IF i <= k THEN s[i] ELSE IF i = k + 1 THEN x ELSE s[i - 1]]
Without(s, k) == [i \in 1 .. Len(s) - 1 |-> IF i < k THEN s[i] ELSE s[i + 1]]

LEMMA IntoIs ==
    ASSUME NEW S, NEW s \in Seq(S), NEW x \in S, NEW k \in 0 .. Len(s)
    PROVE  /\ Into(s, k, x) \in Seq(S) /\ Len(Into(s, k, x)) = Len(s) + 1
           /\ \A i \in 1 .. Len(s) + 1 : Into(s, k, x)[i] =
                  IF i <= k THEN s[i] ELSE IF i = k + 1 THEN x ELSE s[i - 1]
           /\ ToSet(Into(s, k, x)) = ToSet(s) \cup {x}
  <1> DEFINE t == Into(s, k, x)
  <1>1. Len(s) \in Nat /\ k \in Nat /\ k <= Len(s)
    OBVIOUS
  <1>2. \A i \in 1 .. Len(s) + 1 : (IF i <= k THEN s[i] ELSE IF i = k + 1 THEN x ELSE s[i - 1]) \in S
    BY <1>1
  <1>3. t \in Seq(S) /\ Len(t) = Len(s) + 1
    BY <1>1, <1>2 DEF Into
  <1>4. \A i \in 1 .. Len(s) + 1 : t[i] = IF i <= k THEN s[i] ELSE IF i = k + 1 THEN x ELSE s[i - 1]
    BY DEF Into
  <1> HIDE DEF t
  <1>5. DOMAIN t = 1 .. Len(s) + 1 /\ DOMAIN s = 1 .. Len(s)
    BY <1>3
  <1>6. ASSUME NEW y \in ToSet(t) PROVE y \in ToSet(s) \cup {x}
    <2>1. PICK i \in 1 .. Len(s) + 1 : y = t[i]
      BY <1>5, <1>6 DEF ToSet
    <2>2. CASE i <= k
      BY <1>1, <1>4, <1>5, <2>1, <2>2 DEF ToSet
    <2>3. CASE i = k + 1
      BY <1>1, <1>4, <2>1, <2>3
    <2>4. CASE i > k + 1
      <3>1. y = s[i - 1] /\ i - 1 \in 1 .. Len(s)
        BY <1>1, <1>4, <2>1, <2>4
      <3> QED BY <1>5, <3>1 DEF ToSet
    <2> QED BY <1>1, <2>2, <2>3, <2>4
  <1>7. ASSUME NEW y \in ToSet(s) \cup {x} PROVE y \in ToSet(t)
    <2>1. CASE y = x
      <3>1. k + 1 \in 1 .. Len(s) + 1 /\ ~(k + 1 <= k)
        BY <1>1
      <3>2. t[k + 1] = x
        BY <1>4, <3>1, Zenon
      <3> QED BY <1>5, <2>1, <3>1, <3>2 DEF ToSet
    <2>2. CASE y \in ToSet(s)
      <3>1. PICK i \in 1 .. Len(s) : y = s[i]
        BY <1>5, <2>2 DEF ToSet
      <3>2. CASE i <= k
        <4>1. i \in 1 .. Len(s) + 1
          BY <1>1
        <4>2. t[i] = y
          BY <1>4, <3>1, <3>2, <4>1, Zenon
        <4> QED BY <1>5, <4>1, <4>2 DEF ToSet
      <3>3. CASE ~(i <= k)
        <4>1. i + 1 \in 1 .. Len(s) + 1 /\ ~(i + 1 <= k) /\ i + 1 # k + 1 /\ (i + 1) - 1 = i
          BY <1>1, <3>3
        <4>2. t[i + 1] = s[(i + 1) - 1]
          BY <1>4, <4>1
        <4>3. t[i + 1] = y
          BY <3>1, <4>1, <4>2, Zenon
        <4> QED BY <1>5, <4>1, <4>3 DEF ToSet
      <3> QED BY <3>2, <3>3
    <2> QED BY <2>1, <2>2
  <1>8. ToSet(t) = ToSet(s) \cup {x}
    BY <1>6, <1>7
  <1> QED BY <1>3, <1>4, <1>8 DEF t

LEMMA InRange ==
    ASSUME NEW S, NEW s \in Seq(S), NEW i \in 1 .. Len(s) PROVE s[i] \in ToSet(s) /\ s[i] \in S
  BY DEF ToSet

LEMMA OfRange ==
    ASSUME NEW S, NEW s \in Seq(S), NEW y \in ToSet(s) PROVE \E i \in 1 .. Len(s) : s[i] = y
  BY DEF ToSet

LEMMA IntoDistinct ==
    ASSUME NEW S, NEW s \in Seq(S), NEW x \in S, NEW k \in 0 .. Len(s), Distinct(s), x \notin ToSet(s)
    PROVE  Distinct(Into(s, k, x))
  <1> DEFINE t == Into(s, k, x)
  <1>1. Len(s) \in Nat /\ k \in Nat /\ k <= Len(s)
    OBVIOUS
  <1>2. /\ Len(t) = Len(s) + 1
        /\ \A i \in 1 .. Len(s) + 1 : t[i] = IF i <= k THEN s[i] ELSE IF i = k + 1 THEN x ELSE s[i - 1]
    BY IntoIs
  <1> HIDE DEF t
  <1> DEFINE old(i) == IF i <= k THEN i ELSE i - 1
  <1>3. ASSUME NEW i \in 1 .. Len(s) + 1, i # k + 1
        PROVE  old(i) \in 1 .. Len(s) /\ t[i] = s[old(i)]
    BY <1>1, <1>2, <1>3
  <1>4. t[k + 1] = x
    BY <1>1, <1>2
  <1>5. \A i \in 1 .. Len(s) : s[i] # x
    BY InRange
  <1>6. ASSUME NEW i \in 1 .. Len(s) + 1, NEW j \in 1 .. Len(s) + 1, t[i] = t[j] PROVE i = j
    <2>1. CASE i = k + 1
      BY <1>3, <1>4, <1>5, <1>6, <2>1
    <2>2. CASE j = k + 1
      BY <1>3, <1>4, <1>5, <1>6, <2>2
    <2>3. CASE i # k + 1 /\ j # k + 1
      <3>1. old(i) \in 1 .. Len(s) /\ old(j) \in 1 .. Len(s) /\ s[old(i)] = s[old(j)]
        BY <1>3, <1>6, <2>3
      <3>2. old(i) = old(j)
        BY <3>1 DEF Distinct
      <3> QED BY <1>1, <2>3, <3>2
    <2> QED BY <2>1, <2>2, <2>3
  <1> QED BY <1>2, <1>6 DEF Distinct, t

LEMMA WithoutIs ==
    ASSUME NEW S, NEW s \in Seq(S), NEW k \in 1 .. Len(s), Distinct(s)
    PROVE  /\ Without(s, k) \in Seq(S) /\ Len(Without(s, k)) = Len(s) - 1
           /\ \A i \in 1 .. Len(s) - 1 : Without(s, k)[i] = IF i < k THEN s[i] ELSE s[i + 1]
           /\ ToSet(Without(s, k)) = ToSet(s) \ {s[k]}
           /\ Distinct(Without(s, k))
           /\ Without(s, k) = RemoveAt(s, k)
  <1> DEFINE t == Without(s, k)
  <1>1. Len(s) \in Nat /\ k \in Nat /\ k <= Len(s) /\ k >= 1 /\ Len(s) - 1 \in Nat
    OBVIOUS
  <1>2. \A i \in 1 .. Len(s) - 1 : (IF i < k THEN s[i] ELSE s[i + 1]) \in S
    BY <1>1
  <1>3. t \in Seq(S) /\ Len(t) = Len(s) - 1
    BY <1>1, <1>2 DEF Without
  <1>4. \A i \in 1 .. Len(s) - 1 : t[i] = IF i < k THEN s[i] ELSE s[i + 1]
    BY DEF Without
  <1> HIDE DEF t
  <1> DEFINE old(i) == IF i < k THEN i ELSE i + 1
  <1>5. ASSUME NEW i \in 1 .. Len(s) - 1 PROVE old(i) \in 1 .. Len(s) /\ old(i) # k /\ t[i] = s[old(i)]
    BY <1>1, <1>4
  <1>6. ASSUME NEW i \in 1 .. Len(s), i # k
        PROVE  \E j \in 1 .. Len(s) - 1 : t[j] = s[i]
    <2>1. CASE i < k
      <3>1. i \in 1 .. Len(s) - 1
        BY <1>1, <2>1
      <3> QED BY <1>4, <2>1, <3>1
    <2>2. CASE i > k
      <3>1. i - 1 \in 1 .. Len(s) - 1 /\ ~(i - 1 < k) /\ (i - 1) + 1 = i
        BY <1>1, <2>2
      <3>2. t[i - 1] = s[i]
        BY <1>4, <3>1, Zenon
      <3> QED BY <3>1, <3>2
    <2> QED BY <1>6, <2>1, <2>2
  <1>7. Distinct(t)
    <2>1. ASSUME NEW i \in 1 .. Len(s) - 1, NEW j \in 1 .. Len(s) - 1, t[i] = t[j] PROVE i = j
      <3>1. old(i) = old(j)
        BY <1>5, <2>1 DEF Distinct
      <3> QED BY <1>1, <3>1
    <2> QED BY <1>3, <2>1 DEF Distinct
  <1>8. ToSet(t) = ToSet(s) \ {s[k]}
    <2>1. DOMAIN t = 1 .. Len(s) - 1 /\ DOMAIN s = 1 .. Len(s)
      BY <1>3
    <2>2. \A i \in 1 .. Len(s) - 1 : t[i] \in ToSet(s) \ {s[k]}
      <3>1. ASSUME NEW i \in 1 .. Len(s) - 1 PROVE t[i] \in ToSet(s) \ {s[k]}
        <4>1. old(i) \in 1 .. Len(s) /\ old(i) # k /\ t[i] = s[old(i)]
          BY <1>5
        <4>2. s[old(i)] # s[k]
          BY <4>1 DEF Distinct
        <4>3. s[old(i)] \in ToSet(s)
          BY <4>1, InRange
        <4> QED BY <4>1, <4>2, <4>3, Zenon
      <3> QED BY <3>1
    <2>3. \A y \in ToSet(s) \ {s[k]} : \E j \in 1 .. Len(s) - 1 : t[j] = y
      BY <1>6, <2>1 DEF ToSet
    <2>4. ToSet(t) = {t[i] : i \in 1 .. Len(s) - 1}
      BY <2>1 DEF ToSet
    <2> QED BY <2>2, <2>3, <2>4
  <1>9. t = RemoveAt(s, k)
    <2> DEFINE a == SubSeq(s, 1, k - 1)
               b == SubSeq(s, k + 1, Len(s))
    <2>1. /\ a \in Seq(S) /\ Len(a) = k - 1 /\ \A i \in 1 .. k - 1 : a[i] = s[i]
      <3>1. /\ 1 \in Int /\ k - 1 \in Int /\ \A i \in 1 .. k - 1 : s[i] \in S
        BY <1>1
      <3> QED BY <1>1, <3>1, SubSeqProperties
    <2>2. /\ b \in Seq(S) /\ Len(b) = Len(s) - k /\ \A i \in 1 .. Len(s) - k : b[i] = s[k + i]
      <3>1. /\ k + 1 \in Int /\ Len(s) \in Int /\ \A i \in k + 1 .. Len(s) : s[i] \in S
        BY <1>1
      <3> QED BY <1>1, <3>1, SubSeqProperties
    <2> HIDE DEF a, b
    <2>3. /\ a \o b \in Seq(S) /\ Len(a \o b) = Len(a) + Len(b)
          /\ \A i \in 1 .. Len(a) + Len(b) : (a \o b)[i] = IF i <= Len(a) THEN a[i] ELSE b[i - Len(a)]
      BY <2>1, <2>2, ConcatProperties
    <2>4. Len(a) + Len(b) = Len(s) - 1
      BY <1>1, <2>1, <2>2
    <2>5. ASSUME NEW i \in 1 .. Len(s) - 1 PROVE t[i] = (a \o b)[i]
      <3>1. CASE i < k
        BY <1>1, <1>4, <2>1, <2>3, <2>4, <3>1
      <3>2. CASE ~(i < k)
        <4>1. ~(i <= Len(a)) /\ i - Len(a) = i - (k - 1) /\ i - (k - 1) \in 1 .. Len(s) - k
              /\ k + (i - (k - 1)) = i + 1
          BY <1>1, <2>1, <3>2
        <4>2. b[i - Len(a)] = s[i + 1]
          BY <2>2, <4>1, Zenon
        <4> QED BY <1>4, <2>3, <2>4, <3>2, <4>1, <4>2, Zenon
      <3> QED BY <3>1, <3>2
    <2>6. t = a \o b
      BY <1>3, <2>3, <2>4, <2>5, SeqEqual
    <2> QED BY <2>6 DEF a, b, RemoveAt
  <1> QED BY <1>3, <1>4, <1>7, <1>8, <1>9 DEF t


-----------------------------------------------------------------------------
(* Where in s the i-th entry of Into(s, k, x) and of Without(s, k) is. *)
IntoFrom(i, k) == IF i <= k THEN i ELSE i - 1
WithoutFrom(i, k) == IF i < k THEN i ELSE i + 1

(* The entries of a list of n that a new one at k + 1 comes between. *)
Before(k, n) == IF k = 0 THEN n ELSE k
Behind(k, n) == IF k = n THEN 1 ELSE k + 1

LEMMA IntoPlaces ==
    ASSUME NEW n \in Nat, n >= 1, NEW k \in 0 .. n
    PROVE  /\ Before(k, n) \in 1 .. n /\ Behind(k, n) \in 1 .. n
           /\ Nxt(k + 1, n + 1) \in 1 .. n + 1 /\ Nxt(k + 1, n + 1) # k + 1
           /\ IntoFrom(Nxt(k + 1, n + 1), k) = Behind(k, n)
           /\ Prv(k + 1, n + 1) \in 1 .. n + 1 /\ Prv(k + 1, n + 1) # k + 1
           /\ IntoFrom(Prv(k + 1, n + 1), k) = Before(k, n)
           /\ \A i \in 1 .. n + 1 : i # k + 1 =>
                  /\ IntoFrom(i, k) \in 1 .. n
                  /\ Nxt(i, n + 1) \in 1 .. n + 1 /\ Prv(i, n + 1) \in 1 .. n + 1
                  /\ IF IntoFrom(i, k) = Before(k, n) THEN Nxt(i, n + 1) = k + 1
                     ELSE Nxt(i, n + 1) # k + 1 /\ IntoFrom(Nxt(i, n + 1), k) = Nxt(IntoFrom(i, k), n)
                  /\ IF IntoFrom(i, k) = Behind(k, n) THEN Prv(i, n + 1) = k + 1
                     ELSE Prv(i, n + 1) # k + 1 /\ IntoFrom(Prv(i, n + 1), k) = Prv(IntoFrom(i, k), n)
  BY DEF Before, Behind, Nxt, Prv, IntoFrom

LEMMA WithoutPlaces ==
    ASSUME NEW n \in Nat, n >= 2, NEW k \in 1 .. n
    PROVE  /\ Nxt(k, n) \in 1 .. n /\ Prv(k, n) \in 1 .. n
           /\ \A i \in 1 .. n - 1 :
                  /\ WithoutFrom(i, k) \in 1 .. n /\ WithoutFrom(i, k) # k
                  /\ Nxt(i, n - 1) \in 1 .. n - 1 /\ Prv(i, n - 1) \in 1 .. n - 1
                  /\ WithoutFrom(Nxt(i, n - 1), k) =
                         IF WithoutFrom(i, k) = Prv(k, n) THEN Nxt(k, n) ELSE Nxt(WithoutFrom(i, k), n)
                  /\ WithoutFrom(Prv(i, n - 1), k) =
                         IF WithoutFrom(i, k) = Nxt(k, n) THEN Prv(k, n) ELSE Prv(WithoutFrom(i, k), n)
  BY DEF Nxt, Prv, WithoutFrom

(* The new pointers make room for x between two neighbours of s. *)
LinksIn(f, g, s, x, a, b) ==
    /\ g[x].prev = a /\ g[x].next = b /\ g[a].next = x /\ g[b].prev = x
    /\ \A y \in ToSet(s) : (y # a => g[y].next = f[y].next) /\ (y # b => g[y].prev = f[y].prev)

(* ... or close the gap that x leaves between its neighbours. *)
LinksOut(f, g, s, x) ==
    /\ g[f[x].prev].next = f[x].next /\ g[f[x].next].prev = f[x].prev
    /\ \A y \in ToSet(s) \ {x} : /\ y # f[x].prev => g[y].next = f[y].next
                                 /\ y # f[x].next => g[y].prev = f[y].prev

LEMMA IntoCircle ==
    ASSUME NEW S, NEW s \in Seq(S), NEW x \in S, Len(s) >= 1, NEW k \in 0 .. Len(s),
           Distinct(s), x \notin ToSet(s), NEW f, NEW g, Circle(f, s),
           LinksIn(f, g, s, x, s[Before(k, Len(s))], s[Behind(k, Len(s))])
    PROVE  Circle(g, Into(s, k, x))
  <1> DEFINE t == Into(s, k, x)
             n == Len(s)
             pa == Before(k, n)
             pb == Behind(k, n)
  <1>1. n \in Nat /\ n >= 1 /\ k \in 0 .. n
    OBVIOUS
  <1>2. Len(t) = n + 1 /\ t[k + 1] = x
    <2>1. /\ Len(t) = n + 1
          /\ \A i \in 1 .. n + 1 : t[i] = IF i <= k THEN s[i] ELSE IF i = k + 1 THEN x ELSE s[i - 1]
      BY IntoIs
    <2>2. k + 1 \in 1 .. n + 1 /\ ~(k + 1 <= k)
      BY <1>1
    <2> HIDE DEF t
    <2> QED BY <2>1, <2>2, Zenon
  <1>3. \A i \in 1 .. n + 1 : i # k + 1 => t[i] = s[IntoFrom(i, k)]
    <2>1. \A i \in 1 .. n + 1 : t[i] = IF i <= k THEN s[i] ELSE IF i = k + 1 THEN x ELSE s[i - 1]
      BY IntoIs
    <2> HIDE DEF t
    <2> QED BY <2>1 DEF IntoFrom
  <1>4. /\ g[x].prev = s[pa] /\ g[x].next = s[pb] /\ g[s[pa]].next = x /\ g[s[pb]].prev = x
        /\ \A y \in ToSet(s) : (y # s[pa] => g[y].next = f[y].next) /\ (y # s[pb] => g[y].prev = f[y].prev)
    BY DEF LinksIn
  <1>5. \A i \in 1 .. n : s[i] \in ToSet(s)
    BY InRange
  <1>6. \A i \in 1 .. n : f[s[i]].next = s[Nxt(i, n)] /\ f[s[i]].prev = s[Prv(i, n)]
    BY DEF Circle
  <1>7. \A i, j \in 1 .. n : s[i] = s[j] => i = j
    BY DEF Distinct
  <1> HIDE DEF t, n, pa, pb
  <1>8. /\ pa \in 1 .. n /\ pb \in 1 .. n
        /\ Nxt(k + 1, n + 1) \in 1 .. n + 1 /\ Nxt(k + 1, n + 1) # k + 1
        /\ IntoFrom(Nxt(k + 1, n + 1), k) = pb
        /\ Prv(k + 1, n + 1) \in 1 .. n + 1 /\ Prv(k + 1, n + 1) # k + 1
        /\ IntoFrom(Prv(k + 1, n + 1), k) = pa
    BY <1>1, IntoPlaces DEF pa, pb
  <1>9. ASSUME NEW i \in 1 .. n + 1, i # k + 1
        PROVE  /\ IntoFrom(i, k) \in 1 .. n
               /\ Nxt(i, n + 1) \in 1 .. n + 1 /\ Prv(i, n + 1) \in 1 .. n + 1
               /\ IF IntoFrom(i, k) = pa THEN Nxt(i, n + 1) = k + 1
                  ELSE Nxt(i, n + 1) # k + 1 /\ IntoFrom(Nxt(i, n + 1), k) = Nxt(IntoFrom(i, k), n)
               /\ IF IntoFrom(i, k) = pb THEN Prv(i, n + 1) = k + 1
                  ELSE Prv(i, n + 1) # k + 1 /\ IntoFrom(Prv(i, n + 1), k) = Prv(IntoFrom(i, k), n)
    BY <1>1, <1>9, IntoPlaces DEF pa, pb
  <1>10. g[t[k + 1]].next = t[Nxt(k + 1, n + 1)] /\ g[t[k + 1]].prev = t[Prv(k + 1, n + 1)]
    BY <1>2, <1>3, <1>4, <1>8, Zenon
  <1>11. ASSUME NEW i \in 1 .. n + 1, i # k + 1
         PROVE  g[t[i]].next = t[Nxt(i, n + 1)] /\ g[t[i]].prev = t[Prv(i, n + 1)]
    <2> DEFINE j == IntoFrom(i, k)
    <2>1. t[i] = s[j] /\ j \in 1 .. n
      BY <1>3, <1>9, <1>11, Zenon
    <2> HIDE DEF j
    <2>2. g[t[i]].next = t[Nxt(i, n + 1)]
      <3>1. CASE j = pa
        <4>1. Nxt(i, n + 1) = k + 1
          BY <1>9, <1>11, <3>1, Zenon DEF j
        <4> QED BY <1>2, <1>4, <2>1, <3>1, <4>1, Zenon
      <3>2. CASE j # pa
        <4>1. s[j] # s[pa] /\ s[j] \in ToSet(s)
          BY <1>5, <1>7, <1>8, <2>1, <3>2, Zenon
        <4>2. g[s[j]].next = s[Nxt(j, n)]
          BY <1>4, <1>6, <2>1, <4>1, Zenon
        <4>3. Nxt(i, n + 1) \in 1 .. n + 1 /\ Nxt(i, n + 1) # k + 1
              /\ IntoFrom(Nxt(i, n + 1), k) = Nxt(j, n)
          BY <1>9, <1>11, <3>2, Zenon DEF j
        <4>4. t[Nxt(i, n + 1)] = s[Nxt(j, n)]
          BY <1>3, <4>3, Zenon
        <4> QED BY <2>1, <4>2, <4>4, Zenon
      <3> QED BY <3>1, <3>2
    <2>3. g[t[i]].prev = t[Prv(i, n + 1)]
      <3>1. CASE j = pb
        <4>1. Prv(i, n + 1) = k + 1
          BY <1>9, <1>11, <3>1, Zenon DEF j
        <4> QED BY <1>2, <1>4, <2>1, <3>1, <4>1, Zenon
      <3>2. CASE j # pb
        <4>1. s[j] # s[pb] /\ s[j] \in ToSet(s)
          BY <1>5, <1>7, <1>8, <2>1, <3>2, Zenon
        <4>2. g[s[j]].prev = s[Prv(j, n)]
          BY <1>4, <1>6, <2>1, <4>1, Zenon
        <4>3. Prv(i, n + 1) \in 1 .. n + 1 /\ Prv(i, n + 1) # k + 1
              /\ IntoFrom(Prv(i, n + 1), k) = Prv(j, n)
          BY <1>9, <1>11, <3>2, Zenon DEF j
        <4>4. t[Prv(i, n + 1)] = s[Prv(j, n)]
          BY <1>3, <4>3, Zenon
        <4> QED BY <2>1, <4>2, <4>4, Zenon
      <3> QED BY <3>1, <3>2
    <2> QED BY <2>2, <2>3
  <1> QED BY <1>2, <1>10, <1>11 DEF Circle, t

LEMMA WithoutCircle ==
    ASSUME NEW S, NEW s \in Seq(S), Len(s) >= 2, NEW k \in 1 .. Len(s), Distinct(s),
           NEW f, NEW g, Circle(f, s), LinksOut(f, g, s, s[k])
    PROVE  Circle(g, Without(s, k))
  <1> DEFINE t == Without(s, k)
             n == Len(s)
  <1>1. n \in Nat /\ n >= 2 /\ k \in 1 .. n
    OBVIOUS
  <1>2. Len(t) = n - 1 /\ \A i \in 1 .. n - 1 : t[i] = s[WithoutFrom(i, k)]
    <2>1. /\ Len(t) = n - 1
          /\ \A i \in 1 .. n - 1 : t[i] = IF i < k THEN s[i] ELSE s[i + 1]
      BY WithoutIs
    <2> HIDE DEF t
    <2> QED BY <2>1 DEF WithoutFrom
  <1>3. \A i \in 1 .. n : s[i] \in ToSet(s)
    BY InRange
  <1>4. \A i \in 1 .. n : f[s[i]].next = s[Nxt(i, n)] /\ f[s[i]].prev = s[Prv(i, n)]
    BY DEF Circle
  <1>5. \A i, j \in 1 .. n : s[i] = s[j] => i = j
    BY DEF Distinct
  <1>6. /\ g[s[Prv(k, n)]].next = s[Nxt(k, n)] /\ g[s[Nxt(k, n)]].prev = s[Prv(k, n)]
        /\ \A y \in ToSet(s) \ {s[k]} : /\ y # s[Prv(k, n)] => g[y].next = f[y].next
                                        /\ y # s[Nxt(k, n)] => g[y].prev = f[y].prev
    <2>1. f[s[k]].prev = s[Prv(k, n)] /\ f[s[k]].next = s[Nxt(k, n)]
      BY <1>1, <1>4, Zenon
    <2> QED BY <2>1, Zenon DEF LinksOut
  <1> HIDE DEF t, n
  <1>7. Nxt(k, n) \in 1 .. n /\ Prv(k, n) \in 1 .. n
    BY <1>1, WithoutPlaces
  <1>8. ASSUME NEW i \in 1 .. n - 1 PROVE g[t[i]].next = t[Nxt(i, n - 1)] /\ g[t[i]].prev = t[Prv(i, n - 1)]
    <2> DEFINE j == WithoutFrom(i, k)
    <2>1. /\ j \in 1 .. n /\ j # k
          /\ Nxt(i, n - 1) \in 1 .. n - 1 /\ Prv(i, n - 1) \in 1 .. n - 1
          /\ WithoutFrom(Nxt(i, n - 1), k) = IF j = Prv(k, n) THEN Nxt(k, n) ELSE Nxt(j, n)
          /\ WithoutFrom(Prv(i, n - 1), k) = IF j = Nxt(k, n) THEN Prv(k, n) ELSE Prv(j, n)
      BY <1>1, WithoutPlaces
    <2>2. t[i] = s[j]
      BY <1>2, Zenon
    <2> HIDE DEF j
    <2>3. s[j] \in ToSet(s) \ {s[k]}
      BY <1>1, <1>3, <1>5, <2>1, Zenon
    <2>4. g[t[i]].next = t[Nxt(i, n - 1)]
      <3>1. CASE j = Prv(k, n)
        <4>1. t[Nxt(i, n - 1)] = s[Nxt(k, n)]
          BY <1>2, <2>1, <3>1, Zenon
        <4> QED BY <1>6, <2>2, <3>1, <4>1, Zenon
      <3>2. CASE j # Prv(k, n)
        <4>1. t[Nxt(i, n - 1)] = s[Nxt(j, n)]
          BY <1>2, <2>1, <3>2, Zenon
        <4>2. s[j] # s[Prv(k, n)]
          BY <1>5, <1>7, <2>1, <3>2, Zenon
        <4> QED BY <1>4, <1>6, <2>1, <2>2, <2>3, <4>1, <4>2, Zenon
      <3> QED BY <3>1, <3>2
    <2>5. g[t[i]].prev = t[Prv(i, n - 1)]
      <3>1. CASE j = Nxt(k, n)
        <4>1. t[Prv(i, n - 1)] = s[Prv(k, n)]
          BY <1>2, <2>1, <3>1, Zenon
        <4> QED BY <1>6, <2>2, <3>1, <4>1, Zenon
      <3>2. CASE j # Nxt(k, n)
        <4>1. t[Prv(i, n - 1)] = s[Prv(j, n)]
          BY <1>2, <2>1, <3>2, Zenon
        <4>2. s[j] # s[Nxt(k, n)]
          BY <1>5, <1>7, <2>1, <3>2, Zenon
        <4> QED BY <1>4, <1>6, <2>1, <2>2, <2>3, <4>1, <4>2, Zenon
      <3> QED BY <3>1, <3>2
    <2> QED BY <2>4, <2>5
  <1> QED BY <1>2, <1>8 DEF Circle, t

-----------------------------------------------------------------------------
(* The list that From follows around a circle is the sequence. *)
LEMMA FromUnfolds ==
    ASSUME NEW succ, NEW start, NEW h,
           h = [at \in DOMAIN succ |-> IF succ[at] = start THEN <<at>> ELSE <<at>> \o h[succ[at]]]
    PROVE  \E g : /\ g = [at \in DOMAIN succ |-> IF succ[at] = start THEN <<at>> ELSE <<at>> \o g[succ[at]]]
                  /\ From(succ, start) = g[start]
  <1> DEFINE F(list) == [at \in DOMAIN succ |-> IF succ[at] = start THEN <<at>> ELSE <<at>> \o list[succ[at]]]
             g == CHOOSE list : list = F(list)
  <1>1. From(succ, start) = g[start]
    BY DEF From
  <1>2. \E list : list = F(list)
    BY Zenon
  <1>3. g = F(g)
    <2> HIDE DEF F
    <2> QED BY <1>2, Zenon
  <1> HIDE DEF g
  <1> QED BY <1>1, <1>3, Zenon

LEMMA Tail1 ==
    ASSUME NEW S, NEW s \in Seq(S), NEW i \in 1 .. Len(s)
    PROVE  IF i = Len(s) THEN SubSeq(s, i, Len(s)) = <<s[i]>>
           ELSE SubSeq(s, i, Len(s)) = <<s[i]>> \o SubSeq(s, i + 1, Len(s))
  <1> DEFINE n == Len(s)
             a == SubSeq(s, i, n)
             b == SubSeq(s, i + 1, n)
             c == <<s[i]>>
  <1>1. n \in Nat /\ i \in 1 .. n
    OBVIOUS
  <1>2. /\ a \in Seq(S) /\ Len(a) = n - i + 1 /\ \A j \in 1 .. n - i + 1 : a[j] = s[i + j - 1]
    <2>1. /\ i \in Int /\ n \in Int /\ \A j \in i .. n : s[j] \in S
      BY <1>1
    <2> QED BY <1>1, <2>1, SubSeqProperties
  <1>3. /\ b \in Seq(S) /\ Len(b) = n - i /\ \A j \in 1 .. n - i : b[j] = s[i + j]
    <2>1. /\ i + 1 \in Int /\ n \in Int /\ \A j \in i + 1 .. n : s[j] \in S
      BY <1>1
    <2> QED BY <1>1, <2>1, SubSeqProperties
  <1>4. c \in Seq(S) /\ Len(c) = 1 /\ c[1] = s[i]
    BY <1>1
  <1> HIDE DEF a, b, c
  <1>5. CASE i = n
    <2>1. Len(a) = 1 /\ a[1] = s[i]
      BY <1>1, <1>2, <1>5
    <2>2. a = c
      BY <1>2, <1>4, <2>1, SeqEqual
    <2> QED BY <1>5, <2>2 DEF a, c
  <1>6. CASE i # n
    <2>1. /\ c \o b \in Seq(S) /\ Len(c \o b) = Len(c) + Len(b)
          /\ \A j \in 1 .. Len(c) + Len(b) : (c \o b)[j] = IF j <= Len(c) THEN c[j] ELSE b[j - Len(c)]
      BY <1>3, <1>4, ConcatProperties
    <2>2. Len(c \o b) = n - i + 1
      BY <1>1, <1>3, <1>4, <2>1
    <2>3. ASSUME NEW j \in 1 .. n - i + 1 PROVE a[j] = (c \o b)[j]
      <3>1. j \in 1 .. Len(c) + Len(b) /\ (j <= Len(c) <=> j = 1)
        BY <1>1, <1>3, <1>4
      <3>2. CASE j = 1
        <4>1. a[j] = s[i]
          BY <1>1, <1>2, <3>2
        <4> QED BY <1>4, <2>1, <3>1, <3>2, <4>1, Zenon
      <3>3. CASE j # 1
        <4>1. j - 1 \in 1 .. n - i /\ i + (j - 1) = i + j - 1
          BY <1>1, <3>3
        <4>2. b[j - 1] = s[i + j - 1]
          BY <1>3, <4>1, Zenon
        <4>3. (c \o b)[j] = b[j - 1]
          BY <1>4, <2>1, <3>1, <3>3, Zenon
        <4> QED BY <1>2, <4>2, <4>3, Zenon
      <3> QED BY <3>2, <3>3
    <2>4. a = c \o b
      BY <1>2, <2>1, <2>2, <2>3, SeqEqual
    <2> QED BY <1>6, <2>4 DEF a, b, c
  <1> QED BY <1>5, <1>6

LEMMA FromIs ==
    ASSUME NEW S, NEW s \in Seq(S), Len(s) >= 1, Distinct(s), NEW f, Circle(f, s)
    PROVE  From([x \in ToSet(s) |-> f[x].next], s[1]) = s
  <1> DEFINE n == Len(s)
             R == ToSet(s)
             succ == [x \in R |-> f[x].next]
             start == s[1]
             place(x) == CHOOSE i \in 1 .. n : s[i] = x
             tail(i) == SubSeq(s, i, n)
             h == [x \in R |-> tail(place(x))]
  <1>1. n \in Nat /\ n >= 1
    OBVIOUS
  <1>2. \A i \in 1 .. n : s[i] \in R
    BY InRange
  <1>3. \A x \in R : \E i \in 1 .. n : s[i] = x
    BY OfRange
  <1>4. \A i, j \in 1 .. n : s[i] = s[j] => i = j
    BY DEF Distinct
  <1>5. \A i \in 1 .. n : f[s[i]].next = s[Nxt(i, n)]
    BY DEF Circle
  <1>6. \A i \in 1 .. n : IF i = n THEN tail(i) = <<s[i]>> ELSE tail(i) = <<s[i]>> \o tail(i + 1)
    BY Tail1
  <1>7. tail(1) = s
    <2>1. \A q \in Seq(S) : SubSeq(q, 1, Len(q)) = q
      OBVIOUS
    <2> QED BY <2>1
  <1> HIDE DEF n, R, tail
  <1>8. \A i \in 1 .. n : place(s[i]) = i
    <2> TAKE i \in 1 .. n
    <2>1. place(s[i]) \in 1 .. n /\ s[place(s[i])] = s[i]
      <3> HIDE DEF n
      <3> QED BY Zenon
    <2> QED BY <1>4, <2>1, Zenon
  <1> HIDE DEF place
  <1>9. DOMAIN succ = R /\ \A i \in 1 .. n : succ[s[i]] = s[Nxt(i, n)]
    BY <1>2, <1>5
  <1>10. \A i \in 1 .. n : IF i = n THEN Nxt(i, n) = 1
                           ELSE Nxt(i, n) = i + 1 /\ i + 1 \in 1 .. n /\ i + 1 # 1
    BY <1>1 DEF Nxt
  <1>11. \A i \in 1 .. n : succ[s[i]] = start <=> i = n
    <2> TAKE i \in 1 .. n
    <2>1. CASE i = n
      BY <1>9, <1>10, <2>1, Zenon
    <2>2. CASE i # n
      <3>1. succ[s[i]] = s[i + 1] /\ i + 1 \in 1 .. n /\ i + 1 # 1 /\ 1 \in 1 .. n
        BY <1>1, <1>9, <1>10, <2>2
      <3> QED BY <1>4, <2>2, <3>1, Zenon
    <2> QED BY <2>1, <2>2
  <1> HIDE DEF succ, start
  <1>12. h = [at \in DOMAIN succ |-> IF succ[at] = start THEN <<at>> ELSE <<at>> \o h[succ[at]]]
    <2>1. ASSUME NEW x \in R PROVE tail(place(x)) = IF succ[x] = start THEN <<x>> ELSE <<x>> \o h[succ[x]]
      <3>1. PICK i \in 1 .. n : s[i] = x
        BY <1>3, Zenon
      <3>2. place(x) = i
        BY <1>8, <3>1, Zenon
      <3>3. CASE i = n
        BY <1>6, <1>11, <3>1, <3>2, <3>3, Zenon
      <3>4. CASE i # n
        <4>1. succ[x] = s[i + 1] /\ i + 1 \in 1 .. n
          BY <1>9, <1>10, <3>1, <3>4, Zenon
        <4>2. h[succ[x]] = tail(i + 1)
          BY <1>2, <1>8, <4>1, Zenon
        <4>3. tail(i) = <<s[i]>> \o tail(i + 1)
          BY <1>6, <3>4, Zenon
        <4>4. succ[x] # start
          BY <1>11, <3>1, <3>4, Zenon
        <4> QED BY <3>1, <3>2, <4>2, <4>3, <4>4, Zenon
      <3> QED BY <3>3, <3>4
    <2>2. DOMAIN succ = R
      BY <1>9, Zenon
    <2> QED BY <2>1, <2>2
  <1> HIDE DEF h
  <1>13. PICK g : /\ g = [at \in DOMAIN succ |-> IF succ[at] = start THEN <<at>> ELSE <<at>> \o g[succ[at]]]
                  /\ From(succ, start) = g[start]
    BY <1>12, FromUnfolds, Zenon
  <1>14. \A i \in 1 .. n : g[s[i]] = IF i = n THEN <<s[i]>> ELSE <<s[i]>> \o g[s[i + 1]]
    <2> TAKE i \in 1 .. n
    <2>1. s[i] \in DOMAIN succ
      BY <1>2, <1>9, Zenon
    <2>2. g[s[i]] = IF succ[s[i]] = start THEN <<s[i]>> ELSE <<s[i]>> \o g[succ[s[i]]]
      BY <1>13, <2>1, Zenon
    <2>3. CASE i = n
      BY <1>11, <2>2, <2>3, Zenon
    <2>4. CASE i # n
      <3>1. succ[s[i]] = s[i + 1]
        BY <1>9, <1>10, <2>4, Zenon
      <3> QED BY <1>11, <2>2, <2>4, <3>1, Zenon
    <2> QED BY <2>3, <2>4
  <1> DEFINE T == {d \in 0 .. n - 1 : g[s[n - d]] = tail(n - d)}
  <1>15. 0 .. n - 1 \subseteq T
    <2>1. n - 1 \in Nat /\ 0 \in 0 .. n - 1 /\ n - 0 = n /\ n \in 1 .. n
      BY <1>1
    <2>2. 0 \in T
      <3>1. g[s[n]] = <<s[n]>> /\ tail(n) = <<s[n]>>
        BY <1>6, <1>14, <2>1, Zenon
      <3> QED BY <2>1, <3>1
    <2>3. ASSUME NEW d \in 1 .. n - 1, d - 1 \in T PROVE d \in T
      <3>1. /\ d \in 0 .. n - 1 /\ n - d \in 1 .. n /\ n - d # n /\ n - (d - 1) = (n - d) + 1
        BY <1>1, <2>3
      <3>2. g[s[n - d]] = <<s[n - d]>> \o g[s[(n - d) + 1]] /\ tail(n - d) = <<s[n - d]>> \o tail((n - d) + 1)
        BY <1>6, <1>14, <3>1, Zenon
      <3>3. g[s[(n - d) + 1]] = tail((n - d) + 1)
        BY <2>3, <3>1
      <3> QED BY <3>1, <3>2, <3>3, Zenon
    <2> HIDE DEF T
    <2> QED BY <2>1, <2>2, <2>3, UpTo
  <1>16. g[s[1]] = tail(1)
    <2>1. n - 1 \in 0 .. n - 1 /\ n - (n - 1) = 1
      BY <1>1
    <2>2. n - 1 \in T
      BY <1>15, <2>1
    <2>3. g[s[n - (n - 1)]] = tail(n - (n - 1))
      BY <2>2, Zenon
    <2> QED BY <2>1, <2>3, Zenon
  <1>17. From(succ, start) = s
    BY <1>7, <1>13, <1>16 DEF start
  <1> QED BY <1>17 DEF succ, start, R

-----------------------------------------------------------------------------
(* What the two kinds of lists are: L lists the levels lv, entered at b,   *)
(* and q the orders od of the level of p.                                  *)
LevelValues == [first : Orders, prev : Prices, next : Prices]
OrderValues == [price : Prices, prev : Orders, next : Orders]

BookTypes == /\ side \in {"BUY", "SELL"} /\ best \in Prices \cup {NULL}
             /\ level \in [Prices -> LevelValues \cup {NULL}]
             /\ order \in [Orders -> OrderValues \cup {NULL}]

Sorted(L) == \A i, j \in 1 .. Len(L) : i < j => Worse(L[j], L[i])

LevelsAre(L, b, lv) == /\ L \in Seq(Prices) /\ Distinct(L) /\ Sorted(L)
                       /\ ToSet(L) = {p \in Prices : lv[p] # NULL}
                       /\ b = IF L = <<>> THEN NULL ELSE L[1]
                       /\ Circle(lv, L)

OrdersAre(p, q, lv, od) ==
    /\ q \in Seq(Orders) /\ Distinct(q)
    /\ ToSet(q) = {id \in Orders : od[id] # NULL /\ od[id].price = p}
    /\ IF q = <<>> THEN lv[p] = NULL ELSE lv[p] # NULL /\ lv[p].first = q[1]
    /\ Circle(od, q)

LEMMA WorseOrders ==
    ASSUME side \in {"BUY", "SELL"}
    PROVE  /\ \A p, r, s \in Prices : Worse(p, r) /\ Worse(r, s) => Worse(p, s)
           /\ \A p, r \in Prices : p = r \/ Worse(p, r) \/ Worse(r, p)
           /\ \A p, r \in Prices : ~(Worse(p, r) /\ Worse(r, p)) /\ ~Worse(p, p)
  <1>1. \A p \in Prices : p \in Nat
    BY PriceAssumption
  <1>2. /\ \A p, r, s \in Nat : p < r /\ r < s => p < s
        /\ \A p, r, s \in Nat : p > r /\ r > s => p > s
        /\ \A p, r \in Nat : p = r \/ p < r \/ r < p
        /\ \A p, r \in Nat : p = r \/ p > r \/ r > p
        /\ \A p, r \in Nat : ~(p < r /\ r < p) /\ ~(p > r /\ r > p) /\ ~(p < p) /\ ~(p > p)
    OBVIOUS
  <1>3. CASE side = "BUY"
    BY <1>1, <1>2, <1>3, Zenon DEF Worse
  <1>4. CASE side = "SELL"
    BY <1>1, <1>2, <1>4, Zenon DEF Worse
  <1> QED BY <1>3, <1>4

(* The first m levels are the better ones. *)
LEMMA BetterOnes ==
    ASSUME side \in {"BUY", "SELL"}, NEW L \in Seq(Prices), Sorted(L), NEW p \in Prices, p \notin ToSet(L)
    PROVE  \E m \in 0 .. Len(L) : \A i \in 1 .. Len(L) :
               IF i <= m THEN Worse(p, L[i]) ELSE Worse(L[i], p)
  <1> DEFINE n == Len(L)
             T == {i \in 1 .. n : ~Worse(p, L[i])}
  <1>1. n \in Nat
    OBVIOUS
  <1>2. \A i \in 1 .. n : L[i] \in Prices /\ L[i] # p
    BY InRange
  <1>3. \A i, j \in 1 .. n : i < j => Worse(L[j], L[i])
    BY DEF Sorted
  <1> HIDE DEF n
  <1>4. \A i \in T : i \in 1 .. n /\ Worse(L[i], p)
    BY <1>2, WorseOrders, Zenon
  <1>5. CASE T = {}
    <2>1. \A i \in 1 .. n : IF i <= n THEN Worse(p, L[i]) ELSE Worse(L[i], p)
      BY <1>1, <1>5
    <2>2. n \in 0 .. n
      BY <1>1
    <2> QED BY <2>1, <2>2 DEF n
  <1>6. CASE T # {}
    <2>1. PICK t \in T : \A u \in T : t <= u
      <3>1. T \subseteq Nat
        OBVIOUS
      <3> HIDE DEF T
      <3> QED BY <1>6, <3>1, Least
    <2>2. t \in 1 .. n /\ Worse(L[t], p)
      BY <1>4, <2>1
    <2>3. ASSUME NEW i \in 1 .. n PROVE IF i <= t - 1 THEN Worse(p, L[i]) ELSE Worse(L[i], p)
      <3>1. CASE i <= t - 1
        <4>1. ~(t <= i)
          BY <2>2, <3>1
        <4>2. i \notin T
          BY <2>1, <4>1, Zenon
        <4> QED BY <3>1, <4>2
      <3>2. CASE i = t
        BY <1>1, <2>2, <3>2
      <3>3. CASE i > t
        <4>1. Worse(L[i], L[t])
          BY <1>1, <1>3, <2>2, <3>3
        <4>2. ~(i <= t - 1)
          BY <2>2, <3>3
        <4> QED BY <1>2, <2>2, <4>1, <4>2, WorseOrders, Zenon
      <3> QED BY <1>1, <2>2, <3>1, <3>2, <3>3
    <2>4. t - 1 \in 0 .. n
      BY <1>1, <2>2
    <2> QED BY <2>3, <2>4 DEF n
  <1> QED BY <1>5, <1>6

LEMMA TargetUnfolds ==
    ASSUME NEW p, NEW h,
           h = [t \in UsedPrices |-> IF t = best \/ ~Worse(p, t) THEN t ELSE h[level[t].next]]
    PROVE  \E g : /\ g = [t \in UsedPrices |-> IF t = best \/ ~Worse(p, t) THEN t ELSE g[level[t].next]]
                  /\ targetOf(p) = g[level[best].next]
  <1> DEFINE F(walk) == [t \in UsedPrices |-> IF t = best \/ ~Worse(p, t) THEN t ELSE walk[level[t].next]]
             g == CHOOSE walk : walk = F(walk)
  <1>1. targetOf(p) = g[level[best].next]
    BY DEF targetOf
  <1>2. \E walk : walk = F(walk)
    BY Zenon
  <1>3. g = F(g)
    <2> HIDE DEF F
    <2> QED BY <1>2, Zenon
  <1> HIDE DEF g
  <1> QED BY <1>1, <1>3, Zenon

(* The walk ends behind the better levels. *)
LEMMA TargetIs ==
    ASSUME NEW L, LevelsAre(L, best, level), NEW p, NEW m \in 1 .. Len(L),
           \A i \in 1 .. Len(L) : Worse(p, L[i]) <=> i <= m
    PROVE  targetOf(p) = L[Behind(m, Len(L))]
  <1> DEFINE n == Len(L)
             R == ToSet(L)
             tgt == L[Behind(m, n)]
             to(i) == IF i = 1 \/ ~(i <= m) THEN L[i] ELSE tgt
             place(t) == CHOOSE i \in 1 .. n : L[i] = t
             h == [t \in R |-> to(place(t))]
  <1>1. /\ L \in Seq(Prices) /\ n \in Nat /\ n >= 1 /\ m \in 1 .. n
        /\ R = UsedPrices /\ best = L[1]
    BY DEF LevelsAre, UsedPrices
  <1>2. \A i \in 1 .. n : L[i] \in R
    BY <1>1, InRange
  <1>3. \A t \in R : \E i \in 1 .. n : L[i] = t
    BY <1>1, OfRange
  <1>4. \A i, j \in 1 .. n : L[i] = L[j] => i = j
    BY DEF LevelsAre, Distinct
  <1>5. \A i \in 1 .. n : level[L[i]].next = L[Nxt(i, n)]
    BY DEF LevelsAre, Circle
  <1>6. \A i \in 1 .. n : Worse(p, L[i]) <=> i <= m
    OBVIOUS
  <1> HIDE DEF n, R, tgt
  <1>7. \A i \in 1 .. n : place(L[i]) = i
    <2> TAKE i \in 1 .. n
    <2>1. place(L[i]) \in 1 .. n /\ L[place(L[i])] = L[i]
      <3> HIDE DEF n
      <3> QED BY Zenon
    <2> QED BY <1>4, <2>1, Zenon
  <1> HIDE DEF place
  <1>8. \A i \in 1 .. n : (L[i] = best \/ ~Worse(p, L[i])) <=> (i = 1 \/ ~(i <= m))
    <2>1. 1 \in 1 .. n
      BY <1>1
    <2> QED BY <1>1, <1>4, <1>6, <2>1, Zenon
  <1>9. \A i \in 1 .. n : i # 1 /\ i <= m => Nxt(i, n) \in 1 .. n /\ to(Nxt(i, n)) = tgt
    <2> TAKE i \in 1 .. n
    <2> HAVE i # 1 /\ i <= m
    <2>1. Nxt(i, n) \in 1 .. n
      BY <1>1 DEF Nxt
    <2>2. Nxt(i, n) = 1 \/ ~(Nxt(i, n) <= m) => Nxt(i, n) = Behind(m, n)
      BY <1>1 DEF Nxt, Behind
    <2> QED BY <2>1, <2>2, Zenon DEF tgt
  <1> HIDE DEF to
  <1>10. \A i \in 1 .. n : to(i) = IF i = 1 \/ ~(i <= m) THEN L[i] ELSE to(Nxt(i, n))
    BY <1>9, Zenon DEF to
  <1>11. h = [t \in UsedPrices |-> IF t = best \/ ~Worse(p, t) THEN t ELSE h[level[t].next]]
    <2>1. ASSUME NEW t \in R PROVE to(place(t)) = IF t = best \/ ~Worse(p, t) THEN t ELSE h[level[t].next]
      <3>1. PICK i \in 1 .. n : L[i] = t
        BY <1>3, Zenon
      <3>2. place(t) = i
        BY <1>7, <3>1, Zenon
      <3>3. CASE i = 1 \/ ~(i <= m)
        BY <1>8, <1>10, <3>1, <3>2, <3>3, Zenon
      <3>4. CASE ~(i = 1 \/ ~(i <= m))
        <4>1. level[t].next = L[Nxt(i, n)] /\ Nxt(i, n) \in 1 .. n
          BY <1>5, <1>9, <3>1, <3>4, Zenon
        <4>2. h[level[t].next] = to(Nxt(i, n))
          BY <1>2, <1>7, <4>1, Zenon
        <4> QED BY <1>8, <1>10, <3>1, <3>2, <3>4, <4>2, Zenon
      <3> QED BY <3>3, <3>4
    <2> QED BY <1>1, <2>1
  <1> HIDE DEF h
  <1>12. PICK g : /\ g = [t \in UsedPrices |-> IF t = best \/ ~Worse(p, t) THEN t ELSE g[level[t].next]]
                  /\ targetOf(p) = g[level[best].next]
    BY <1>11, TargetUnfolds, Zenon
  <1>13. \A i \in 1 .. n : g[L[i]] = IF i = 1 \/ ~(i <= m) THEN L[i] ELSE g[L[Nxt(i, n)]]
    <2> TAKE i \in 1 .. n
    <2>1. L[i] \in UsedPrices
      BY <1>1, <1>2, Zenon
    <2>2. g[L[i]] = IF L[i] = best \/ ~Worse(p, L[i]) THEN L[i] ELSE g[level[L[i]].next]
      BY <1>12, <2>1, Zenon
    <2> QED BY <1>5, <1>8, <2>2, Zenon
  <1> DEFINE T == {d \in 0 .. n : d = n \/ g[L[n - d]] = to(n - d)}
  <1>14. 0 .. n \subseteq T
    <2>1. n \in Nat /\ 0 \in 0 .. n /\ n - 0 = n /\ n \in 1 .. n /\ 1 \in 1 .. n
      BY <1>1
    <2>2. g[L[1]] = to(1)
      BY <1>10, <1>13, <2>1, Zenon
    <2>3. ASSUME NEW i \in 1 .. n, Nxt(i, n) \in 1 .. n, g[L[Nxt(i, n)]] = to(Nxt(i, n))
          PROVE  g[L[i]] = to(i)
      BY <1>10, <1>13, <2>3, Zenon
    <2>4. g[L[n]] = to(n)
      <3>1. Nxt(n, n) = 1
        BY DEF Nxt
      <3> QED BY <2>1, <2>2, <2>3, <3>1, Zenon
    <2>5. ASSUME NEW d \in 1 .. n, d - 1 \in T PROVE d \in T
      <3>1. CASE d = n
        BY <3>1
      <3>2. CASE d # n
        <4>1. /\ n - d \in 1 .. n /\ Nxt(n - d, n) = n - (d - 1) /\ n - (d - 1) \in 1 .. n /\ d - 1 # n
              /\ d \in 0 .. n
          BY <1>1, <3>2 DEF Nxt
        <4>2. g[L[n - (d - 1)]] = to(n - (d - 1))
          BY <2>5, <4>1
        <4>3. g[L[n - d]] = to(n - d)
          BY <2>3, <4>1, <4>2, Zenon
        <4> QED BY <4>1, <4>3
      <3> QED BY <3>1, <3>2
    <2>6. 0 \in T
      BY <2>1, <2>4
    <2> HIDE DEF T
    <2> QED BY <2>1, <2>5, <2>6, UpTo
  <1>15. \A i \in 1 .. n : g[L[i]] = to(i)
    <2> TAKE i \in 1 .. n
    <2>1. n - i \in 0 .. n /\ n - i # n /\ n - (n - i) = i
      BY <1>1
    <2>2. n - i \in T
      BY <1>14, <2>1
    <2>3. g[L[n - (n - i)]] = to(n - (n - i))
      BY <2>1, <2>2, Zenon
    <2> QED BY <2>1, <2>3, Zenon
  <1>16. 1 \in 1 .. n /\ Nxt(1, n) \in 1 .. n
    BY <1>1 DEF Nxt
  <1>17. to(Nxt(1, n)) = tgt
    <2>1. Nxt(1, n) = 1 \/ ~(Nxt(1, n) <= m) => Nxt(1, n) = Behind(m, n)
      BY <1>1 DEF Nxt, Behind
    <2> QED BY <2>1, Zenon DEF to, tgt
  <1>18. targetOf(p) = tgt
    BY <1>1, <1>5, <1>12, <1>15, <1>16, <1>17, Zenon
  <1> QED BY <1>18 DEF tgt, n

-----------------------------------------------------------------------------
(* The list of the levels. *)

(* g is f with the level p between a and b. *)
Linked(f, g, p, first, a, b) ==
    /\ g \in [Prices -> LevelValues \cup {NULL}]
    /\ g[p] = Level(first, a, b) /\ g[a].next = p /\ g[b].prev = p
    /\ \A y \in Prices : y # p => (g[y] = NULL <=> f[y] = NULL)
    /\ \A y \in Prices : y # p /\ f[y] # NULL =>
           /\ g[y].first = f[y].first
           /\ y # a => g[y].next = f[y].next
           /\ y # b => g[y].prev = f[y].prev

LEMMA NeverNull ==
    /\ \A l \in LevelValues : l # NULL
    /\ \A o \in OrderValues : o # NULL
    /\ \A first \in Orders, a, b \in Prices : Level(first, a, b) \in LevelValues
    /\ \A p \in Prices, a, b \in Orders : Order(p, a, b) \in OrderValues
  BY NullAssumption DEF LevelValues, OrderValues, Level, Order

LEMMA LinkIs ==
    ASSUME NEW f \in [Prices -> LevelValues \cup {NULL}], NEW p \in Prices, f[p] = NULL,
           NEW first \in Orders, NEW a \in Prices, NEW b \in Prices, f[a] # NULL, f[b] # NULL
    PROVE  /\ f[b].prev = a => Linked(f, linkBefore(f, p, first, b), p, first, a, b)
           /\ f[a].next = b => Linked(f, linkAfter(f, p, first, a), p, first, a, b)
  <1>1. a # p /\ b # p
    OBVIOUS
  <1>2. Level(first, a, b) \in LevelValues /\ f[a] \in LevelValues /\ f[b] \in LevelValues
    BY NeverNull
  <1> DEFINE v == Level(first, a, b)
             fa == [f[a] EXCEPT !.next = p]
             fb == [f[b] EXCEPT !.prev = p]
             fab == [f[a] EXCEPT !.next = p, !.prev = p]
             g == [y \in Prices |-> IF y = p THEN v
                                    ELSE IF y = a THEN (IF a = b THEN fab ELSE fa)
                                    ELSE IF y = b THEN fb ELSE f[y]]
  <1>3. /\ fa \in LevelValues /\ fa.first = f[a].first /\ fa.prev = f[a].prev /\ fa.next = p
        /\ fb \in LevelValues /\ fb.first = f[b].first /\ fb.next = f[b].next /\ fb.prev = p
        /\ fab \in LevelValues /\ fab.first = f[a].first /\ fab.next = p /\ fab.prev = p
    BY <1>2 DEF LevelValues
  <1>4. /\ f[b].prev = a => linkBefore(f, p, first, b) = g
        /\ f[a].next = b => linkAfter(f, p, first, a) = g
    BY <1>1, <1>2 DEF linkBefore, linkAfter, LevelValues
  <1> HIDE DEF v, fa, fb, fab
  <1>5. /\ g[p] = v
        /\ \A y \in Prices : y # p => g[y] = IF y = a THEN (IF a = b THEN fab ELSE fa)
                                             ELSE IF y = b THEN fb ELSE f[y]
    OBVIOUS
  <1>6. g \in [Prices -> LevelValues \cup {NULL}]
    <2>1. v \in LevelValues
      BY <1>2 DEF v
    <2> QED BY <1>3, <2>1
  <1> HIDE DEF g
  <1>7. g[a].next = p /\ g[b].prev = p
    BY <1>1, <1>3, <1>5
  <1>8. \A y \in Prices : y # p => (g[y] = NULL <=> f[y] = NULL)
    BY <1>3, <1>5, NeverNull
  <1>9. \A y \in Prices : y # p /\ f[y] # NULL =>
            /\ g[y].first = f[y].first
            /\ y # a => g[y].next = f[y].next
            /\ y # b => g[y].prev = f[y].prev
    BY <1>3, <1>5
  <1>10. Linked(f, g, p, first, a, b)
    BY <1>5, <1>6, <1>7, <1>8, <1>9, Zenon DEF Linked, v
  <1> QED BY <1>4, <1>10, Zenon

(* A new level behind the k-th. *)
LEMMA LinkedLevels ==
    ASSUME side \in {"BUY", "SELL"}, NEW L, NEW bt, NEW f, LevelsAre(L, bt, f), L # <<>>,
           NEW p \in Prices, f[p] = NULL, NEW k \in 0 .. Len(L), NEW first \in Orders, NEW g,
           \A i \in 1 .. Len(L) : IF i <= k THEN Worse(p, L[i]) ELSE Worse(L[i], p),
           Linked(f, g, p, first, L[Before(k, Len(L))], L[Behind(k, Len(L))])
    PROVE  LevelsAre(Into(L, k, p), IF k = 0 THEN p ELSE bt, g)
  <1> DEFINE n == Len(L)
             t == Into(L, k, p)
             a == L[Before(k, n)]
             b == L[Behind(k, n)]
  <1>1. /\ L \in Seq(Prices) /\ n \in Nat /\ n >= 1 /\ Distinct(L) /\ Sorted(L)
        /\ ToSet(L) = {r \in Prices : f[r] # NULL} /\ bt = L[1] /\ Circle(f, L) /\ p \notin ToSet(L)
    BY DEF LevelsAre
  <1>2. /\ t \in Seq(Prices) /\ Len(t) = n + 1
        /\ \A i \in 1 .. n + 1 : t[i] = IF i <= k THEN L[i] ELSE IF i = k + 1 THEN p ELSE L[i - 1]
        /\ ToSet(t) = ToSet(L) \cup {p}
    <2>1. L \in Seq(Prices)
      BY <1>1
    <2>2. t \in Seq(Prices)
      BY <2>1, IntoIs
    <2>3. Len(t) = Len(L) + 1
      BY <2>1, IntoIs
    <2>4. ToSet(t) = ToSet(L) \cup {p}
      BY <2>1, IntoIs
    <2>5. ASSUME NEW i \in 1 .. Len(L) + 1
          PROVE  t[i] = IF i <= k THEN L[i] ELSE IF i = k + 1 THEN p ELSE L[i - 1]
      BY <2>1, IntoIs
    <2> QED BY <2>2, <2>3, <2>4, <2>5
  <1>3. Distinct(t)
    BY <1>1, IntoDistinct
  <1>4. LinksIn(f, g, L, p, a, b)
    <2>1. g[p].prev = a /\ g[p].next = b /\ g[a].next = p /\ g[b].prev = p
      BY DEF Linked, Level
    <2>2. \A y \in ToSet(L) : y \in Prices /\ f[y] # NULL /\ y # p
      BY <1>1
    <2>3. \A y \in Prices : y # p /\ f[y] # NULL =>
              /\ y # a => g[y].next = f[y].next
              /\ y # b => g[y].prev = f[y].prev
      BY Zenon DEF Linked
    <2> HIDE DEF a, b
    <2> QED BY <2>1, <2>2, <2>3, Zenon DEF LinksIn
  <1>5. Circle(g, t)
    BY <1>1, <1>4, IntoCircle
  <1>6. t # <<>> /\ t[1] = IF k = 0 THEN p ELSE bt
    <2>1. 1 \in 1 .. n + 1 /\ (1 <= k <=> k # 0) /\ (1 = k + 1 <=> k = 0)
      BY <1>1
    <2> HIDE DEF t
    <2>2. t # <<>>
      BY <1>1, <1>2
    <2> QED BY <1>1, <1>2, <2>1, <2>2, Zenon
  <1>7. ToSet(t) = {r \in Prices : g[r] # NULL}
    <2>1. g[p] # NULL
      <3>1. a \in Prices /\ b \in Prices
        <4>1. Before(k, n) \in 1 .. n /\ Behind(k, n) \in 1 .. n
          BY <1>1, IntoPlaces
        <4> QED BY <1>1, <4>1
      <3>2. g[p] = Level(first, a, b)
        BY DEF Linked
      <3> QED BY <3>1, <3>2, NeverNull
    <2>2. \A y \in Prices : y # p => (g[y] = NULL <=> f[y] = NULL)
      BY DEF Linked
    <2> HIDE DEF t
    <2> QED BY <1>1, <1>2, <2>1, <2>2
  <1>8. Sorted(t)
    <2> HIDE DEF t, n
    <2>1. \A i, j \in 1 .. n : i < j => Worse(L[j], L[i])
      BY <1>1 DEF Sorted, n
    <2>2. \A i \in 1 .. n : IF i <= k THEN Worse(p, L[i]) ELSE Worse(L[i], p)
      BY DEF n
    <2>3. ASSUME NEW i \in 1 .. n + 1, NEW j \in 1 .. n + 1, i < j PROVE Worse(t[j], t[i])
      <3>1. k \in 0 .. n
        BY DEF n
      <3>2. CASE j <= k
        BY <1>1, <1>2, <2>1, <2>3, <3>1, <3>2
      <3>3. CASE j = k + 1
        <4>1. t[j] = p
          BY <1>1, <1>2, <3>1, <3>3
        <4>2. t[i] = L[i] /\ i \in 1 .. n /\ i <= k
          BY <1>1, <1>2, <2>3, <3>1, <3>3
        <4> QED BY <2>2, <4>1, <4>2, Zenon
      <3>4. CASE j > k + 1
        <4>1. t[j] = L[j - 1] /\ j - 1 \in 1 .. n /\ ~(j - 1 <= k)
          BY <1>1, <1>2, <3>1, <3>4
        <4>2. CASE i <= k
          <5>1. t[i] = L[i] /\ i \in 1 .. n /\ i < j - 1
            BY <1>1, <1>2, <2>3, <3>1, <3>4, <4>2
          <5> QED BY <2>1, <4>1, <5>1, Zenon
        <4>3. CASE i = k + 1
          <5>1. t[i] = p
            BY <1>1, <1>2, <3>1, <4>3
          <5> QED BY <2>2, <4>1, <5>1, Zenon
        <4>4. CASE i > k + 1
          <5>1. t[i] = L[i - 1] /\ i - 1 \in 1 .. n /\ i - 1 < j - 1
            BY <1>1, <1>2, <2>3, <3>1, <4>4
          <5> QED BY <2>1, <4>1, <5>1, Zenon
        <4> QED BY <3>1, <4>2, <4>3, <4>4
      <3> QED BY <3>1, <3>2, <3>3, <3>4
    <2> QED BY <1>2, <2>3 DEF Sorted
  <1> HIDE DEF t
  <1> QED BY <1>2, <1>3, <1>5, <1>6, <1>7, <1>8, Zenon DEF LevelsAre, t

(* The levels of g are those of f and p, and nobody else's orders move. *)
OthersKept(f, g, p) ==
    \A y \in Prices : y # p => /\ g[y] = NULL <=> f[y] = NULL
                               /\ f[y] # NULL => g[y].first = f[y].first

LEMMA EmptyList ==
    ASSUME NEW lv, \A p \in Prices : lv[p] = NULL PROVE LevelsAre(<<>>, NULL, lv)
  <1>1. <<>> \in Seq(Prices) /\ Len(<<>>) = 0 /\ ToSet(<<>>) = {}
    BY DEF ToSet
  <1>2. 1 .. 0 = {}
    OBVIOUS
  <1> QED BY <1>1, <1>2 DEF LevelsAre, Distinct, Sorted, Circle

LEMMA SingleList ==
    ASSUME side \in {"BUY", "SELL"}, NEW p \in Prices, NEW lv, lv[p] # NULL,
           lv[p].next = p, lv[p].prev = p, \A r \in Prices : r # p => lv[r] = NULL
    PROVE  LevelsAre(<<p>>, p, lv)
  <1>1. <<p>> \in Seq(Prices) /\ Len(<<p>>) = 1 /\ <<p>>[1] = p /\ <<p>> # <<>> /\ ToSet(<<p>>) = {p}
    BY DEF ToSet
  <1>2. Nxt(1, 1) = 1 /\ Prv(1, 1) = 1 /\ 1 .. 1 = {1}
    BY DEF Nxt, Prv
  <1>3. Circle(lv, <<p>>)
    BY <1>1, <1>2 DEF Circle
  <1>4. Distinct(<<p>>) /\ Sorted(<<p>>)
    BY <1>1, <1>2 DEF Distinct, Sorted
  <1>5. {p} = {r \in Prices : lv[r] # NULL}
    OBVIOUS
  <1> QED BY <1>1, <1>3, <1>4, <1>5, Zenon DEF LevelsAre

LEMMA AddLevel ==
    ASSUME BookTypes, NEW L, LevelsAre(L, best, level), NEW p \in Prices, level[p] = NULL,
           NEW first \in Orders, addOrdersAtPrice(p, first)
    PROVE  /\ best' \in Prices /\ level' \in [Prices -> LevelValues \cup {NULL}]
           /\ \E K : LevelsAre(K, best', level')
           /\ level'[p] # NULL /\ level'[p].first = first
           /\ OthersKept(level, level', p)
  <1> DEFINE n == Len(L)
  <1>1. /\ L \in Seq(Prices) /\ Sorted(L) /\ ToSet(L) = {r \in Prices : level[r] # NULL}
        /\ best = IF L = <<>> THEN NULL ELSE L[1]
        /\ Circle(level, L)
    BY DEF LevelsAre
  <1>2. level \in [Prices -> LevelValues \cup {NULL}] /\ side \in {"BUY", "SELL"}
    BY DEF BookTypes
  <1>3. n \in Nat /\ (L = <<>> <=> n = 0) /\ p \notin ToSet(L) /\ \A i \in 1 .. n : L[i] \in Prices /\ level[L[i]] # NULL
    <2>1. \A i \in 1 .. n : L[i] \in ToSet(L)
      BY <1>1, InRange
    <2> QED BY <1>1, <2>1
  <1>4. \A i \in 1 .. n : level[L[i]].next = L[Nxt(i, n)] /\ level[L[i]].prev = L[Prv(i, n)]
    BY <1>1 DEF Circle
  <1>5. NULL \notin Prices
    BY PriceAssumption
  <1>6. CASE best = NULL
    <2>1. L = <<>>
      BY <1>1, <1>3, <1>5, <1>6
    <2>2. \A r \in Prices : level[r] = NULL
      BY <1>1, <2>1 DEF ToSet
    <2>3. best' = p /\ level' = [level EXCEPT ![p] = Level(first, p, p)]
      BY <1>6 DEF addOrdersAtPrice
    <2>4. Level(first, p, p) \in LevelValues /\ Level(first, p, p) # NULL
      BY NeverNull
    <2>5. /\ level' \in [Prices -> LevelValues \cup {NULL}] /\ level'[p] = Level(first, p, p)
          /\ \A r \in Prices : r # p => level'[r] = level[r]
      BY <1>2, <2>3, <2>4
    <2>6. level'[p].first = first /\ level'[p].next = p /\ level'[p].prev = p /\ level'[p] # NULL
      BY <2>4, <2>5 DEF Level
    <2>7. LevelsAre(<<p>>, p, level')
      BY <1>2, <2>2, <2>5, <2>6, SingleList
    <2>8. OthersKept(level, level', p)
      BY <2>5, Zenon DEF OthersKept
    <2> QED BY <2>3, <2>5, <2>6, <2>7, <2>8
  <1>7. ASSUME best # NULL, NEW k \in 0 .. n, NEW g,
               \A i \in 1 .. n : IF i <= k THEN Worse(p, L[i]) ELSE Worse(L[i], p),
               Linked(level, g, p, first, L[Before(k, n)], L[Behind(k, n)]),
               level' = g, best' = IF k = 0 THEN p ELSE best
        PROVE  /\ best' \in Prices /\ level' \in [Prices -> LevelValues \cup {NULL}]
               /\ \E K : LevelsAre(K, best', level')
               /\ level'[p] # NULL /\ level'[p].first = first
               /\ OthersKept(level, level', p)
    <2>1. L # <<>>
      BY <1>1, <1>7
    <2>2. LevelsAre(Into(L, k, p), IF k = 0 THEN p ELSE best, g)
      BY <1>2, <1>7, <2>1, LinkedLevels
    <2>3. /\ g \in [Prices -> LevelValues \cup {NULL}] /\ OthersKept(level, g, p)
          /\ g[p] = Level(first, L[Before(k, n)], L[Behind(k, n)])
      BY <1>7, Zenon DEF Linked, OthersKept
    <2>4. Before(k, n) \in 1 .. n /\ Behind(k, n) \in 1 .. n
      BY <1>3, <1>7, <2>1, IntoPlaces
    <2>5. g[p] # NULL /\ g[p].first = first
      <3>1. L[Before(k, n)] \in Prices /\ L[Behind(k, n)] \in Prices
        BY <1>3, <2>4
      <3>2. g[p] # NULL
        BY <2>3, <3>1, NeverNull
      <3> QED BY <2>3, <3>2 DEF Level
    <2>6. best' \in Prices
      BY <1>7 DEF BookTypes
    <2> QED BY <1>7, <2>2, <2>3, <2>5, <2>6, Zenon
  <1>8. CASE best # NULL
    <2>1. L # <<>> /\ best = L[1] /\ n >= 1
      BY <1>1, <1>3, <1>8
    <2>2. PICK m \in 0 .. n : \A i \in 1 .. n : IF i <= m THEN Worse(p, L[i]) ELSE Worse(L[i], p)
      BY <1>1, <1>2, <1>3, BetterOnes
    <2> DEFINE a == L[Before(m, n)]
               b == L[Behind(m, n)]
    <2>3. /\ Before(m, n) \in 1 .. n /\ Behind(m, n) \in 1 .. n
          /\ Nxt(Before(m, n), n) = Behind(m, n) /\ Prv(Behind(m, n), n) = Before(m, n)
      <3>1. m \in Nat /\ m <= n /\ n \in Nat /\ n >= 1
        BY <1>3, <2>1, <2>2
      <3> HIDE DEF n
      <3> QED BY <3>1 DEF Before, Behind, Nxt, Prv
    <2>4. /\ a \in Prices /\ b \in Prices /\ level[a] # NULL /\ level[b] # NULL
          /\ level[b].prev = a /\ level[a].next = b
      BY <1>3, <1>4, <2>3, Zenon
    <2> HIDE DEF a, b
    <2>5. /\ Linked(level, linkBefore(level, p, first, b), p, first, a, b)
          /\ Linked(level, linkAfter(level, p, first, a), p, first, a, b)
      BY <1>2, <2>4, LinkIs
    <2>6. \A i \in 1 .. n : Worse(p, L[i]) <=> i <= m
      <3>1. \A i \in 1 .. n : ~(Worse(p, L[i]) /\ Worse(L[i], p))
        BY <1>2, <1>3, WorseOrders, Zenon
      <3> QED BY <2>2, <3>1, Zenon
    <2>7. 1 \in 1 .. n /\ (1 <= m <=> m # 0)
      BY <1>3, <2>1, <2>2
    <2>8. CASE m = 0
      <3>1. ~Worse(p, best)
        BY <2>1, <2>6, <2>7, <2>8, Zenon
      <3> DEFINE ls == linkBefore(level, p, first, best)
                 g == [ls EXCEPT ![best].next = IF @ = best THEN p ELSE @]
      <3>2. best' = p /\ level' = g
        BY <1>8, <3>1 DEF addOrdersAtPrice
      <3>3. b = best
        BY <2>1, <2>8 DEF b, Behind
      <3>4. ls \in [Prices -> LevelValues \cup {NULL}] /\ ls[best].next # best /\ ls[best] # NULL /\ best \in Prices
        <4>1. Linked(level, ls, p, first, a, best)
          BY <2>5, <3>3
        <4> HIDE DEF ls
        <4>2. best # p
          BY <1>3, <2>1, <2>7
        <4>3. CASE a = best
          BY <2>4, <3>3, <4>1, <4>2, <4>3 DEF Linked
        <4>4. CASE a # best
          <5>1. ls[best].next = level[best].next
            BY <2>4, <3>3, <4>1, <4>2, <4>4 DEF Linked
          <5>2. level[best].next = L[Nxt(1, n)] /\ Nxt(1, n) \in 1 .. n
            <6>1. Nxt(1, n) \in 1 .. n
              <7>1. n \in Nat /\ n >= 1
                BY <1>3, <2>1
              <7> HIDE DEF n
              <7> QED BY <7>1 DEF Nxt
            <6> QED BY <1>4, <2>1, <2>7, <6>1, Zenon
          <5>3. n # 1
            BY <2>1, <2>8, <4>4 DEF a, Before
          <5>4. Nxt(1, n) # 1
            BY <5>3 DEF Nxt
          <5>5. L[Nxt(1, n)] # L[1]
            BY <2>7, <5>2, <5>4, Zenon DEF LevelsAre, Distinct
          <5> QED BY <2>1, <2>4, <3>3, <4>1, <4>2, <5>1, <5>2, <5>5 DEF Linked
        <4> QED BY <4>3, <4>4
      <3> HIDE DEF ls
      <3>5. g = ls
        BY <3>4, NeverNull DEF LevelValues
      <3> HIDE DEF g
      <3>6. Linked(level, level', p, first, a, b)
        BY <2>5, <3>2, <3>3, <3>5 DEF ls
      <3>7. best' = IF m = 0 THEN p ELSE best
        BY <2>8, <3>2
      <3> QED BY <1>7, <1>8, <2>2, <3>6, <3>7 DEF a, b
    <2>9. CASE m # 0
      <3>1. Worse(p, best) /\ m \in 1 .. n
        BY <1>3, <2>1, <2>2, <2>6, <2>7, <2>9
      <3>2. targetOf(p) = b
        BY <2>6, <3>1, TargetIs DEF b
      <3>3. /\ best' = best
            /\ level' = IF Worse(p, b) THEN linkAfter(level, p, first, level[best].prev)
                        ELSE linkBefore(level, p, first, b)
        BY <1>8, <3>1, <3>2 DEF addOrdersAtPrice
      <3>4. Worse(p, b) => level[best].prev = a
        <4>1. CASE m = n
          <5>1. Prv(1, n) = n /\ Before(m, n) = n
            BY <2>9, <4>1 DEF Prv, Before
          <5> QED BY <1>4, <2>1, <2>7, <5>1, Zenon DEF a
        <4>2. CASE m # n
          <5>1. Behind(m, n) \in 1 .. n /\ ~(Behind(m, n) <= m)
            BY <1>3, <2>2, <2>3, <4>2 DEF Behind
          <5> QED BY <2>6, <5>1, Zenon DEF b
        <4> QED BY <4>1, <4>2
      <3>5. Linked(level, level', p, first, a, b)
        BY <2>5, <3>3, <3>4, Zenon
      <3>6. best' = IF m = 0 THEN p ELSE best
        BY <2>9, <3>3
      <3> QED BY <1>7, <1>8, <2>2, <3>5, <3>6 DEF a, b
    <2> QED BY <2>8, <2>9
  <1> QED BY <1>6, <1>8

LEMMA RemoveLevel ==
    ASSUME BookTypes, NEW L, LevelsAre(L, best, level), NEW p \in Prices, level[p] # NULL,
           removeOrdersAtPrice(p)
    PROVE  /\ best' \in Prices \cup {NULL} /\ level' \in [Prices -> LevelValues \cup {NULL}]
           /\ \E K : LevelsAre(K, best', level')
           /\ level'[p] = NULL /\ OthersKept(level, level', p)
  <1> DEFINE n == Len(L)
  <1>1. /\ L \in Seq(Prices) /\ Sorted(L) /\ Distinct(L) /\ ToSet(L) = {r \in Prices : level[r] # NULL}
        /\ best = IF L = <<>> THEN NULL ELSE L[1]
        /\ Circle(level, L)
    BY DEF LevelsAre
  <1>2. level \in [Prices -> LevelValues \cup {NULL}] /\ side \in {"BUY", "SELL"}
    BY DEF BookTypes
  <1>3. PICK k \in 1 .. n : L[k] = p
    BY <1>1, OfRange
  <1>4. n \in Nat /\ n >= 1 /\ k \in 1 .. n /\ L # <<>> /\ \A i \in 1 .. n : L[i] \in Prices /\ level[L[i]] # NULL
    <2>1. \A i \in 1 .. n : L[i] \in ToSet(L)
      BY <1>1, InRange
    <2> QED BY <1>1, <1>3, <2>1
  <1>5. \A i \in 1 .. n : level[L[i]].next = L[Nxt(i, n)] /\ level[L[i]].prev = L[Prv(i, n)]
    BY <1>1 DEF Circle
  <1>6. \A i, j \in 1 .. n : L[i] = L[j] => i = j
    BY <1>1 DEF Distinct
  <1>7. best = L[1] /\ 1 \in 1 .. n
    BY <1>1, <1>4
  <1> HIDE DEF n
  <1> DEFINE a == L[Prv(k, n)]
             b == L[Nxt(k, n)]
  <1>8. Nxt(k, n) \in 1 .. n /\ Prv(k, n) \in 1 .. n
    BY <1>4 DEF Nxt, Prv
  <1>9. level[p].next = b /\ level[p].prev = a /\ a \in Prices /\ b \in Prices /\ level[a] # NULL /\ level[b] # NULL
    BY <1>3, <1>4, <1>5, <1>8, Zenon
  <1>10. b = p <=> n = 1
    <2>1. b = p <=> Nxt(k, n) = k
      BY <1>3, <1>6, <1>8, Zenon
    <2>2. Nxt(k, n) = k <=> n = 1
      BY <1>4 DEF Nxt
    <2> QED BY <2>1, <2>2
  <1>11. a = p <=> n = 1
    <2>1. a = p <=> Prv(k, n) = k
      BY <1>3, <1>6, <1>8, Zenon
    <2>2. Prv(k, n) = k <=> n = 1
      BY <1>4 DEF Prv
    <2> QED BY <2>1, <2>2
  <1>12. CASE n = 1
    <2>1. best' = NULL /\ level' = [level EXCEPT ![p] = NULL]
      BY <1>9, <1>10, <1>12 DEF removeOrdersAtPrice
    <2>2. \A r \in Prices : r # p => level[r] = NULL
      <3>1. ASSUME NEW r \in Prices, level[r] # NULL PROVE r = p
        <4>1. r \in ToSet(L)
          BY <1>1, <3>1
        <4>2. PICK i \in 1 .. n : L[i] = r
          BY <1>1, <4>1, OfRange DEF n
        <4>3. i = k
          BY <1>4, <1>12
        <4> QED BY <1>3, <4>2, <4>3
      <3> QED BY <3>1
    <2>3. /\ level' \in [Prices -> LevelValues \cup {NULL}] /\ level'[p] = NULL
          /\ \A r \in Prices : r # p => level'[r] = level[r]
      BY <1>2, <2>1
    <2>4. LevelsAre(<<>>, NULL, level')
      <3>1. \A r \in Prices : level'[r] = NULL
        BY <2>2, <2>3
      <3> QED BY <3>1, EmptyList
    <2>5. OthersKept(level, level', p)
      BY <2>3, Zenon DEF OthersKept
    <2> QED BY <2>1, <2>3, <2>4, <2>5
  <1>13. CASE n # 1
    <2> DEFINE t == Without(L, k)
    <2>1. n >= 2 /\ a # p /\ b # p
      BY <1>4, <1>10, <1>11, <1>13
    <2>2. best' = bestWithout(p) /\ level' = [level EXCEPT ![a].next = b, ![b].prev = a, ![p] = NULL]
      BY <1>9, <2>1 DEF removeOrdersAtPrice
    <2> DEFINE fa == [level[a] EXCEPT !.next = b]
               fb == [level[b] EXCEPT !.prev = a]
               fab == [level[a] EXCEPT !.next = b, !.prev = a]
               g == [y \in Prices |-> IF y = p THEN NULL
                                      ELSE IF y = a THEN (IF a = b THEN fab ELSE fa)
                                      ELSE IF y = b THEN fb ELSE level[y]]
    <2> HIDE DEF a, b
    <2>3. level[a] \in LevelValues /\ level[b] \in LevelValues
      BY <1>2, <1>9
    <2>4. /\ fa \in LevelValues /\ fa.first = level[a].first /\ fa.prev = level[a].prev /\ fa.next = b
          /\ fb \in LevelValues /\ fb.first = level[b].first /\ fb.next = level[b].next /\ fb.prev = a
          /\ fab \in LevelValues /\ fab.first = level[a].first /\ fab.next = b /\ fab.prev = a
      BY <1>9, <2>3 DEF LevelValues
    <2>5. level' = g
      BY <1>2, <1>9, <2>1, <2>2, <2>3 DEF LevelValues
    <2> HIDE DEF fa, fb, fab
    <2>6. /\ g \in [Prices -> LevelValues \cup {NULL}] /\ g[p] = NULL
          /\ \A y \in Prices : y # p => g[y] = IF y = a THEN (IF a = b THEN fab ELSE fa)
                                               ELSE IF y = b THEN fb ELSE level[y]
      BY <1>2, <2>4
    <2> HIDE DEF g
    <2>7. OthersKept(level, g, p)
      BY <1>9, <2>4, <2>6, NeverNull DEF OthersKept
    <2>8. LinksOut(level, g, L, p)
      <3>1. g[a].next = b /\ g[b].prev = a
        BY <1>9, <2>1, <2>4, <2>6
      <3>2. \A y \in Prices \ {p} : (y # a => g[y].next = level[y].next) /\ (y # b => g[y].prev = level[y].prev)
        BY <1>9, <2>4, <2>6
      <3>3. ToSet(L) \ {p} \subseteq Prices \ {p}
        BY <1>1
      <3> QED BY <1>9, <3>1, <3>2, <3>3, Zenon DEF LinksOut
    <2>9. Circle(g, t)
      <3>1. n = Len(L)
        BY DEF n
      <3> QED BY <1>1, <1>3, <1>4, <2>1, <2>8, <3>1, WithoutCircle
    <2>10. /\ t \in Seq(Prices) /\ Len(t) = n - 1 /\ ToSet(t) = ToSet(L) \ {p} /\ Distinct(t)
           /\ \A i \in 1 .. n - 1 : t[i] = L[WithoutFrom(i, k)]
      <3>1. k \in 1 .. Len(L) /\ Len(L) = n
        BY DEF n
      <3>2. /\ t \in Seq(Prices) /\ Len(t) = Len(L) - 1
            /\ \A i \in 1 .. Len(L) - 1 : t[i] = IF i < k THEN L[i] ELSE L[i + 1]
            /\ ToSet(t) = ToSet(L) \ {L[k]}
            /\ Distinct(t)
        <4>1. L \in Seq(Prices) /\ Distinct(L)
          BY <1>1
        <4>2. \A i \in 1 .. Len(L) - 1 : t[i] = IF i < k THEN L[i] ELSE L[i + 1]
          BY DEF Without
        <4>3. /\ t \in Seq(Prices) /\ Len(t) = Len(L) - 1
              /\ ToSet(t) = ToSet(L) \ {L[k]}
              /\ Distinct(t)
          BY <3>1, <4>1, WithoutIs
        <4> QED BY <4>2, <4>3
      <3> HIDE DEF t
      <3>3. \A i \in 1 .. n - 1 : t[i] = L[WithoutFrom(i, k)]
        BY <3>1, <3>2 DEF WithoutFrom
      <3> QED BY <1>3, <3>1, <3>2, <3>3, Zenon
    <2> HIDE DEF t
    <2>11. Sorted(t)
      <3>1. ASSUME NEW i \in 1 .. n - 1, NEW j \in 1 .. n - 1, i < j PROVE Worse(t[j], t[i])
        <4>1. /\ WithoutFrom(i, k) \in 1 .. n /\ WithoutFrom(j, k) \in 1 .. n
              /\ WithoutFrom(i, k) < WithoutFrom(j, k)
          BY <1>4, <3>1 DEF WithoutFrom
        <4>2. Worse(L[WithoutFrom(j, k)], L[WithoutFrom(i, k)])
          BY <1>1, <4>1, Zenon DEF Sorted, n
        <4> QED BY <2>10, <4>2, Zenon
      <3> QED BY <2>10, <3>1 DEF Sorted
    <2>12. t # <<>> /\ best' = t[1]
      <3>1. 1 \in 1 .. n - 1
        BY <1>4, <2>1
      <3>2. t # <<>>
        BY <1>4, <2>1, <2>10
      <3>3. p = best <=> k = 1
        BY <1>3, <1>6, <1>7, Zenon
      <3>4. WithoutFrom(1, k) = IF k = 1 THEN Nxt(k, n) ELSE 1
        BY <1>4, <2>1 DEF WithoutFrom, Nxt
      <3>5. t[1] = L[WithoutFrom(1, k)]
        BY <2>10, <3>1, Zenon
      <3> QED BY <1>7, <1>9, <2>2, <3>2, <3>3, <3>4, <3>5, Zenon DEF bestWithout, b
    <2>13. ToSet(t) = {r \in Prices : g[r] # NULL}
      BY <1>1, <2>6, <2>7, <2>10 DEF OthersKept
    <2>14. LevelsAre(t, best', g)
      BY <2>9, <2>10, <2>11, <2>12, <2>13, Zenon DEF LevelsAre
    <2>15. best' \in Prices
      BY <1>7, <1>9, <2>2, <1>4 DEF bestWithout
    <2> QED BY <2>5, <2>6, <2>7, <2>14, <2>15, Zenon
  <1> QED BY <1>12, <1>13

-----------------------------------------------------------------------------
(* The lists of the orders. *)
LEMMA OrdersKept ==
    ASSUME NEW r \in Prices, NEW q, NEW f, NEW g, NEW od, NEW oe, OrdersAre(r, q, f, od),
           g[r] = NULL <=> f[r] = NULL, f[r] # NULL => g[r].first = f[r].first,
           \A y \in Orders : oe[y] # NULL /\ oe[y].price = r <=> od[y] # NULL /\ od[y].price = r,
           \A y \in ToSet(q) : oe[y].next = od[y].next /\ oe[y].prev = od[y].prev
    PROVE  OrdersAre(r, q, g, oe)
  <1>1. /\ q \in Seq(Orders) /\ Distinct(q)
        /\ ToSet(q) = {id \in Orders : od[id] # NULL /\ od[id].price = r}
        /\ IF q = <<>> THEN f[r] = NULL ELSE f[r] # NULL /\ f[r].first = q[1]
    BY DEF OrdersAre
  <1>2. ToSet(q) = {id \in Orders : oe[id] # NULL /\ oe[id].price = r}
    BY <1>1
  <1>3. Circle(oe, q)
    <2>1. \A i \in 1 .. Len(q) : q[i] \in ToSet(q)
      BY <1>1, InRange
    <2>2. \A i \in 1 .. Len(q) : od[q[i]].next = q[Nxt(i, Len(q))] /\ od[q[i]].prev = q[Prv(i, Len(q))]
      BY DEF OrdersAre, Circle
    <2>3. \A i \in 1 .. Len(q) : oe[q[i]].next = q[Nxt(i, Len(q))] /\ oe[q[i]].prev = q[Prv(i, Len(q))]
      BY <2>1, <2>2, Zenon
    <2> QED BY <2>3, Zenon DEF Circle
  <1> QED BY <1>1, <1>2, <1>3, Zenon DEF OrdersAre

LEMMA LevelsKept ==
    ASSUME NEW L, NEW b, NEW f, NEW g, LevelsAre(L, b, f),
           \A p \in Prices : /\ g[p] = NULL <=> f[p] = NULL
                             /\ f[p] # NULL => g[p].next = f[p].next /\ g[p].prev = f[p].prev
    PROVE  LevelsAre(L, b, g)
  <1>1. /\ L \in Seq(Prices) /\ Distinct(L) /\ Sorted(L) /\ ToSet(L) = {p \in Prices : f[p] # NULL}
        /\ b = (IF L = <<>> THEN NULL ELSE L[1])
    BY DEF LevelsAre
  <1>2. ToSet(L) = {p \in Prices : g[p] # NULL}
    BY <1>1
  <1>3. Circle(g, L)
    <2>1. \A i \in 1 .. Len(L) : L[i] \in Prices /\ f[L[i]] # NULL
      <3>1. \A i \in 1 .. Len(L) : L[i] \in ToSet(L)
        BY <1>1, InRange
      <3> QED BY <1>1, <3>1
    <2>2. \A i \in 1 .. Len(L) : f[L[i]].next = L[Nxt(i, Len(L))] /\ f[L[i]].prev = L[Prv(i, Len(L))]
      BY DEF LevelsAre, Circle
    <2>3. \A i \in 1 .. Len(L) : g[L[i]].next = L[Nxt(i, Len(L))] /\ g[L[i]].prev = L[Prv(i, Len(L))]
      BY <2>1, <2>2, Zenon
    <2> QED BY <2>3, Zenon DEF Circle
  <1> QED BY <1>1, <1>2, <1>3, Zenon DEF LevelsAre

LEMMA AppendIs ==
    ASSUME NEW S, NEW s \in Seq(S), NEW x \in S PROVE Into(s, Len(s), x) = Append(s, x)
  <1> DEFINE t == Into(s, Len(s), x)
  <1>1. Len(s) \in Nat /\ Len(s) \in 0 .. Len(s)
    OBVIOUS
  <1>2. /\ t \in Seq(S) /\ Len(t) = Len(s) + 1
        /\ \A i \in 1 .. Len(s) + 1 : t[i] = IF i <= Len(s) THEN s[i] ELSE IF i = Len(s) + 1 THEN x ELSE s[i - 1]
    <2>1. t \in Seq(S) /\ Len(t) = Len(s) + 1
      BY <1>1, IntoIs
    <2>2. \A i \in 1 .. Len(s) + 1 : t[i] = IF i <= Len(s) THEN s[i] ELSE IF i = Len(s) + 1 THEN x ELSE s[i - 1]
      BY <1>1 DEF Into
    <2> QED BY <2>1, <2>2
  <1> HIDE DEF t
  <1>3. /\ Append(s, x) \in Seq(S) /\ Len(Append(s, x)) = Len(s) + 1
        /\ \A i \in 1 .. Len(s) : Append(s, x)[i] = s[i]
        /\ Append(s, x)[Len(s) + 1] = x
    OBVIOUS
  <1>4. \A i \in 1 .. Len(s) + 1 : t[i] = Append(s, x)[i]
    BY <1>1, <1>2, <1>3
  <1>5. t = Append(s, x)
    BY <1>2, <1>3, <1>4, SeqEqual
  <1> QED BY <1>5 DEF t

(* Prices of the orders other than id are what they were. *)
PricesKept(f, g, id) ==
    \A y \in Orders : y # id => /\ g[y] = NULL <=> f[y] = NULL
                                /\ f[y] # NULL => g[y].price = f[y].price

(* Every price has the list of its orders. *)
Queues(Q, lv, od) == \A r \in Prices : OrdersAre(r, Q[r], lv, od)

LEMMA AddFirst ==
    ASSUME BookTypes, NEW L, LevelsAre(L, best, level), NEW Q, Queues(Q, level, order),
           NEW id \in Orders, order[id] = NULL, NEW p \in Prices, level[p] = NULL, addOrder(id, p)
    PROVE  /\ BookTypes' /\ \E K : LevelsAre(K, best', level')
           /\ \A r \in Prices : OrdersAre(r, IF r = p THEN Append(Q[p], id) ELSE Q[r], level', order')
  <1>1. /\ addOrdersAtPrice(p, id) /\ order' = [order EXCEPT ![id] = Order(p, id, id)] /\ side' = side
    BY DEF addOrder
  <1>2. /\ best' \in Prices /\ level' \in [Prices -> LevelValues \cup {NULL}]
        /\ \E K : LevelsAre(K, best', level')
        /\ level'[p] # NULL /\ level'[p].first = id
        /\ OthersKept(level, level', p)
    BY <1>1, AddLevel
  <1>3. order \in [Orders -> OrderValues \cup {NULL}] /\ side \in {"BUY", "SELL"}
    BY DEF BookTypes
  <1>4. Order(p, id, id) \in OrderValues /\ Order(p, id, id) # NULL
    BY NeverNull
  <1>5. /\ order' \in [Orders -> OrderValues \cup {NULL}] /\ order'[id] = Order(p, id, id)
        /\ \A y \in Orders : y # id => order'[y] = order[y]
    BY <1>1, <1>3, <1>4
  <1>6. order'[id].price = p /\ order'[id].next = id /\ order'[id].prev = id /\ order'[id] # NULL
    BY <1>4, <1>5 DEF Order
  <1>7. BookTypes'
    BY <1>1, <1>2, <1>3, <1>5 DEF BookTypes
  <1>8. Q[p] = <<>> /\ Append(Q[p], id) = <<id>>
    <2>1. Q[p] = <<>>
      BY Zenon DEF Queues, OrdersAre
    <2> QED BY <2>1
  <1>9. OrdersAre(p, <<id>>, level', order')
    <2>1. <<id>> \in Seq(Orders) /\ Len(<<id>>) = 1 /\ <<id>>[1] = id /\ <<id>> # <<>> /\ ToSet(<<id>>) = {id}
      BY DEF ToSet
    <2>2. Nxt(1, 1) = 1 /\ Prv(1, 1) = 1 /\ 1 .. 1 = {1}
      BY DEF Nxt, Prv
    <2>3. Circle(order', <<id>>)
      BY <1>6, <2>1, <2>2 DEF Circle
    <2>4. Distinct(<<id>>)
      BY <2>1, <2>2 DEF Distinct
    <2>5. {id} = {y \in Orders : order'[y] # NULL /\ order'[y].price = p}
      <3>1. ToSet(Q[p]) = {y \in Orders : order[y] # NULL /\ order[y].price = p}
        BY Zenon DEF Queues, OrdersAre
      <3>2. ToSet(Q[p]) = {}
        BY <1>8 DEF ToSet
      <3> QED BY <1>5, <1>6, <3>1, <3>2
    <2> QED BY <1>2, <2>1, <2>3, <2>4, <2>5, Zenon DEF OrdersAre
  <1>10. ASSUME NEW r \in Prices, r # p PROVE OrdersAre(r, Q[r], level', order')
    <2>1. OrdersAre(r, Q[r], level, order)
      BY DEF Queues
    <2>2. level'[r] = NULL <=> level[r] = NULL
      BY <1>2, <1>10 DEF OthersKept
    <2>3. level[r] # NULL => level'[r].first = level[r].first
      BY <1>2, <1>10 DEF OthersKept
    <2>4. \A y \in Orders : order'[y] # NULL /\ order'[y].price = r <=> order[y] # NULL /\ order[y].price = r
      BY <1>5, <1>6, <1>10
    <2>5. \A y \in ToSet(Q[r]) : order'[y].next = order[y].next /\ order'[y].prev = order[y].prev
      <3>1. ToSet(Q[r]) = {y \in Orders : order[y] # NULL /\ order[y].price = r}
        BY <2>1 DEF OrdersAre
      <3> QED BY <1>5, <3>1
    <2> QED BY <2>1, <2>2, <2>3, <2>4, <2>5, OrdersKept
  <1> QED BY <1>2, <1>7, <1>8, <1>9, <1>10

LEMMA AddBehind ==
    ASSUME BookTypes, NEW L, LevelsAre(L, best, level), NEW Q, Queues(Q, level, order),
           NEW id \in Orders, order[id] = NULL, NEW p \in Prices, level[p] # NULL, addOrder(id, p)
    PROVE  /\ BookTypes' /\ \E K : LevelsAre(K, best', level')
           /\ \A r \in Prices : OrdersAre(r, IF r = p THEN Append(Q[p], id) ELSE Q[r], level', order')
  <1> DEFINE q == Q[p]
             n == Len(q)
             a == q[n]
             b == q[1]
             t == Append(q, id)
  <1>1. order \in [Orders -> OrderValues \cup {NULL}] /\ level' = level /\ best' = best /\ side' = side
    BY DEF BookTypes, addOrder
  <1>2. /\ q \in Seq(Orders) /\ Distinct(q) /\ q # <<>> /\ level[p].first = b
        /\ ToSet(q) = {y \in Orders : order[y] # NULL /\ order[y].price = p}
        /\ Circle(order, q)
    BY Zenon DEF Queues, OrdersAre
  <1>3. n \in Nat /\ n >= 1 /\ 1 \in 1 .. n /\ n \in 1 .. n
    BY <1>2
  <1>4. /\ a \in Orders /\ order[a] # NULL /\ order[a].price = p
        /\ b \in Orders /\ order[b] # NULL /\ order[b].price = p
    <2>1. \A i \in 1 .. n : q[i] \in ToSet(q)
      BY <1>2, InRange
    <2> QED BY <1>2, <1>3, <2>1
  <1>5. order[b].prev = a
    <2>1. Prv(1, n) = n
      BY DEF Prv
    <2> QED BY <1>2, <1>3, <2>1 DEF Circle
  <1>6. order' = [order EXCEPT ![id] = Order(p, a, b), ![a].next = id, ![b].prev = id]
    <2>1. order' = [order EXCEPT ![id] = Order(p, order[b].prev, b),
                                 ![order[b].prev].next = id,
                                 ![b].prev = id]
      BY <1>2 DEF addOrder
    <2> QED BY <1>5, <2>1, Zenon
  <1> HIDE DEF q, a, b, n
  <1> DEFINE v == Order(p, a, b)
             fa == [order[a] EXCEPT !.next = id]
             fb == [order[b] EXCEPT !.prev = id]
             fab == [order[a] EXCEPT !.next = id, !.prev = id]
             g == [y \in Orders |-> IF y = id THEN v
                                    ELSE IF y = a THEN (IF a = b THEN fab ELSE fa)
                                    ELSE IF y = b THEN fb ELSE order[y]]
  <1>7. a # id /\ b # id /\ order[a] \in OrderValues /\ order[b] \in OrderValues /\ v \in OrderValues
    BY <1>1, <1>4, NeverNull
  <1>8. /\ fa \in OrderValues /\ fa.price = order[a].price /\ fa.prev = order[a].prev /\ fa.next = id
        /\ fb \in OrderValues /\ fb.price = order[b].price /\ fb.next = order[b].next /\ fb.prev = id
        /\ fab \in OrderValues /\ fab.price = order[a].price /\ fab.next = id /\ fab.prev = id
    BY <1>7 DEF OrderValues
  <1>9. order' = g
    BY <1>1, <1>4, <1>6, <1>7 DEF OrderValues
  <1>10. v.price = p /\ v.prev = a /\ v.next = b /\ v # NULL
    BY <1>7, NeverNull DEF Order
  <1> HIDE DEF v, fa, fb, fab
  <1>11. /\ g \in [Orders -> OrderValues \cup {NULL}] /\ g[id] = v
         /\ \A y \in Orders : y # id => g[y] = IF y = a THEN (IF a = b THEN fab ELSE fa)
                                               ELSE IF y = b THEN fb ELSE order[y]
    BY <1>1, <1>7, <1>8
  <1> HIDE DEF g
  <1>12. PricesKept(order, g, id)
    BY <1>4, <1>8, <1>11, NeverNull DEF PricesKept
  <1>13. \A y \in Orders : y # id => (y # a => g[y].next = order[y].next) /\ (y # b => g[y].prev = order[y].prev)
    BY <1>4, <1>8, <1>11
  <1>14. LinksIn(order, g, q, id, a, b)
    <2>1. g[id].prev = a /\ g[id].next = b
      BY <1>10, <1>11
    <2>2. g[a].next = id /\ g[b].prev = id
      BY <1>4, <1>7, <1>8, <1>11
    <2>3. \A y \in ToSet(q) : y \in Orders /\ y # id
      BY <1>2
    <2> QED BY <1>13, <2>1, <2>2, <2>3, Zenon DEF LinksIn
  <1>15. id \notin ToSet(q)
    BY <1>2
  <1>16. Into(q, n, id) = t
    BY <1>2, AppendIs DEF n
  <1>17. Circle(g, t)
    <2>1. Before(n, n) = n /\ Behind(n, n) = 1 /\ n \in 0 .. n
      BY <1>3 DEF Before, Behind
    <2>2. LinksIn(order, g, q, id, q[Before(n, n)], q[Behind(n, n)])
      BY <1>14, <2>1 DEF a, b
    <2>3. Len(q) >= 1 /\ n \in 0 .. Len(q) /\ n = Len(q)
      BY <1>3, <2>1 DEF n
    <2>4. Circle(g, Into(q, n, id))
      BY <1>2, <1>15, <2>2, <2>3, IntoCircle
    <2> QED BY <1>16, <2>4
  <1>18. t \in Seq(Orders) /\ Distinct(t) /\ ToSet(t) = ToSet(q) \cup {id} /\ t # <<>> /\ t[1] = b
    <2>1. n \in 0 .. Len(q) /\ n = Len(q)
      BY <1>3 DEF n
    <2>2. Distinct(Into(q, n, id))
      BY <1>2, <1>15, <2>1, IntoDistinct
    <2>3. ToSet(Into(q, n, id)) = ToSet(q) \cup {id}
      <3>1. q \in Seq(Orders)
        BY <1>2
      <3> QED BY <2>1, <3>1, IntoIs
    <2>4. t \in Seq(Orders) /\ t # <<>> /\ t[1] = q[1]
      BY <1>2
    <2> QED BY <1>16, <2>2, <2>3, <2>4 DEF b
  <1> HIDE DEF t
  <1>19. OrdersAre(p, t, level', g)
    <2>1. ToSet(t) = {y \in Orders : g[y] # NULL /\ g[y].price = p}
      BY <1>2, <1>10, <1>11, <1>12, <1>18 DEF PricesKept
    <2> QED BY <1>1, <1>2, <1>17, <1>18, <2>1, Zenon DEF OrdersAre
  <1>20. ASSUME NEW r \in Prices, r # p PROVE OrdersAre(r, Q[r], level', g)
    <2>1. OrdersAre(r, Q[r], level, order)
      BY DEF Queues
    <2>2. \A y \in Orders : g[y] # NULL /\ g[y].price = r <=> order[y] # NULL /\ order[y].price = r
      BY <1>10, <1>11, <1>12, <1>20 DEF PricesKept
    <2>3. \A y \in ToSet(Q[r]) : g[y].next = order[y].next /\ g[y].prev = order[y].prev
      <3>1. ToSet(Q[r]) = {y \in Orders : order[y] # NULL /\ order[y].price = r}
        BY <2>1 DEF OrdersAre
      <3>2. \A y \in ToSet(Q[r]) : y \in Orders /\ y # id /\ y # a /\ y # b
        BY <1>4, <1>20, <3>1
      <3> QED BY <1>13, <3>2, Zenon
    <2> QED BY <1>1, <2>1, <2>2, <2>3, OrdersKept
  <1>21. BookTypes'
    BY <1>1, <1>9, <1>11 DEF BookTypes
  <1> QED BY <1>1, <1>9, <1>19, <1>20, <1>21 DEF t, q

LEMMA RemoveOnly ==
    ASSUME BookTypes, NEW L, LevelsAre(L, best, level), NEW Q, Queues(Q, level, order),
           NEW id \in Orders, NEW p \in Prices, order[id] # NULL, order[id].price = p, order[id].prev = id,
           removeOrder(id)
    PROVE  /\ BookTypes' /\ \E K : LevelsAre(K, best', level')
           /\ \E k \in 1 .. Len(Q[p]) :
                  /\ Q[p][k] = id
                  /\ \A r \in Prices :
                         OrdersAre(r, IF r = p THEN RemoveAt(Q[p], k) ELSE Q[r], level', order')
  <1> DEFINE q == Q[p]
             n == Len(q)
  <1>1. /\ removeOrdersAtPrice(p) /\ order' = [order EXCEPT ![id] = NULL] /\ side' = side
    BY DEF removeOrder
  <1>2. /\ q \in Seq(Orders) /\ Distinct(q)
        /\ ToSet(q) = {y \in Orders : order[y] # NULL /\ order[y].price = p}
        /\ IF q = <<>> THEN level[p] = NULL ELSE level[p] # NULL /\ level[p].first = q[1]
        /\ Circle(order, q)
    BY Zenon DEF Queues, OrdersAre
  <1>3. id \in ToSet(q)
    BY <1>2
  <1>4. PICK k \in 1 .. n : q[k] = id
    BY <1>2, <1>3, OfRange
  <1>5. n \in Nat /\ k \in 1 .. n /\ q # <<>>
    BY <1>2, <1>4
  <1>6. n = 1
    <2>1. order[id].prev = q[Prv(k, n)]
      BY <1>2, <1>4, Zenon DEF Circle
    <2>2. Prv(k, n) \in 1 .. n
      BY <1>5 DEF Prv
    <2>3. Prv(k, n) = k
      <3>1. \A i, j \in 1 .. n : q[i] = q[j] => i = j
        BY <1>2 DEF Distinct
      <3>2. q[Prv(k, n)] = q[k]
        BY <1>4, <2>1
      <3> HIDE DEF q, n
      <3> QED BY <1>4, <2>2, <3>1, <3>2, Zenon
    <2> HIDE DEF q, n
    <2> QED BY <1>5, <2>3 DEF Prv
  <1>7. /\ best' \in Prices \cup {NULL} /\ level' \in [Prices -> LevelValues \cup {NULL}]
        /\ \E K : LevelsAre(K, best', level')
        /\ level'[p] = NULL /\ OthersKept(level, level', p)
    BY <1>1, <1>2, <1>5, RemoveLevel, Zenon
  <1>8. order \in [Orders -> OrderValues \cup {NULL}] /\ side \in {"BUY", "SELL"}
    BY DEF BookTypes
  <1>9. /\ order' \in [Orders -> OrderValues \cup {NULL}] /\ order'[id] = NULL
        /\ \A y \in Orders : y # id => order'[y] = order[y]
    BY <1>1, <1>8
  <1>10. BookTypes'
    BY <1>1, <1>7, <1>8, <1>9 DEF BookTypes
  <1>11. RemoveAt(q, k) = <<>>
    <2>1. q \in Seq(Orders) /\ Distinct(q) /\ k \in 1 .. Len(q) /\ Len(q) - 1 = 0
      BY <1>2, <1>5, <1>6
    <2> HIDE DEF q
    <2>2. /\ Without(q, k) \in Seq(Orders) /\ Len(Without(q, k)) = Len(q) - 1
          /\ Without(q, k) = RemoveAt(q, k)
      BY <2>1, WithoutIs
    <2> QED BY <2>1, <2>2
  <1>12. OrdersAre(p, <<>>, level', order')
    <2>1. <<>> \in Seq(Orders) /\ Len(<<>>) = 0 /\ ToSet(<<>>) = {} /\ 1 .. 0 = {}
      BY DEF ToSet
    <2>2. {y \in Orders : order'[y] # NULL /\ order'[y].price = p} = {}
      <3>1. ASSUME NEW y \in Orders, order'[y] # NULL, order'[y].price = p PROVE FALSE
        <4>1. y # id /\ order[y] # NULL /\ order[y].price = p
          BY <1>9, <3>1
        <4>2. PICK j \in 1 .. n : q[j] = y
          <5>1. y \in ToSet(q)
            BY <1>2, <4>1
          <5> QED BY <1>2, <5>1, OfRange
        <4> QED BY <1>4, <1>5, <1>6, <4>1, <4>2
      <3> QED BY <3>1
    <2>3. Distinct(<<>>) /\ Circle(order', <<>>)
      BY <2>1 DEF Distinct, Circle
    <2> QED BY <1>7, <2>1, <2>2, <2>3, Zenon DEF OrdersAre
  <1>13. ASSUME NEW r \in Prices, r # p PROVE OrdersAre(r, Q[r], level', order')
    <2>1. OrdersAre(r, Q[r], level, order)
      BY DEF Queues
    <2>2. level'[r] = NULL <=> level[r] = NULL
      BY <1>7, <1>13 DEF OthersKept
    <2>3. level[r] # NULL => level'[r].first = level[r].first
      BY <1>7, <1>13 DEF OthersKept
    <2>4. \A y \in Orders : order'[y] # NULL /\ order'[y].price = r <=> order[y] # NULL /\ order[y].price = r
      BY <1>9, <1>13
    <2>5. \A y \in ToSet(Q[r]) : order'[y].next = order[y].next /\ order'[y].prev = order[y].prev
      <3>1. ToSet(Q[r]) = {y \in Orders : order[y] # NULL /\ order[y].price = r}
        BY <2>1 DEF OrdersAre
      <3> QED BY <1>9, <1>13, <3>1
    <2> QED BY <2>1, <2>2, <2>3, <2>4, <2>5, OrdersKept
  <1> HIDE DEF q
  <1>14. \A r \in Prices : OrdersAre(r, IF r = p THEN RemoveAt(q, k) ELSE Q[r], level', order')
    BY <1>11, <1>12, <1>13
  <1> QED BY <1>4, <1>7, <1>10, <1>14, Zenon DEF q

LEMMA RemoveOneOf ==
    ASSUME BookTypes, NEW L, LevelsAre(L, best, level), NEW Q, Queues(Q, level, order),
           NEW id \in Orders, NEW p \in Prices, order[id] # NULL, order[id].price = p, order[id].prev # id,
           removeOrder(id)
    PROVE  /\ BookTypes' /\ \E K : LevelsAre(K, best', level')
           /\ \E k \in 1 .. Len(Q[p]) :
                  /\ Q[p][k] = id
                  /\ \A r \in Prices :
                         OrdersAre(r, IF r = p THEN RemoveAt(Q[p], k) ELSE Q[r], level', order')
  <1> DEFINE q == Q[p]
             n == Len(q)
  <1>1. /\ q \in Seq(Orders) /\ Distinct(q)
        /\ ToSet(q) = {y \in Orders : order[y] # NULL /\ order[y].price = p}
        /\ IF q = <<>> THEN level[p] = NULL ELSE level[p] # NULL /\ level[p].first = q[1]
        /\ Circle(order, q)
    BY Zenon DEF Queues, OrdersAre
  <1>2. id \in ToSet(q)
    BY <1>1
  <1>3. PICK k \in 1 .. n : q[k] = id
    BY <1>1, <1>2, OfRange
  <1>4. n \in Nat /\ k \in 1 .. n /\ 1 \in 1 .. n /\ level[p] # NULL /\ level[p].first = q[1]
    BY <1>1, <1>3
  <1>5. \A i, j \in 1 .. n : q[i] = q[j] => i = j
    BY <1>1 DEF Distinct
  <1>6. \A i \in 1 .. n : order[q[i]].next = q[Nxt(i, n)] /\ order[q[i]].prev = q[Prv(i, n)]
    BY <1>1 DEF Circle
  <1>7. \A i \in 1 .. n : q[i] \in Orders /\ order[q[i]] # NULL /\ order[q[i]].price = p
    <2>1. \A i \in 1 .. n : q[i] \in ToSet(q)
      BY <1>1, InRange
    <2> QED BY <1>1, <2>1
  <1>8. order \in [Orders -> OrderValues \cup {NULL}] /\ level \in [Prices -> LevelValues \cup {NULL}]
    BY DEF BookTypes
  <1> DEFINE a == q[Prv(k, n)]
             b == q[Nxt(k, n)]
             t == Without(q, k)
  <1> HIDE DEF q, n
  <1>9. Nxt(k, n) \in 1 .. n /\ Prv(k, n) \in 1 .. n
    BY <1>4 DEF Nxt, Prv
  <1>10. /\ order[id].next = b /\ order[id].prev = a /\ a \in Orders /\ b \in Orders
         /\ order[a] # NULL /\ order[b] # NULL /\ order[a].price = p /\ order[b].price = p
    BY <1>3, <1>6, <1>7, <1>9, Zenon
  <1>11. n >= 2 /\ a # id /\ b # id
    <2>1. a # id
      BY <1>10
    <2>2. Prv(k, n) # k
      BY <1>3, <2>1
    <2>3. n >= 2 /\ Nxt(k, n) # k
      BY <1>4, <2>2 DEF Prv, Nxt
    <2>4. b # id
      BY <1>3, <1>5, <1>9, <2>3, Zenon
    <2> QED BY <2>1, <2>3, <2>4
  <1>12. /\ order' = [order EXCEPT ![a].next = b, ![b].prev = a, ![id] = NULL]
         /\ level' = [level EXCEPT ![p].first = IF @ = id THEN b ELSE @]
         /\ best' = best /\ side' = side
    <2>1. /\ order' = [order EXCEPT ![order[id].prev].next = order[id].next,
                                    ![order[id].next].prev = order[id].prev,
                                    ![id] = NULL]
          /\ level' = [level EXCEPT ![p].first = IF @ = id THEN order[id].next ELSE @]
          /\ best' = best /\ side' = side
      BY DEF removeOrder
    <2> QED BY <1>10, <2>1, Zenon
  <1> HIDE DEF a, b, t
  <1> DEFINE fa == [order[a] EXCEPT !.next = b]
             fb == [order[b] EXCEPT !.prev = a]
             fab == [order[a] EXCEPT !.next = b, !.prev = a]
             g == [y \in Orders |-> IF y = id THEN NULL
                                    ELSE IF y = a THEN (IF a = b THEN fab ELSE fa)
                                    ELSE IF y = b THEN fb ELSE order[y]]
  <1>13. order[a] \in OrderValues /\ order[b] \in OrderValues
    BY <1>8, <1>10
  <1>14. /\ fa \in OrderValues /\ fa.price = order[a].price /\ fa.prev = order[a].prev /\ fa.next = b
         /\ fb \in OrderValues /\ fb.price = order[b].price /\ fb.next = order[b].next /\ fb.prev = a
         /\ fab \in OrderValues /\ fab.price = order[a].price /\ fab.next = b /\ fab.prev = a
    BY <1>10, <1>13 DEF OrderValues
  <1>15. order' = g
    BY <1>8, <1>10, <1>11, <1>12, <1>13 DEF OrderValues
  <1> HIDE DEF fa, fb, fab
  <1>16. /\ g \in [Orders -> OrderValues \cup {NULL}] /\ g[id] = NULL
         /\ \A y \in Orders : y # id => g[y] = IF y = a THEN (IF a = b THEN fab ELSE fa)
                                               ELSE IF y = b THEN fb ELSE order[y]
    BY <1>8, <1>14
  <1> HIDE DEF g
  <1>17. PricesKept(order, g, id)
    BY <1>10, <1>14, <1>16, NeverNull DEF PricesKept
  <1>18. \A y \in Orders : y # id => (y # a => g[y].next = order[y].next) /\ (y # b => g[y].prev = order[y].prev)
    BY <1>10, <1>14, <1>16
  <1>19. LinksOut(order, g, q, id)
    <2>1. g[a].next = b /\ g[b].prev = a
      BY <1>10, <1>11, <1>14, <1>16
    <2>2. \A y \in ToSet(q) \ {id} : y \in Orders /\ y # id
      BY <1>1 DEF q
    <2> QED BY <1>10, <1>18, <2>1, <2>2, Zenon DEF LinksOut
  <1>20. q \in Seq(Orders) /\ Distinct(q) /\ k \in 1 .. Len(q) /\ Len(q) = n /\ Circle(order, q)
    BY <1>1, <1>4 DEF q, n
  <1>21. Circle(g, t)
    BY <1>3, <1>11, <1>19, <1>20, WithoutCircle DEF t
  <1>22. /\ t \in Seq(Orders) /\ Len(t) = n - 1 /\ ToSet(t) = ToSet(q) \ {id} /\ Distinct(t)
         /\ t[1] = (IF k = 1 THEN b ELSE q[1]) /\ t = RemoveAt(q, k)
    <2>1. /\ t \in Seq(Orders) /\ Len(t) = Len(q) - 1
          /\ \A i \in 1 .. Len(q) - 1 : t[i] = IF i < k THEN q[i] ELSE q[i + 1]
          /\ ToSet(t) = ToSet(q) \ {q[k]}
          /\ Distinct(t)
          /\ t = RemoveAt(q, k)
      BY <1>20, WithoutIs DEF t
    <2>2. 1 \in 1 .. n - 1 /\ (1 < k <=> k # 1) /\ (k = 1 => Nxt(k, n) = 1 + 1)
      BY <1>4, <1>11 DEF Nxt
    <2>3. t[1] = IF k = 1 THEN b ELSE q[1]
      BY <1>20, <2>1, <2>2 DEF b
    <2> QED BY <1>3, <1>20, <2>1, <2>3, Zenon
  <1>23. /\ level' \in [Prices -> LevelValues \cup {NULL}] /\ level'[p] # NULL /\ level'[p].first = t[1]
         /\ level'[p].next = level[p].next /\ level'[p].prev = level[p].prev
         /\ \A r \in Prices : r # p => level'[r] = level[r]
    <2> DEFINE f == IF level[p].first = id THEN b ELSE level[p].first
               v == [level[p] EXCEPT !.first = f]
    <2>1. f = t[1]
      <3>1. q[1] = id <=> k = 1
        BY <1>3, <1>4, <1>5, Zenon
      <3> QED BY <1>4, <1>22, <3>1, Zenon DEF q
    <2>2. f \in Orders
      BY <1>4, <1>7, <1>10 DEF q
    <2>3. level[p] \in LevelValues
      BY <1>4, <1>8
    <2>4. level' = [level EXCEPT ![p] = v]
      BY <1>12
    <2> HIDE DEF f
    <2>5. v \in LevelValues /\ v.first = f /\ v.next = level[p].next /\ v.prev = level[p].prev
      BY <2>2, <2>3 DEF LevelValues
    <2> HIDE DEF v
    <2>6. v # NULL
      BY <2>5, NeverNull
    <2> QED BY <1>8, <2>1, <2>4, <2>5, <2>6
  <1>24. LevelsAre(L, best', level')
    <2>1. \A r \in Prices : level'[r] = NULL <=> level[r] = NULL
      BY <1>4, <1>23
    <2>2. \A r \in Prices : level[r] # NULL => level'[r].next = level[r].next /\ level'[r].prev = level[r].prev
      BY <1>23
    <2>3. LevelsAre(L, best, level')
      BY <2>1, <2>2, LevelsKept, Zenon
    <2> QED BY <1>12, <2>3
  <1>25. BookTypes'
    BY <1>12, <1>15, <1>16, <1>23 DEF BookTypes
  <1>26. OrdersAre(p, t, level', g)
    <2>1. ToSet(t) = {y \in Orders : g[y] # NULL /\ g[y].price = p}
      BY <1>1, <1>16, <1>17, <1>22 DEF PricesKept, q
    <2>2. t # <<>>
      BY <1>4, <1>11, <1>22
    <2> QED BY <1>21, <1>22, <1>23, <2>1, <2>2, Zenon DEF OrdersAre
  <1>27. ASSUME NEW r \in Prices, r # p PROVE OrdersAre(r, Q[r], level', g)
    <2>1. OrdersAre(r, Q[r], level, order)
      BY DEF Queues
    <2>2. \A y \in Orders : g[y] # NULL /\ g[y].price = r <=> order[y] # NULL /\ order[y].price = r
      BY <1>16, <1>17, <1>27 DEF PricesKept
    <2>3. \A y \in ToSet(Q[r]) : g[y].next = order[y].next /\ g[y].prev = order[y].prev
      <3>1. ToSet(Q[r]) = {y \in Orders : order[y] # NULL /\ order[y].price = r}
        BY <2>1 DEF OrdersAre
      <3>2. \A y \in ToSet(Q[r]) : y \in Orders /\ y # id /\ y # a /\ y # b
        BY <1>10, <1>27, <3>1
      <3> QED BY <1>18, <3>2, Zenon
    <2>4. level'[r] = level[r]
      BY <1>23, <1>27
    <2> QED BY <2>1, <2>2, <2>3, <2>4, OrdersKept
  <1>28. \A r \in Prices : OrdersAre(r, IF r = p THEN RemoveAt(q, k) ELSE Q[r], level', order')
    BY <1>15, <1>22, <1>26, <1>27
  <1>29. k \in 1 .. Len(q) /\ q[k] = id
    BY <1>3, <1>20
  <1> QED BY <1>24, <1>25, <1>28, <1>29, Zenon DEF q

-----------------------------------------------------------------------------
(* The pointer lists are the lists that one reads in them. *)
ListsInv == /\ BookTypes /\ LevelsAre(LevelList, best, level)
            /\ \A p \in Prices : OrdersAre(p, OrderList(p), level, order)

LEMMA LevelsRead ==
    ASSUME NEW L, NEW b, NEW lv, LevelsAre(L, b, lv)
    PROVE  (IF b = NULL THEN <<>> ELSE From([p \in {p \in Prices : lv[p] # NULL} |-> lv[p].next], b)) = L
  <1>1. /\ L \in Seq(Prices) /\ Distinct(L) /\ Circle(lv, L)
        /\ ToSet(L) = {p \in Prices : lv[p] # NULL} /\ b = IF L = <<>> THEN NULL ELSE L[1]
    BY DEF LevelsAre
  <1>2. CASE L = <<>>
    BY <1>1, <1>2, Zenon
  <1>3. CASE L # <<>>
    <2>1. Len(L) >= 1 /\ L[1] \in Prices
      BY <1>1, <1>3
    <2>2. b # NULL /\ b = L[1]
      BY <1>1, <1>3, <2>1, PriceAssumption
    <2>3. From([p \in ToSet(L) |-> lv[p].next], L[1]) = L
      BY <1>1, <2>1, FromIs
    <2> QED BY <1>1, <2>2, <2>3, Zenon
  <1> QED BY <1>2, <1>3

LEMMA OrdersRead ==
    ASSUME NEW p, NEW q, NEW lv, NEW od, OrdersAre(p, q, lv, od)
    PROVE  (IF lv[p] = NULL THEN <<>>
            ELSE From([id \in {id \in {id \in Orders : od[id] # NULL} : od[id].price = p} |-> od[id].next],
                      lv[p].first)) = q
  <1> DEFINE R == {id \in {id \in Orders : od[id] # NULL} : od[id].price = p}
  <1>1. /\ q \in Seq(Orders) /\ Distinct(q) /\ Circle(od, q)
        /\ ToSet(q) = {id \in Orders : od[id] # NULL /\ od[id].price = p}
        /\ IF q = <<>> THEN lv[p] = NULL ELSE lv[p] # NULL /\ lv[p].first = q[1]
    BY DEF OrdersAre
  <1>2. ToSet(q) = R
    BY <1>1
  <1> HIDE DEF R
  <1>3. CASE q = <<>>
    BY <1>1, <1>3, Zenon
  <1>4. CASE q # <<>>
    <2>1. Len(q) >= 1
      BY <1>1, <1>4
    <2>2. From([id \in ToSet(q) |-> od[id].next], q[1]) = q
      BY <1>1, <2>1, FromIs
    <2>3. From([id \in R |-> od[id].next], lv[p].first) = q
      BY <1>1, <1>2, <1>4, <2>2, Zenon
    <2> QED BY <1>1, <1>4, <2>3, Zenon DEF R
  <1> QED BY <1>3, <1>4

LEMMA ReadNow ==
    /\ \A L : LevelsAre(L, best, level) => LevelList = L
    /\ \A L : LevelsAre(L, best', level') => LevelList' = L
    /\ \A p, q : OrdersAre(p, q, level, order) => OrderList(p) = q
    /\ \A p, q : OrdersAre(p, q, level', order') => OrderList(p)' = q
  <1>1. ASSUME NEW L, LevelsAre(L, best, level) PROVE LevelList = L
    BY <1>1, LevelsRead, Zenon DEF LevelList, UsedPrices
  <1>2. ASSUME NEW L, LevelsAre(L, best', level') PROVE LevelList' = L
    BY <1>2, LevelsRead, Zenon DEF LevelList, UsedPrices
  <1>3. ASSUME NEW p, NEW q, OrdersAre(p, q, level, order) PROVE OrderList(p) = q
    BY <1>3, OrdersRead, Zenon DEF OrderList, OrdersAt, UsedOrders
  <1>4. ASSUME NEW p, NEW q, OrdersAre(p, q, level', order') PROVE OrderList(p)' = q
    BY <1>4, OrdersRead, Zenon DEF OrderList, OrdersAt, UsedOrders
  <1> QED BY <1>1, <1>2, <1>3, <1>4, Zenon

(* Nothing of LevelsAre but Worse looks at a variable, and side stays. *)
LEMMA SameSide ==
    ASSUME side' = side, NEW L, LevelsAre(L, best', level'), LevelList' = L
    PROVE  LevelsAre(LevelList, best, level)'
  BY Zenon DEF LevelsAre, Sorted, Worse

LEMMA AddOrderStep ==
    ASSUME ListsInv, NEW id \in Orders, order[id] = NULL, NEW p \in Prices, addOrder(id, p)
    PROVE  /\ ListsInv'
           /\ \A r \in Prices : OrderList(r)' = IF r = p THEN Append(OrderList(p), id) ELSE OrderList(r)
  <1> DEFINE Q == [r \in Prices |-> OrderList(r)]
  <1>1. BookTypes /\ LevelsAre(LevelList, best, level) /\ \A r \in Prices : OrdersAre(r, OrderList(r), level, order)
    BY DEF ListsInv
  <1>2. \A r \in Prices : Q[r] = OrderList(r)
    OBVIOUS
  <1>3. side' = side
    BY DEF addOrder
  <1> HIDE DEF Q
  <1>4. Queues(Q, level, order)
    BY <1>1, <1>2, Zenon DEF Queues
  <1>5. PICK L : L = LevelList
    OBVIOUS
  <1>6. LevelsAre(L, best, level)
    BY <1>1, <1>5, Zenon
  <1>7. /\ BookTypes' /\ \E K : LevelsAre(K, best', level')
        /\ \A r \in Prices : OrdersAre(r, IF r = p THEN Append(Q[p], id) ELSE Q[r], level', order')
    BY <1>1, <1>4, <1>6, AddFirst, AddBehind, Zenon
  <1>8. LevelsAre(LevelList, best, level)'
    BY <1>3, <1>7, ReadNow, SameSide, Zenon
  <1>9. \A r \in Prices : OrderList(r)' = IF r = p THEN Append(OrderList(p), id) ELSE OrderList(r)
    BY <1>2, <1>7, ReadNow, Zenon
  <1>10. \A r \in Prices : OrdersAre(r, OrderList(r), level, order)'
    <2> TAKE r \in Prices
    <2>1. OrdersAre(r, OrderList(r)', level', order')
      BY <1>2, <1>7, <1>9, Zenon
    <2> QED BY <2>1, Zenon DEF OrdersAre
  <1> QED BY <1>7, <1>8, <1>9, <1>10, Zenon DEF ListsInv

LEMMA RemoveOrderStep ==
    ASSUME ListsInv, NEW id \in Orders, removeOrder(id)
    PROVE  /\ ListsInv' /\ order[id].price \in Prices
           /\ \E k \in 1 .. Len(OrderList(order[id].price)) :
                  /\ OrderList(order[id].price)[k] = id
                  /\ \A r \in Prices : OrderList(r)' = IF r = order[id].price
                                                       THEN RemoveAt(OrderList(order[id].price), k)
                                                       ELSE OrderList(r)
  <1> DEFINE Q == [r \in Prices |-> OrderList(r)]
  <1>1. BookTypes /\ LevelsAre(LevelList, best, level) /\ \A r \in Prices : OrdersAre(r, OrderList(r), level, order)
    BY DEF ListsInv
  <1>2. \A r \in Prices : Q[r] = OrderList(r)
    OBVIOUS
  <1>3. side' = side /\ order[id] # NULL
    BY DEF removeOrder
  <1>4. order[id].price \in Prices
    BY <1>1, <1>3 DEF BookTypes, OrderValues
  <1> HIDE DEF Q
  <1>5. Queues(Q, level, order)
    BY <1>1, <1>2, Zenon DEF Queues
  <1>6. PICK p \in Prices : p = order[id].price
    BY <1>4
  <1>7. PICK L : L = LevelList
    OBVIOUS
  <1>8. LevelsAre(L, best, level)
    BY <1>1, <1>7, Zenon
  <1>9. /\ BookTypes' /\ \E K : LevelsAre(K, best', level')
        /\ \E k \in 1 .. Len(Q[p]) :
               /\ Q[p][k] = id
               /\ \A r \in Prices :
                      OrdersAre(r, IF r = p THEN RemoveAt(Q[p], k) ELSE Q[r], level', order')
    <2>1. CASE order[id].prev = id
      BY <1>1, <1>3, <1>5, <1>6, <1>8, <2>1, RemoveOnly
    <2>2. CASE order[id].prev # id
      BY <1>1, <1>3, <1>5, <1>6, <1>8, <2>2, RemoveOneOf
    <2> QED BY <2>1, <2>2, Zenon
  <1>10. PICK k \in 1 .. Len(Q[p]) :
             /\ Q[p][k] = id
             /\ \A r \in Prices : OrdersAre(r, IF r = p THEN RemoveAt(Q[p], k) ELSE Q[r], level', order')
    BY <1>9, Zenon
  <1>11. LevelsAre(LevelList, best, level)'
    BY <1>3, <1>9, ReadNow, SameSide, Zenon
  <1>12. \A r \in Prices : OrderList(r)' = IF r = p THEN RemoveAt(Q[p], k) ELSE Q[r]
    BY <1>10, ReadNow, Zenon
  <1>13. \A r \in Prices : OrdersAre(r, OrderList(r), level, order)'
    <2> TAKE r \in Prices
    <2>1. OrdersAre(r, OrderList(r)', level', order')
      BY <1>10, <1>12, Zenon
    <2> QED BY <2>1, Zenon DEF OrdersAre
  <1>14. ListsInv'
    BY <1>9, <1>11, <1>13, Zenon DEF ListsInv
  <1>15. k \in 1 .. Len(OrderList(p)) /\ OrderList(p)[k] = id
         /\ \A r \in Prices : OrderList(r)' = IF r = p THEN RemoveAt(OrderList(p), k) ELSE OrderList(r)
    BY <1>2, <1>6, <1>10, <1>12, Zenon
  <1> QED BY <1>4, <1>6, <1>14, <1>15, Zenon

LEMMA SameLists == ASSUME ListsInv, UNCHANGED listVars PROVE ListsInv'
  <1>1. side' = side /\ best' = best /\ level' = level /\ order' = order
    BY DEF listVars
  <1>2. BookTypes /\ LevelsAre(LevelList, best, level) /\ \A p \in Prices : OrdersAre(p, OrderList(p), level, order)
    BY DEF ListsInv
  <1>3. BookTypes'
    BY <1>1, <1>2 DEF BookTypes
  <1>4. LevelList' = LevelList /\ \A p \in Prices : OrderList(p)' = OrderList(p)
    BY <1>1, Zenon DEF LevelList, OrderList, UsedPrices, OrdersAt, UsedOrders
  <1>5. LevelsAre(LevelList, best, level)'
    BY <1>1, <1>2, <1>4, Zenon DEF LevelsAre, Sorted, Worse
  <1>6. \A p \in Prices : OrdersAre(p, OrderList(p), level, order)'
    <2> TAKE p \in Prices
    <2>1. OrdersAre(p, OrderList(p)', level', order')
      BY <1>1, <1>2, <1>4, Zenon
    <2> QED BY <2>1, Zenon DEF OrdersAre
  <1> QED BY <1>3, <1>5, <1>6, Zenon DEF ListsInv

(* An order is in use if and only if it is in the list of its price. *)
InUse(Q, od) == \A y \in Orders : /\ od[y] # NULL <=> \E r \in Prices : y \in ToSet(Q[r])
                                  /\ \A r \in Prices : y \in ToSet(Q[r]) => r = od[y].price

LEMMA InLists ==
    ASSUME NEW Q, NEW lv, NEW od, od \in [Orders -> OrderValues \cup {NULL}], Queues(Q, lv, od)
    PROVE  InUse(Q, od)
  <1> SUFFICES ASSUME NEW y \in Orders
               PROVE  /\ od[y] # NULL <=> \E r \in Prices : y \in ToSet(Q[r])
                      /\ \A r \in Prices : y \in ToSet(Q[r]) => r = od[y].price
    BY DEF InUse
  <1>1. \A r \in Prices : ToSet(Q[r]) = {id \in Orders : od[id] # NULL /\ od[id].price = r}
    BY Zenon DEF Queues, OrdersAre
  <1>2. od[y] # NULL => od[y].price \in Prices
    BY DEF OrderValues
  <1>3. \A r \in Prices : y \in ToSet(Q[r]) <=> od[y] # NULL /\ od[y].price = r
    BY <1>1
  <1> QED BY <1>2, <1>3, Zenon

LEMMA AppendSet ==
    ASSUME NEW S, NEW s \in Seq(S), NEW x \in S PROVE ToSet(Append(s, x)) = ToSet(s) \cup {x}
  <1>1. PICK k \in 0 .. Len(s) : k = Len(s)
    OBVIOUS
  <1>2. ToSet(Into(s, k, x)) = ToSet(s) \cup {x}
    BY IntoIs
  <1> QED BY <1>1, <1>2, AppendIs

LEMMA AddedOnly ==
    ASSUME ListsInv, ListsInv', NEW id \in Orders, NEW p \in Prices,
           \A r \in Prices : OrderList(r)' = IF r = p THEN Append(OrderList(p), id) ELSE OrderList(r)
    PROVE  \A y \in Orders : order'[y] # NULL => order[y] # NULL \/ y = id
  <1> DEFINE Q == [r \in Prices |-> OrderList(r)]
             R == [r \in Prices |-> OrderList(r)']
  <1>1. order \in [Orders -> OrderValues \cup {NULL}] /\ order' \in [Orders -> OrderValues \cup {NULL}]
    BY DEF ListsInv, BookTypes
  <1>2. \A r \in Prices : OrdersAre(r, Q[r], level, order)
    BY DEF ListsInv
  <1>3. \A r \in Prices : OrdersAre(r, R[r], level', order')
    BY DEF ListsInv, OrdersAre
  <1>4. Q[p] \in Seq(Orders)
    BY <1>2 DEF OrdersAre
  <1>5. \A r \in Prices : R[r] = IF r = p THEN Append(Q[p], id) ELSE Q[r]
    BY Zenon
  <1> HIDE DEF Q, R
  <1>21. \A y \in Orders : /\ order[y] # NULL <=> \E r \in Prices : y \in ToSet(Q[r])
                           /\ \A r \in Prices : y \in ToSet(Q[r]) => r = order[y].price
    <2>1. Queues(Q, level, order)
      BY <1>2, Zenon DEF Queues
    <2>2. InUse(Q, order)
      BY <1>1, <2>1, InLists
    <2> QED BY <2>2, Zenon DEF InUse
  <1>22. \A y \in Orders : order'[y] # NULL <=> \E r \in Prices : y \in ToSet(R[r])
    <2>1. Queues(R, level', order')
      BY <1>3, Zenon DEF Queues
    <2>2. InUse(R, order')
      BY <1>1, <2>1, InLists
    <2> QED BY <2>2, Zenon DEF InUse
  <1> TAKE y \in Orders
  <1> HAVE order'[y] # NULL
  <1>6. PICK r \in Prices : y \in ToSet(R[r])
    BY <1>22, Zenon
  <1>7. y \in ToSet(Q[r]) \/ y = id
    <2>1. ToSet(Append(Q[p], id)) = ToSet(Q[p]) \cup {id}
      BY <1>4, AppendSet
    <2>2. CASE r = p
      BY <1>5, <1>6, <2>1, <2>2
    <2>3. CASE r # p
      BY <1>5, <1>6, <2>3, Zenon
    <2> QED BY <2>2, <2>3
  <1> QED BY <1>7, <1>21, Zenon

LEMMA RemovedOnly ==
    ASSUME ListsInv, ListsInv', NEW id \in Orders, NEW p \in Prices,
           NEW k \in 1 .. Len(OrderList(p)), OrderList(p)[k] = id,
           \A r \in Prices : OrderList(r)' = IF r = p THEN RemoveAt(OrderList(p), k) ELSE OrderList(r)
    PROVE  \A y \in Orders : order'[y] # NULL => order[y] # NULL /\ y # id
  <1> DEFINE Q == [r \in Prices |-> OrderList(r)]
             R == [r \in Prices |-> OrderList(r)']
  <1>1. order \in [Orders -> OrderValues \cup {NULL}] /\ order' \in [Orders -> OrderValues \cup {NULL}]
    BY DEF ListsInv, BookTypes
  <1>2. \A r \in Prices : OrdersAre(r, Q[r], level, order)
    BY DEF ListsInv
  <1>3. \A r \in Prices : OrdersAre(r, R[r], level', order')
    BY DEF ListsInv, OrdersAre
  <1>4. Q[p] \in Seq(Orders) /\ Distinct(Q[p])
    BY <1>2 DEF OrdersAre
  <1>5. \A r \in Prices : R[r] = IF r = p THEN RemoveAt(Q[p], k) ELSE Q[r]
    BY Zenon
  <1>6. k \in 1 .. Len(Q[p]) /\ Q[p][k] = id
    OBVIOUS
  <1> HIDE DEF Q, R
  <1>21. \A y \in Orders : /\ order[y] # NULL <=> \E r \in Prices : y \in ToSet(Q[r])
                           /\ \A r \in Prices : y \in ToSet(Q[r]) => r = order[y].price
    <2>1. Queues(Q, level, order)
      BY <1>2, Zenon DEF Queues
    <2>2. InUse(Q, order)
      BY <1>1, <2>1, InLists
    <2> QED BY <2>2, Zenon DEF InUse
  <1>22. \A y \in Orders : order'[y] # NULL <=> \E r \in Prices : y \in ToSet(R[r])
    <2>1. Queues(R, level', order')
      BY <1>3, Zenon DEF Queues
    <2>2. InUse(R, order')
      BY <1>1, <2>1, InLists
    <2> QED BY <2>2, Zenon DEF InUse
  <1> TAKE y \in Orders
  <1> HAVE order'[y] # NULL
  <1>7. PICK r \in Prices : y \in ToSet(R[r])
    BY <1>22, Zenon
  <1>8. ToSet(RemoveAt(Q[p], k)) = ToSet(Q[p]) \ {id}
    <2> DEFINE q == Q[p]
    <2>1. q \in Seq(Orders) /\ Distinct(q) /\ k \in 1 .. Len(q) /\ q[k] = id
      BY <1>4, <1>6
    <2> HIDE DEF q
    <2>2. ToSet(Without(q, k)) = ToSet(q) \ {q[k]} /\ Without(q, k) = RemoveAt(q, k)
      BY <2>1, WithoutIs
    <2>3. ToSet(RemoveAt(q, k)) = ToSet(q) \ {id}
      BY <2>1, <2>2
    <2> QED BY <2>3 DEF q
  <1>9. y \in ToSet(Q[r]) /\ (r = p => y # id)
    BY <1>5, <1>7, <1>8
  <1>10. id \in ToSet(Q[p])
    BY <1>4, <1>6, InRange
  <1>11. r # p => y # id
    BY <1>9, <1>10, <1>21, Zenon
  <1> QED BY <1>9, <1>11, <1>21, Zenon

-----------------------------------------------------------------------------
(* What the pool hands out is not in the lists. *)
SideInv == /\ ListsInv /\ PoolInv /\ next_free_index_ \in Blocks
           /\ \A b \in Blocks : order[b] # NULL => ~is_free_[b]

LEMMA InitSideInv == SideInit => SideInv
  <1> SUFFICES ASSUME SideInit PROVE SideInv
    OBVIOUS
  <1>1. ListsInit /\ PoolInit
    BY DEF SideInit
  <1>2. /\ side \in {"BUY", "SELL"} /\ best = NULL
        /\ level = [p \in Prices |-> NULL] /\ order = [o \in Orders |-> NULL]
    BY <1>1 DEF ListsInit
  <1>3. BookTypes
    BY <1>2 DEF BookTypes
  <1>4. LevelsAre(<<>>, best, level)
    BY <1>2, EmptyList
  <1>5. ASSUME NEW p \in Prices PROVE OrdersAre(p, <<>>, level, order)
    <2>1. <<>> \in Seq(Orders) /\ Len(<<>>) = 0 /\ ToSet(<<>>) = {} /\ 1 .. 0 = {}
      BY DEF ToSet
    <2>2. Distinct(<<>>) /\ Circle(order, <<>>)
      BY <2>1 DEF Distinct, Circle
    <2>3. {y \in Orders : order[y] # NULL /\ order[y].price = p} = {}
      BY <1>2
    <2>4. level[p] = NULL
      BY <1>2
    <2> QED BY <2>1, <2>2, <2>3, <2>4, Zenon DEF OrdersAre
  <1>6. ListsInv
    <2>1. LevelsAre(LevelList, best, level)
      BY <1>4, ReadNow, Zenon
    <2>2. \A p \in Prices : OrdersAre(p, OrderList(p), level, order)
      BY <1>5, ReadNow, Zenon
    <2> QED BY <1>3, <2>1, <2>2 DEF ListsInv
  <1>7. PoolInv
    BY <1>1, InitPoolInv
  <1>8. next_free_index_ \in Blocks /\ \A b \in Blocks : order[b] = NULL
    BY <1>1, <1>2, PoolAssumption, BlockAssumption DEF PoolInit, Blocks
  <1> QED BY <1>6, <1>7, <1>8 DEF SideInv

(* With memory behind the store that looks free, a search starts over. *)
LEMMA SearchInside ==
    ASSUME "used" \notin PastEnd, NEW free, NEW from \in Blocks, NEW next \in nextFree(free, from)
    PROVE  next \in Blocks
  <1> DEFINE ahead == {b \in Blocks : b >= from /\ free[b]}
  <1>1. from # Beyond /\ 0 \in Blocks
    BY PoolAssumption DEF Blocks, Beyond
  <1>2. CASE ahead # {}
    <2>1. ahead \subseteq Nat /\ ahead \subseteq Blocks
      BY PoolAssumption DEF Blocks
    <2>2. next = CHOOSE b \in ahead : \A c \in ahead : b <= c
      BY <1>2 DEF nextFree
    <2> HIDE DEF ahead
    <2>3. \E t \in ahead : \A u \in ahead : t <= u
      BY <1>2, <2>1, Least
    <2>4. next \in ahead
      BY <2>2, <2>3, Zenon
    <2> QED BY <2>1, <2>4
  <1>3. CASE ahead = {}
    <2>1. next \in {atEnd(IF m = "free" THEN N ELSE Beyond) : m \in PastEnd}
      BY <1>1, <1>3 DEF nextFree
    <2>2. PICK m \in PastEnd : next = atEnd(IF m = "free" THEN N ELSE Beyond)
      BY <2>1
    <2>3. m = "free"
      BY <2>2, MemoryAssumption
    <2> QED BY <1>1, <2>2, <2>3 DEF atEnd
  <1> QED BY <1>2, <1>3

(* An order comes from a free block, or the process ends before it is linked. *)
LEMMA RestOrderStep ==
    ASSUME SideInv, "used" \notin PastEnd, NEW p \in Prices, restOrder(p)
    PROVE  /\ SideInv'
           /\ \/ UNCHANGED listVars
              \/ \E id \in Orders :
                     /\ order[id] = NULL /\ side' = side
                     /\ \A r \in Prices : OrderList(r)' = IF r = p THEN Append(OrderList(p), id)
                                                          ELSE OrderList(r)
  <1>1. ListsInv /\ PoolInv /\ next_free_index_ \in Blocks /\ \A b \in Blocks : order[b] # NULL => ~is_free_[b]
    BY DEF SideInv
  <1> DEFINE id == next_free_index_
  <1>2. CASE allocateFails /\ UNCHANGED listVars
    <2>1. UNCHANGED <<is_free_, next_free_index_, holders>> /\ ended' = TRUE
      BY <1>2 DEF allocateFails
    <2>2. PoolInv'
      BY <1>1, <2>1 DEF PoolInv, PoolTypeOK, HeldOnce
    <2>3. ListsInv'
      BY <1>1, <1>2, SameLists
    <2>4. next_free_index_' \in Blocks /\ \A b \in Blocks : order'[b] # NULL => ~is_free_'[b]
      BY <1>1, <1>2, <2>1 DEF listVars
    <2> QED BY <1>2, <2>2, <2>3, <2>4 DEF SideInv
  <1>3. CASE /\ allocate
             /\ IF ended' THEN UNCHANGED listVars ELSE addOrder(id, p)
    <2>1. PoolInv'
      BY <1>1, <1>3, AllocateStep
    <2>2. next_free_index_' \in Blocks
      <3>1. PICK next \in nextFree([b \in Blocks |-> is_free_[b] /\ b # next_free_index_],
                                   next_free_index_) :
                next_free_index_' = next
        BY <1>3, Zenon DEF allocate
      <3>2. next \in Blocks
        BY <1>1, <3>1, SearchInside
      <3> QED BY <3>1, <3>2
    <2>3. is_free_[id] /\ is_free_' = [b \in Blocks |-> is_free_[b] /\ b # next_free_index_]
      BY <1>1, <1>3, Zenon DEF allocate, isFree
    <2>4. order[id] = NULL /\ id \in Orders
      BY <1>1, <2>3, BlockAssumption
    <2>5. \A b \in Blocks : ~is_free_[b] \/ b = id => ~is_free_'[b]
      BY <2>3, Zenon
    <2>6. CASE ended'
      <3>1. UNCHANGED listVars
        BY <1>3, <2>6
      <3>2. ListsInv'
        BY <1>1, <3>1, SameLists
      <3>3. order' = order
        BY <3>1 DEF listVars
      <3>4. \A b \in Blocks : order'[b] # NULL => ~is_free_'[b]
        BY <1>1, <2>5, <3>3, Zenon
      <3> QED BY <2>1, <2>2, <3>1, <3>2, <3>4 DEF SideInv
    <2>7. CASE ~ended'
      <3>1. addOrder(id, p)
        BY <1>3, <2>7
      <3>2. /\ ListsInv'
            /\ \A r \in Prices : OrderList(r)' = IF r = p THEN Append(OrderList(p), id) ELSE OrderList(r)
        BY <1>1, <2>4, <3>1, AddOrderStep
      <3>3. \A b \in Blocks : order'[b] # NULL => ~is_free_'[b]
        <4>1. \A b \in Orders : order'[b] # NULL => order[b] # NULL \/ b = id
          BY <1>1, <2>4, <3>2, AddedOnly
        <4> QED BY <1>1, <2>5, <4>1, BlockAssumption
      <3>4. SideInv'
        BY <2>1, <2>2, <3>2, <3>3 DEF SideInv
      <3>5. side' = side
        BY <3>1 DEF addOrder
      <3> QED BY <2>4, <3>2, <3>4, <3>5, Zenon
    <2> QED BY <2>6, <2>7
  <1> QED BY <1>2, <1>3 DEF restOrder

LEMMA FreeOrderStep ==
    ASSUME SideInv, "used" \notin PastEnd, NEW id \in Orders, freeOrder(id)
    PROVE  /\ SideInv' /\ side' = side
           /\ \E p \in Prices : \E k \in 1 .. Len(OrderList(p)) :
                  /\ OrderList(p)[k] = id
                  /\ \A r \in Prices : OrderList(r)' = IF r = p THEN RemoveAt(OrderList(p), k)
                                                       ELSE OrderList(r)
  <1>1. ListsInv /\ PoolInv /\ next_free_index_ \in Blocks /\ \A b \in Blocks : order[b] # NULL => ~is_free_[b]
    BY DEF SideInv
  <1>2. removeOrder(id) /\ deallocate(id) /\ order[id] # NULL /\ side' = side
    BY DEF freeOrder, removeOrder
  <1>3. id \in Blocks /\ Blocks \subseteq 0 .. Beyond
    BY BlockAssumption, PoolAssumption DEF Blocks, Beyond
  <1>4. PoolInv'
    BY <1>1, <1>2, <1>3, DeallocateStep
  <1>5. is_free_' = [is_free_ EXCEPT ![id] = TRUE] /\ next_free_index_' = next_free_index_
    BY <1>1, <1>2, <1>3, Zenon DEF deallocate
  <1>6. /\ ListsInv'
        /\ \E p \in Prices : \E k \in 1 .. Len(OrderList(p)) :
               /\ OrderList(p)[k] = id
               /\ \A r \in Prices : OrderList(r)' = IF r = p THEN RemoveAt(OrderList(p), k)
                                                    ELSE OrderList(r)
    <2>1. /\ ListsInv' /\ order[id].price \in Prices
          /\ \E k \in 1 .. Len(OrderList(order[id].price)) :
                 /\ OrderList(order[id].price)[k] = id
                 /\ \A r \in Prices : OrderList(r)' = IF r = order[id].price
                                                      THEN RemoveAt(OrderList(order[id].price), k)
                                                      ELSE OrderList(r)
      BY <1>1, <1>2, RemoveOrderStep
    <2> QED BY <2>1, Zenon
  <1>7. PICK p \in Prices : \E k \in 1 .. Len(OrderList(p)) :
               /\ OrderList(p)[k] = id
               /\ \A r \in Prices : OrderList(r)' = IF r = p THEN RemoveAt(OrderList(p), k)
                                                    ELSE OrderList(r)
    BY <1>6, Zenon
  <1>8. PICK k \in 1 .. Len(OrderList(p)) :
               /\ OrderList(p)[k] = id
               /\ \A r \in Prices : OrderList(r)' = IF r = p THEN RemoveAt(OrderList(p), k)
                                                    ELSE OrderList(r)
    BY <1>7, Zenon
  <1>9. \A b \in Orders : order'[b] # NULL => order[b] # NULL /\ b # id
    BY <1>1, <1>6, <1>8, RemovedOnly, Zenon
  <1>10. \A b \in Blocks : order'[b] # NULL => ~is_free_'[b]
    <2>1. \A b \in Blocks : b # id => is_free_'[b] = is_free_[b]
      BY <1>1, <1>5 DEF PoolInv, PoolTypeOK
    <2> QED BY <1>1, <1>9, <2>1, BlockAssumption
  <1>11. SideInv'
    BY <1>1, <1>4, <1>5, <1>6, <1>10 DEF SideInv
  <1> QED BY <1>2, <1>6, <1>11, Zenon

-----------------------------------------------------------------------------
(* Pointers in both directions, from the lists. *)
LEMMA ListsBothWays == ASSUME ListsInv PROVE BothWays
  <1> DEFINE L == LevelList
             n == Len(L)
  <1>1. /\ side \in {"BUY", "SELL"} /\ best \in Prices \cup {NULL}
        /\ level \in [Prices -> LevelValues \cup {NULL}] /\ order \in [Orders -> OrderValues \cup {NULL}]
    BY DEF ListsInv, BookTypes
  <1>2. /\ L \in Seq(Prices) /\ Distinct(L) /\ Sorted(L) /\ ToSet(L) = UsedPrices
        /\ best = (IF L = <<>> THEN NULL ELSE L[1]) /\ Circle(level, L)
    BY DEF ListsInv, LevelsAre, UsedPrices
  <1>3. \A p \in Prices : OrdersAre(p, OrderList(p), level, order)
    BY DEF ListsInv
  <1> HIDE DEF L
  <1>4. ASSUME NEW S, NEW s \in Seq(S), NEW f, Circle(f, s), Distinct(s), NEW x \in ToSet(s)
        PROVE  /\ f[x].next \in ToSet(s) /\ f[x].prev \in ToSet(s)
               /\ f[f[x].next].prev = x /\ f[f[x].prev].next = x
    <2>1. PICK i \in 1 .. Len(s) : s[i] = x
      BY <1>4, OfRange
    <2>2. /\ Nxt(i, Len(s)) \in 1 .. Len(s) /\ Prv(Nxt(i, Len(s)), Len(s)) = i
          /\ Prv(i, Len(s)) \in 1 .. Len(s) /\ Nxt(Prv(i, Len(s)), Len(s)) = i
      <3>1. Len(s) \in Nat
        OBVIOUS
      <3>2. \A k \in Nat : \A j \in 1 .. k : /\ Nxt(j, k) \in 1 .. k /\ Prv(Nxt(j, k), k) = j
                                            /\ Prv(j, k) \in 1 .. k /\ Nxt(Prv(j, k), k) = j
        BY DEF Nxt, Prv
      <3> QED BY <3>1, <3>2
    <2>3. /\ f[x].next = s[Nxt(i, Len(s))] /\ f[s[Nxt(i, Len(s))]].prev = s[i]
          /\ f[x].prev = s[Prv(i, Len(s))] /\ f[s[Prv(i, Len(s))]].next = s[i]
      BY <1>4, <2>1, <2>2, Zenon DEF Circle
    <2>4. s[Nxt(i, Len(s))] \in ToSet(s) /\ s[Prv(i, Len(s))] \in ToSet(s)
      BY <2>2, InRange
    <2> QED BY <2>1, <2>3, <2>4, Zenon
  <1>5. ASSUME NEW p \in UsedPrices
        PROVE  /\ level[p].next \in UsedPrices /\ level[p].prev \in UsedPrices
               /\ level[level[p].next].prev = p /\ level[level[p].prev].next = p
    BY <1>2, <1>4
  <1>6. ASSUME NEW id \in UsedOrders
        PROVE  /\ order[id].price \in UsedPrices
               /\ order[id].next \in UsedOrders /\ order[id].prev \in UsedOrders
               /\ order[order[id].next].prev = id /\ order[order[id].prev].next = id
    <2>1. id \in Orders /\ order[id] \in OrderValues
      BY <1>1 DEF UsedOrders
    <2>2. PICK p \in Prices : p = order[id].price
      BY <2>1 DEF OrderValues
    <2> DEFINE q == OrderList(p)
    <2>3. OrdersAre(p, q, level, order)
      BY <1>3
    <2> HIDE DEF q
    <2>4. /\ q \in Seq(Orders) /\ Distinct(q) /\ Circle(order, q)
          /\ ToSet(q) = {y \in Orders : order[y] # NULL /\ order[y].price = p}
          /\ IF q = <<>> THEN level[p] = NULL ELSE level[p] # NULL /\ level[p].first = q[1]
      BY <2>3 DEF OrdersAre
    <2>5. id \in ToSet(q) /\ ToSet(q) \subseteq UsedOrders
      BY <1>6, <2>2, <2>4 DEF UsedOrders
    <2>6. q # <<>>
      BY <2>5 DEF ToSet
    <2>7. p \in UsedPrices
      BY <2>4, <2>6 DEF UsedPrices
    <2>8. /\ order[id].next \in ToSet(q) /\ order[id].prev \in ToSet(q)
          /\ order[order[id].next].prev = id /\ order[order[id].prev].next = id
      BY <1>4, <2>4, <2>5
    <2> QED BY <2>2, <2>5, <2>7, <2>8
  <1>7. ASSUME NEW p \in UsedPrices PROVE level[p] \in LevelValues /\ level[p].first \in UsedOrders
    <2> DEFINE q == OrderList(p)
    <2>1. p \in Prices /\ level[p] # NULL /\ OrdersAre(p, q, level, order)
      BY <1>3, <1>7 DEF UsedPrices
    <2> HIDE DEF q
    <2>2. /\ q \in Seq(Orders) /\ q # <<>> /\ level[p].first = q[1]
          /\ ToSet(q) = {y \in Orders : order[y] # NULL /\ order[y].price = p}
      BY <2>1, Zenon DEF OrdersAre
    <2>3. q[1] \in ToSet(q)
      <3>1. 1 \in 1 .. Len(q)
        BY <2>2
      <3> QED BY <2>2, <3>1, InRange
    <2> QED BY <1>1, <2>1, <2>2, <2>3 DEF UsedOrders
  <1>8. best \in UsedPrices \cup {NULL} /\ (best = NULL <=> UsedPrices = {})
    <2>1. CASE L = <<>>
      BY <1>2, <2>1 DEF ToSet
    <2>2. CASE L # <<>>
      <3>1. 1 \in 1 .. Len(L)
        BY <1>2, <2>2
      <3>2. L[1] \in ToSet(L) /\ L[1] \in Prices
        BY <1>2, <3>1, InRange
      <3> QED BY <1>2, <2>2, <3>2, PriceAssumption
    <2> QED BY <2>1, <2>2
  <1>9. ~printerFails
    <2>1. ASSUME NEW k \in 2 .. Len(L) PROVE Worse(L[k], L[k - 1])
      <3>1. k \in 1 .. Len(L) /\ k - 1 \in 1 .. Len(L) /\ k - 1 < k
        BY <1>2
      <3> QED BY <1>2, <3>1, Zenon DEF Sorted
    <2> QED BY <2>1 DEF printerFails, L
  <1>10. \A p \in UsedPrices : level[p] \in [first : UsedOrders, prev : UsedPrices, next : UsedPrices]
    BY <1>5, <1>7 DEF LevelValues
  <1>11. \A id \in UsedOrders : order[id] \in [price : UsedPrices, prev : UsedOrders, next : UsedOrders]
    <2> TAKE id \in UsedOrders
    <2>1. order[id] \in OrderValues
      BY <1>1 DEF UsedOrders
    <2> QED BY <1>6, <2>1 DEF OrderValues
  <1>12. \A p \in UsedPrices : level[level[p].next].prev = p /\ level[level[p].prev].next = p
    BY <1>5
  <1>13. \A id \in UsedOrders : order[order[id].next].prev = id /\ order[order[id].prev].next = id
    BY <1>6
  <1> QED BY <1>8, <1>9, <1>10, <1>11, <1>12, <1>13, Zenon DEF BothWays

LEMMA SideInvAlways == "used" \notin PastEnd => (SideSpec => []SideInv)
  <1> SUFFICES ASSUME "used" \notin PastEnd PROVE SideSpec => []SideInv
    OBVIOUS
  <1>1. SideInv /\ [SideNext]_sideVars => SideInv'
    <2> SUFFICES ASSUME SideInv, [SideNext]_sideVars PROVE SideInv'
      OBVIOUS
    <2>1. CASE UNCHANGED sideVars
      <3>1. UNCHANGED listVars /\ UNCHANGED poolVars
        BY <2>1 DEF sideVars
      <3>2. ListsInv'
        BY <3>1, SameLists DEF SideInv
      <3>3. PoolInv'
        BY <3>1 DEF SideInv, poolVars, PoolInv, PoolTypeOK, HeldOnce
      <3>4. order' = order /\ is_free_' = is_free_ /\ next_free_index_' = next_free_index_
        BY <3>1 DEF listVars, poolVars
      <3> QED BY <3>2, <3>3, <3>4 DEF SideInv
    <2> QED BY <2>1, RestOrderStep, FreeOrderStep DEF SideNext
  <1> QED BY InitSideInv, <1>1, PTL DEF SideSpec

(* A block in a list was never handed out again: with memory behind the     *)
(* store that looks free, the pointers of a side lead both ways around its  *)
(* lists and the printer finds them sorted.                                 *)
THEOREM ListsBothWaysAlways == "used" \notin PastEnd => (SideSpec => []BothWays)
  <1> SUFFICES ASSUME "used" \notin PastEnd PROVE SideSpec => []BothWays
    OBVIOUS
  <1>1. SideInv => BothWays
    BY ListsBothWays DEF SideInv
  <1> QED BY <1>1, SideInvAlways, PTL

-----------------------------------------------------------------------------
(* The lists implement those of the specification. *)
LEMMA SortedLists ==
    ASSUME NEW L, side \in {"BUY", "SELL"}, Sorted(L), NEW qs,
           L \in Seq(Prices), ToSet(L) = {p \in Prices : qs[p] # <<>>}
    PROVE  Side!ListsLevels(L, qs)
  <1>1. DOMAIN L = 1 .. Len(L)
    OBVIOUS
  <1>2. ASSUME NEW i \in 1 .. Len(L), NEW j \in 1 .. Len(L), i < j PROVE Side!BestFirst(L[i], L[j])
    <2>1. Worse(L[j], L[i])
      BY <1>2 DEF Sorted
    <2>2. L[i] \in Nat /\ L[j] \in Nat
      BY <1>2, InRange, PriceAssumption
    <2>3. CASE side = "BUY"
      BY <2>1, <2>2, <2>3 DEF Worse, Side!BestFirst
    <2>4. CASE side = "SELL"
      BY <2>1, <2>2, <2>4 DEF Worse, Side!BestFirst
    <2> QED BY <2>3, <2>4
  <1> QED BY <1>1, <1>2 DEF Side!ListsLevels, Side!ToSet, ToSet

LEMMA SortedAfter ==
    ASSUME ListsInv', side' = side
    PROVE  Side!ListsLevels(LevelList', [p \in Prices |-> OrderList(p)]')
  <1> DEFINE L == LevelList'
             qs == [p \in Prices |-> OrderList(p)']
  <1>1. /\ BookTypes' /\ LevelsAre(LevelList, best, level)'
        /\ \A p \in Prices : OrdersAre(p, OrderList(p), level, order)'
    BY DEF ListsInv
  <1>2. L \in Seq(Prices) /\ ToSet(L) = {p \in Prices : level'[p] # NULL}
    BY <1>1 DEF LevelsAre
  <1>3. side \in {"BUY", "SELL"}
    BY <1>1 DEF BookTypes
  <1>4. Sorted(L)
    BY <1>1, Zenon DEF LevelsAre, Sorted, Worse
  <1>5. \A p \in Prices : level'[p] # NULL <=> qs[p] # <<>>
    BY <1>1 DEF OrdersAre
  <1> HIDE DEF L, qs
  <1>6. ToSet(L) = {p \in Prices : qs[p] # <<>>}
    BY <1>2, <1>5
  <1>7. Side!ListsLevels(L, qs)
    BY <1>2, <1>3, <1>4, <1>6, SortedLists
  <1> QED BY <1>7 DEF L, qs

(* An order that rests is the last of its price, and one that leaves is     *)
(* taken out where it stands; every other step changes no list.             *)
LEMMA SideStep ==
    ASSUME SideInv, SideInv', "used" \notin PastEnd, [SideNext]_sideVars
    PROVE  [Side!Next]_<<side, [p \in Prices |-> OrderList(p)], LevelList>>
  <1> DEFINE qs == [p \in Prices |-> OrderList(p)]
  <1>1. ListsInv /\ ListsInv'
    BY DEF SideInv
  <1>2. \A r \in Prices : qs[r] = OrderList(r)
    OBVIOUS
  <1>3. \A r \in Prices : qs'[r] = OrderList(r)'
    OBVIOUS
  <1>4. ASSUME UNCHANGED listVars PROVE UNCHANGED <<side, qs, LevelList>>
    <2>1. side' = side /\ best' = best /\ level' = level /\ order' = order
      BY <1>4 DEF listVars
    <2>2. LevelList' = LevelList /\ \A p \in Prices : OrderList(p)' = OrderList(p)
      BY <2>1, Zenon DEF LevelList, OrderList, UsedPrices, OrdersAt, UsedOrders
    <2> QED BY <2>1, <2>2
  <1>5. ASSUME NEW p \in Prices, restOrder(p) PROVE [Side!Next]_<<side, qs, LevelList>>
    <2>1. CASE UNCHANGED listVars
      BY <1>4, <2>1
    <2>2. CASE ~UNCHANGED listVars
      <3>1. PICK id \in Orders :
                /\ order[id] = NULL /\ side' = side
                /\ \A r \in Prices : OrderList(r)' = IF r = p THEN Append(OrderList(p), id) ELSE OrderList(r)
        BY <1>5, <2>2, RestOrderStep, Zenon
      <3>2. qs' = [qs EXCEPT ![p] = Append(@, id)]
        BY <3>1
      <3>3. \A r \in Prices : id \notin ToSet(qs[r])
        BY <1>1, <3>1 DEF ListsInv, OrdersAre
      <3>4. Side!ListsLevels(LevelList', qs')
        BY <1>1, <3>1, SortedAfter
      <3> HIDE DEF qs
      <3>5. Side!Join(id, p)
        BY <3>1, <3>2, <3>3, <3>4 DEF Side!Join, Side!ToSet, ToSet, qs
      <3> QED BY <3>1, <3>5 DEF Side!Next, qs
    <2> QED BY <2>1, <2>2
  <1>6. ASSUME NEW id \in Orders, freeOrder(id) PROVE [Side!Next]_<<side, qs, LevelList>>
    <2>1. side' = side
      BY <1>6, FreeOrderStep
    <2>2. PICK p \in Prices : \E k \in 1 .. Len(OrderList(p)) :
              /\ OrderList(p)[k] = id
              /\ \A r \in Prices : OrderList(r)' = IF r = p THEN RemoveAt(OrderList(p), k) ELSE OrderList(r)
      BY <1>6, FreeOrderStep, Zenon
    <2>3. PICK k \in 1 .. Len(OrderList(p)) :
              /\ OrderList(p)[k] = id
              /\ \A r \in Prices : OrderList(r)' = IF r = p THEN RemoveAt(OrderList(p), k) ELSE OrderList(r)
      BY <2>2, Zenon
    <2>4. OrderList(p) \in Seq(Orders)
      BY <1>1 DEF ListsInv, OrdersAre
    <2>5. k \in DOMAIN qs[p] /\ qs[p][k] = id
      BY <2>3, <2>4
    <2>6. qs' = [qs EXCEPT ![p] = RemoveAt(@, k)]
      BY <2>3
    <2>7. Side!ListsLevels(LevelList', qs')
      BY <1>1, <2>1, SortedAfter
    <2> HIDE DEF qs
    <2>8. Side!Leave(id, p)
      BY <2>1, <2>5, <2>6, <2>7 DEF Side!Leave, Side!RemoveAt, RemoveAt, qs
    <2> QED BY <2>8 DEF Side!Next, qs
  <1>7. CASE UNCHANGED sideVars
    BY <1>4, <1>7 DEF sideVars
  <1> QED BY <1>5, <1>6, <1>7 DEF SideNext

(* Read along its pointers, a side of the book is the specification's, for  *)
(* any numbers of prices and blocks.                                        *)
THEOREM ListsImplementSide == "used" \notin PastEnd => (SideSpec => ImplementsSideOfBook)
  <1> SUFFICES ASSUME "used" \notin PastEnd PROVE SideSpec => ImplementsSideOfBook
    OBVIOUS
  <1>1. SideInit => Side!Init
    <2> SUFFICES ASSUME SideInit PROVE Side!Init
      OBVIOUS
    <2>1. /\ side \in {"BUY", "SELL"} /\ best = NULL /\ level = [p \in Prices |-> NULL]
      BY DEF SideInit, ListsInit
    <2>2. LevelList = <<>> /\ \A p \in Prices : OrderList(p) = <<>>
      BY <2>1 DEF LevelList, OrderList
    <2> QED BY <2>1, <2>2 DEF Side!Init
  <1>2. SideInv /\ SideInv' /\ [SideNext]_sideVars
        => [Side!Next]_<<side, [p \in Prices |-> OrderList(p)], LevelList>>
    BY SideStep
  <1>3. SideSpec => []SideInv
    BY SideInvAlways
  <1> QED BY <1>1, <1>2, <1>3, PTL DEF SideSpec, ImplementsSideOfBook, Side!Spec

(* Two orders of a side never share a block, whatever memory behind the     *)
(* store looks like.                                                        *)
THEOREM NoSharedOrder == SideSpec => []HeldOnce
  <1>1. PoolInv /\ [SideNext]_sideVars => PoolInv'
    <2> SUFFICES ASSUME PoolInv, [SideNext]_sideVars PROVE PoolInv'
      OBVIOUS
    <2>1. ASSUME NEW p \in Prices, restOrder(p) PROVE PoolInv'
      <3>1. CASE allocate
        BY <3>1, AllocateStep
      <3>2. CASE allocateFails
        BY <3>2 DEF allocateFails, PoolInv, PoolTypeOK, HeldOnce
      <3> QED BY <2>1, <3>1, <3>2 DEF restOrder
    <2>2. ASSUME NEW id \in Orders, freeOrder(id) PROVE PoolInv'
      <3>1. id \in 0 .. Beyond /\ deallocate(id)
        BY <2>2, BlockAssumption, PoolAssumption DEF freeOrder, Blocks, Beyond
      <3> QED BY <3>1, DeallocateStep
    <2>3. CASE UNCHANGED sideVars
      BY <2>3 DEF sideVars, poolVars, PoolInv, PoolTypeOK, HeldOnce
    <2> QED BY <2>1, <2>2, <2>3 DEF SideNext
  <1>2. PoolInv => HeldOnce
    BY DEF PoolInv
  <1> QED BY InitPoolInv, <1>1, <1>2, PTL DEF SideInit, SideSpec
=============================================================================
