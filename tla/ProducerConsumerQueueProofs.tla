--------------------- MODULE ProducerConsumerQueueProofs ---------------------
(***************************************************************************)
(* ProducerConsumerQueue, for every capacity of at least two and every set *)
(* of values: the two threads never touch the same record, deque's assert  *)
(* holds, and the ring buffer implements a bounded FIFO channel.           *)
(***************************************************************************)
EXTENDS ProducerConsumerQueue, SequenceTheorems, TLAPS

\* While enque is past its check there is room: the reader can only move
\* away from the record being written.
RoomWhileWriting ==
    producer \in {"write", "publish"} => NextRecord(writeIndex) # readIndex

\* While deque runs there is a record to read: the writer can only move away.
NotEmptyWhileReading ==
    consumer \in {"check", "read", "release"} => readIndex # writeIndex

\* The values travelling between the locals and the records are the right ones.
LocalsAgree ==
    /\ producer # "idle" => pending \in Values
    /\ producer = "publish" => records[writeIndex] = pending
    /\ consumer = "release" => taken = records[readIndex]

\* Every undelivered record holds a value, never uninitialised memory.
WindowHoldsValues == \A i \in 1 .. Size : records[SlotOf(i)] \in Values

IInv ==
    /\ TypeOK
    /\ RoomWhileWriting
    /\ NotEmptyWhileReading
    /\ LocalsAgree
    /\ WindowHoldsValues

------------------------------------------------------------------------------
(* Arithmetic of the ring.                                                  *)

LEMMA NextRecordType ==
    ASSUME NEW i \in Slots
    PROVE  /\ NextRecord(i) \in Slots
           /\ NextRecord(i) # i
  BY CapacityAssumption DEF NextRecord, Slots

LEMMA NextRecordInjective ==
    ASSUME NEW i \in Slots, NEW j \in Slots, NextRecord(i) = NextRecord(j)
    PROVE  i = j
  BY CapacityAssumption DEF NextRecord, Slots

LEMMA SizeType ==
    ASSUME TypeOK
    PROVE  /\ Size \in Nat
           /\ Size <= Capacity - 1
           /\ Size = 0 <=> readIndex = writeIndex
           /\ Size = Capacity - 1 <=> NextRecord(writeIndex) = readIndex
  BY CapacityAssumption DEF TypeOK, Size, Slots, NextRecord

\* The undelivered values sit in pairwise different records, none of which is
\* the record the producer writes next.
LEMMA SlotOfType ==
    ASSUME TypeOK, NEW i \in 1 .. Size
    PROVE  /\ SlotOf(i) \in Slots
           /\ SlotOf(i) # writeIndex
           /\ SlotOf(1) = readIndex
  BY CapacityAssumption DEF TypeOK, Size, Slots, SlotOf

\* What the lane holds, as a sequence.
ContentsTyped ==
    /\ Size \in Nat
    /\ Contents \in Seq(Values)
    /\ Len(Contents) = Size
    /\ \A i \in 1 .. Size : Contents[i] = records[SlotOf(i)]

LEMMA ContentsType == IInv => ContentsTyped
  <1> SUFFICES ASSUME IInv
               PROVE  ContentsTyped
    OBVIOUS
  <1>1. Size \in Nat
    BY SizeType DEF IInv
  <1>2. \A i \in 1 .. Size : records[SlotOf(i)] \in Values
    BY DEF IInv, WindowHoldsValues
  <1>3. Contents \in [1 .. Size -> Values]
    BY <1>2 DEF Contents
  <1> QED
    BY <1>1, <1>3 DEF Contents, ContentsTyped

------------------------------------------------------------------------------
(* The inductive invariant.                                                 *)

\* Publishing makes the record just written the youngest of the window.
LEMMA PublishGrowsWindow ==
    ASSUME IInv, EnquePublish
    PROVE  /\ Size' = Size + 1
           /\ SlotOf(Size + 1) = writeIndex
           /\ \A i \in 1 .. Size + 1 : SlotOf(i)' = SlotOf(i)
  <1>1. Size' = Size + 1
    BY CapacityAssumption
       DEF IInv, TypeOK, RoomWhileWriting, EnquePublish, consumerVars, Slots,
           Size, NextRecord
  <1>2. SlotOf(Size + 1) = writeIndex
    BY CapacityAssumption DEF IInv, TypeOK, Slots, Size, SlotOf
  <1>3. \A i \in 1 .. Size + 1 : SlotOf(i)' = SlotOf(i)
    BY DEF EnquePublish, consumerVars, SlotOf
  <1> QED
    BY <1>1, <1>2, <1>3

\* Releasing drops the oldest record and moves the others one place forward.
LEMMA ReleaseShrinksWindow ==
    ASSUME IInv, DequeRelease
    PROVE  /\ Size' = Size - 1
           /\ \A i \in 1 .. Size - 1 : SlotOf(i)' = SlotOf(i + 1)
  <1>1. Size' = Size - 1
    BY CapacityAssumption
       DEF IInv, TypeOK, NotEmptyWhileReading, DequeRelease, producerVars, Slots,
           Size, NextRecord
  <1>2. ASSUME NEW i \in 1 .. Size - 1
        PROVE  SlotOf(i)' = SlotOf(i + 1)
    <2>1. readIndex \in Slots /\ readIndex' = NextRecord(readIndex) /\ i \in Nat
      BY <1>2, SizeType DEF IInv, TypeOK, DequeRelease
    <2>2. i < Capacity - 1
      BY <1>2, SizeType, CapacityAssumption DEF IInv
    <2> QED
      BY <2>1, <2>2, CapacityAssumption DEF SlotOf, NextRecord, Slots
  <1> QED
    BY <1>1, <1>2

LEMMA InitEstablishesIInv == Init => IInv
  <1> SUFFICES ASSUME Init
               PROVE  IInv
    OBVIOUS
  <1>1. TypeOK
    <2>1. 0 \in Slots
      BY CapacityAssumption DEF Slots
    <2>2. records \in [Slots -> Values \cup {NoValue}]
      BY DEF Init
    <2> QED
      BY <2>1, <2>2 DEF Init, TypeOK
  <1>2. RoomWhileWriting /\ NotEmptyWhileReading /\ LocalsAgree
    BY DEF Init, RoomWhileWriting, NotEmptyWhileReading, LocalsAgree
  <1>3. WindowHoldsValues
    BY <1>1, SizeType DEF Init, WindowHoldsValues
  <1> QED
    BY <1>1, <1>2, <1>3 DEF IInv

LEMMA StepPreservesIInv == IInv /\ [Next]_vars => IInv'
  <1> SUFFICES ASSUME IInv, [Next]_vars
               PROVE  IInv'
    OBVIOUS
  <1> USE CapacityAssumption
      DEF Slots, producerVars, consumerVars, IInv, TypeOK, RoomWhileWriting,
          NotEmptyWhileReading, LocalsAgree, WindowHoldsValues
  <1>1. ASSUME NEW v \in Values, EnqueCheck(v)
        PROVE  IInv'
    BY <1>1 DEF EnqueCheck, Size, SlotOf, NextRecord
  <1>2. CASE EnqueAssertFails
    BY <1>2 DEF EnqueAssertFails, Size, SlotOf
  <1>3. CASE EnqueWrite
    BY <1>3, SlotOfType, NextRecordType DEF EnqueWrite, Size, SlotOf
  <1>4. CASE EnquePublish
    <2>1. /\ TypeOK'
          /\ RoomWhileWriting'
          /\ NotEmptyWhileReading'
          /\ LocalsAgree'
      BY <1>4, NextRecordType, NextRecordInjective DEF EnquePublish
    <2>2. ASSUME NEW i \in 1 .. Size'
          PROVE  (records[SlotOf(i)] \in Values)'
      <3>1. i \in 1 .. Size + 1 /\ SlotOf(i)' = SlotOf(i) /\ records' = records
        BY <1>4, <2>2, PublishGrowsWindow DEF EnquePublish
      <3>2. CASE i \in 1 .. Size
        BY <3>1, <3>2
      <3>3. CASE i = Size + 1
        BY <1>4, <3>1, <3>3, PublishGrowsWindow DEF EnquePublish
      <3> QED
        BY <3>1, <3>2, <3>3, SizeType
    <2> QED
      BY <2>1, <2>2
  <1>5. CASE FoundNotEmpty
    BY <1>5 DEF FoundNotEmpty, Size, SlotOf
  <1>6. CASE DequeCheck
    BY <1>6 DEF DequeCheck, Size, SlotOf
  <1>7. CASE DequeRead
    BY <1>7 DEF DequeRead, Size, SlotOf
  <1>8. CASE DequeRelease
    <2>1. /\ TypeOK'
          /\ RoomWhileWriting'
          /\ NotEmptyWhileReading'
          /\ LocalsAgree'
      BY <1>8, NextRecordType, NextRecordInjective DEF DequeRelease
    <2>2. ASSUME NEW i \in 1 .. Size'
          PROVE  (records[SlotOf(i)] \in Values)'
      <3>1. i \in 1 .. Size - 1 /\ SlotOf(i)' = SlotOf(i + 1)
        BY <1>8, <2>2, ReleaseShrinksWindow
      <3>2. i + 1 \in 1 .. Size /\ records' = records
        BY <1>8, <3>1, SizeType DEF DequeRelease
      <3> QED
        BY <3>1, <3>2
    <2> QED
      BY <2>1, <2>2
  <1>9. CASE UNCHANGED vars
    BY <1>9 DEF vars, Size, SlotOf
  <1> QED
    BY <1>1, <1>2, <1>3, <1>4, <1>5, <1>6, <1>7, <1>8, <1>9 DEF Next

THEOREM Typing == Spec => []TypeOK
  <1>1. IInv => TypeOK
    BY DEF IInv
  <1> QED
    BY <1>1, InitEstablishesIInv, StepPreservesIInv, PTL DEF Spec

LEMMA IInvHolds == Spec => []IInv
  BY InitEstablishesIInv, StepPreservesIInv, PTL DEF Spec

------------------------------------------------------------------------------
(* The safety properties.                                                   *)

\* The producer and the consumer never work on the same record at once
\* (producer_consumer_queue.cc:41 and :54), whatever the capacity.
THEOREM RecordsAreRaceFree == Spec => []NoRecordRace
  <1>1. IInv => NoRecordRace
    BY DEF IInv, NotEmptyWhileReading, NoRecordRace
  <1> QED
    BY <1>1, IInvHolds, PTL

\* A deque that follows a negative empty never fails its assert
\* (producer_consumer_queue.cc:49).
THEOREM DequeIsSafe == Spec => []DequeAssertHolds
  <1>1. IInv => DequeAssertHolds
    BY DEF IInv, NotEmptyWhileReading, DequeAssertHolds
  <1> QED
    BY <1>1, IInvHolds, PTL

------------------------------------------------------------------------------
(* The refinement.                                                          *)

LEMMA InitRefines == Init => Fifo!FifoInit
  <1> SUFFICES ASSUME Init
               PROVE  Fifo!FifoInit
    OBVIOUS
  <1>1. IInv /\ Size = 0
    BY InitEstablishesIInv DEF Init, Size
  <1>2. Contents = <<>>
    BY <1>1, ContentsType, EmptySeq DEF ContentsTyped
  <1> QED
    BY <1>2 DEF Init, Fifo!FifoInit

\* Two windows of the same length over the same values are the same lane.
LEMMA ContentsUnchanged ==
    ASSUME IInv, IInv', Size' = Size,
           \A i \in 1 .. Size : records'[SlotOf(i)'] = records[SlotOf(i)]
    PROVE  Contents' = Contents
  BY DEF Contents

LEMMA StepRefines ==
    ASSUME IInv, IInv', [Next]_vars
    PROVE  [Fifo!FifoNext]_(Fifo!fifoVars)
  <1>t. ContentsTyped /\ ContentsTyped'
    BY ContentsType, PTL
  <1> USE DEF producerVars, consumerVars, Fifo!fifoVars
  <1>1. ASSUME NEW v \in Values, EnqueCheck(v)
        PROVE  UNCHANGED Fifo!fifoVars
    BY <1>1 DEF EnqueCheck, Contents, Size, SlotOf
  <1>2. CASE EnqueAssertFails
    <2>1. Len(Contents) = Capacity - 1
      BY <1>2, <1>t, SizeType DEF IInv, EnqueAssertFails, ContentsTyped
    <2>2. Contents' = Contents
      BY <1>2 DEF EnqueAssertFails, Contents, Size, SlotOf
    <2> QED
      BY <1>2, <2>1, <2>2 DEF EnqueAssertFails, Fifo!FifoNext, Fifo!PutOnFull
  <1>3. CASE EnqueWrite
    <2>1. Size' = Size /\ \A i \in 1 .. Size : SlotOf(i)' = SlotOf(i)
      BY <1>3 DEF EnqueWrite, Size, SlotOf
    <2>2. \A i \in 1 .. Size : records'[SlotOf(i)] = records[SlotOf(i)]
      BY <1>3, SlotOfType DEF EnqueWrite, IInv, TypeOK
    <2>3. Contents' = Contents
      BY <2>1, <2>2, ContentsUnchanged
    <2> QED
      BY <1>3, <2>3 DEF EnqueWrite
  <1>4. CASE EnquePublish
    <2>1. pending \in Values /\ records[writeIndex] = pending
      BY <1>4 DEF EnquePublish, IInv, LocalsAgree
    <2>2. Len(Contents) < Capacity - 1
      <3>1. Size # Capacity - 1 /\ Size <= Capacity - 1 /\ Size \in Nat
        BY <1>4, SizeType DEF EnquePublish, IInv, RoomWhileWriting
      <3> QED
        BY <1>t, <3>1, CapacityAssumption DEF ContentsTyped
    <2>3. Contents' = Append(Contents, pending)
      <3>1. /\ Contents \in Seq(Values) /\ Len(Contents) = Size
            /\ Contents' \in Seq(Values) /\ Len(Contents') = Size + 1
        BY <1>4, <1>t, PublishGrowsWindow DEF ContentsTyped
      <3>2. ASSUME NEW i \in 1 .. Size + 1
            PROVE  Contents'[i] = Append(Contents, pending)[i]
        <4>1. Contents'[i] = records[SlotOf(i)]
          BY <1>4, <1>t, <3>1, <3>2, PublishGrowsWindow DEF EnquePublish, ContentsTyped
        <4>2. CASE i = Size + 1
          BY <1>4, <2>1, <3>1, <4>1, <4>2, PublishGrowsWindow, AppendProperties
        <4>3. CASE i \in 1 .. Size
          BY <1>t, <2>1, <3>1, <4>1, <4>3, AppendProperties DEF ContentsTyped
        <4> QED
          BY <1>t, <3>2, <4>2, <4>3 DEF ContentsTyped
      <3>3. Append(Contents, pending) \in Seq(Values)
            /\ Len(Append(Contents, pending)) = Size + 1
        BY <2>1, <3>1, AppendProperties
      <3> QED
        BY <3>1, <3>2, <3>3, SeqEqual
    <2> QED
      BY <1>4, <2>1, <2>2, <2>3 DEF EnquePublish, Fifo!FifoNext, Fifo!Put
  <1>5. CASE FoundNotEmpty
    BY <1>5 DEF FoundNotEmpty, Contents, Size, SlotOf
  <1>6. CASE DequeCheck
    <2>1. UNCHANGED <<records, readIndex, writeIndex, returned, aborted>>
      BY <1>6 DEF DequeCheck, IInv, NotEmptyWhileReading
    <2> QED
      BY <2>1 DEF Contents, Size, SlotOf
  <1>7. CASE DequeRead
    BY <1>7 DEF DequeRead, Contents, Size, SlotOf
  <1>8. CASE DequeRelease
    <2>1. /\ Contents \in Seq(Values) /\ Len(Contents) = Size
          /\ Contents' \in Seq(Values) /\ Len(Contents') = Size - 1
      BY <1>8, <1>t, ReleaseShrinksWindow DEF ContentsTyped
    <2>2. Size \in Nat /\ Size > 0 /\ Contents # <<>>
      BY <1>8, <2>1, SizeType
         DEF DequeRelease, IInv, NotEmptyWhileReading
    <2>3. returned' = Head(Contents)
      BY <1>8, <1>t, <2>1, <2>2, SlotOfType
         DEF DequeRelease, IInv, LocalsAgree, ContentsTyped
    <2>4. Contents' = Tail(Contents)
      <3>1. ASSUME NEW i \in 1 .. Size - 1
            PROVE  Contents'[i] = Tail(Contents)[i]
        <4>1. Contents'[i] = records[SlotOf(i + 1)]
          BY <1>8, <1>t, <2>1, <3>1, ReleaseShrinksWindow DEF DequeRelease, ContentsTyped
        <4>2. Contents[i + 1] = records[SlotOf(i + 1)]
          BY <1>t, <2>2, <3>1 DEF ContentsTyped
        <4> QED
          BY <2>1, <2>2, <4>1, <4>2, HeadTailProperties
      <3> QED
        BY <2>1, <2>2, <3>1, HeadTailProperties, SeqEqual
    <2> QED
      BY <1>8, <2>2, <2>3, <2>4 DEF DequeRelease, Fifo!FifoNext, Fifo!Take
  <1>9. CASE UNCHANGED vars
    BY <1>9 DEF vars, Contents, Size, SlotOf
  <1> QED
    BY <1>1, <1>2, <1>3, <1>4, <1>5, <1>6, <1>7, <1>8, <1>9 DEF Next

\* For every capacity and every interleaving the ring buffer is a bounded
\* first-in first-out channel of Capacity - 1 places.
THEOREM RingBufferImplementsFifo == Spec => ImplementsFifo
  BY InitRefines, StepRefines, IInvHolds, PTL DEF Spec, ImplementsFifo, Fifo!FifoSpec
==============================================================================
