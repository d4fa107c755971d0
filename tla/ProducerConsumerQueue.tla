------------------------ MODULE ProducerConsumerQueue ------------------------
(***************************************************************************)
(* The lock-free ring buffer of producer_consumer_queue.cc.  A Scheduler   *)
(* owns one per peer for steal requests and one per peer for donated       *)
(* tasks; each has exactly one producing and one consuming thread.         *)
(*                                                                         *)
(* Every action makes at most one access to memory the other thread can    *)
(* touch: a load of the other thread's index, an access to a record, or a  *)
(* store of the own index.  Each index is written by one thread only, so   *)
(* the relaxed load a thread makes of its own index is part of the action  *)
(* that uses it.  The acquire loads pair with the release stores, so       *)
(* interleaving the accesses loses no behaviour.                           *)
(***************************************************************************)
EXTENDS Naturals, Sequences

CONSTANTS
    Values,     \* what the callers send: steal requests or tasks
    NoValue,    \* contents of the malloc'ed records nobody wrote yet
    Capacity    \* number of records; one of them always stays unused

ASSUME CapacityAssumption == Capacity \in Nat /\ Capacity >= 2
ASSUME NoValueAssumption == NoValue \notin Values

VARIABLES
    records,     \* the array of records
    readIndex,   \* next record to read, stored by the consumer only
    writeIndex,  \* next record to write, stored by the producer only
    producer,    \* where the producer is inside enque
    pending,     \* the argument of the enque call in progress
    consumer,    \* where the consumer is inside empty and deque
    taken,       \* local t of the deque call in progress
    returned,    \* result of the last deque call that returned
    aborted      \* an assert failed and the process aborted

producerVars == <<writeIndex, producer, pending>>
consumerVars == <<readIndex, consumer, taken, returned>>
vars == <<records, readIndex, writeIndex, producer, pending, consumer, taken,
          returned, aborted>>

Slots == 0 .. Capacity - 1

\* The index runs on past the end of the array.
NextRecordUnwrapped(i) == i + 1

\* The record after the i-th one, wrapping at the end of the array.
NextRecord(i) == IF i + 1 = Capacity THEN 0 ELSE i + 1

TypeOK ==
    /\ records \in [Slots -> Values \cup {NoValue}]
    /\ readIndex \in Slots
    /\ writeIndex \in Slots
    /\ producer \in {"idle", "write", "publish"}
    /\ pending \in Values \cup {NoValue}
    /\ consumer \in {"idle", "check", "read", "release"}
    /\ taken \in Values \cup {NoValue}
    /\ returned \in Values \cup {NoValue}
    /\ aborted \in BOOLEAN

Init ==
    /\ records = [i \in Slots |-> NoValue]
    /\ readIndex = 0
    /\ writeIndex = 0
    /\ producer = "idle"
    /\ pending = NoValue
    /\ consumer = "idle"
    /\ taken = NoValue
    /\ returned = NoValue
    /\ aborted = FALSE

------------------------------------------------------------------------------
(* The producer: bool enque(T t).                                           *)

\* A forgotten assert: the producer writes whether or not there is room.
EnqueUnchecked(v) ==
    /\ ~aborted
    /\ producer = "idle"
    /\ pending' = v
    /\ producer' = "write"
    /\ UNCHANGED <<writeIndex, consumerVars, records, aborted>>

\* enque loads the reader's index and asserts that the record after the one
\* it is about to write is not the one being read.
EnqueCheck(v) ==
    /\ ~aborted
    /\ producer = "idle"
    /\ NextRecord(writeIndex) # readIndex
    /\ pending' = v
    /\ producer' = "write"
    /\ UNCHANGED <<writeIndex, consumerVars, records, aborted>>

\* The assert of enque fails: the lane is full and the process aborts.
EnqueAssertFails ==
    /\ ~aborted
    /\ producer = "idle"
    /\ NextRecord(writeIndex) = readIndex
    /\ aborted' = TRUE
    /\ UNCHANGED <<producerVars, consumerVars, records>>

EnqueWrite ==
    /\ ~aborted
    /\ producer = "write"
    /\ records' = [records EXCEPT ![writeIndex] = pending]
    /\ producer' = "publish"
    /\ UNCHANGED <<writeIndex, pending, consumerVars, aborted>>

\* Publishing before the record is written, as a relaxed store could.
EnquePublishEarly ==
    /\ ~aborted
    /\ producer \in {"write", "publish"}
    /\ writeIndex' = NextRecord(writeIndex)
    /\ producer' = "idle"
    /\ pending' = NoValue
    /\ UNCHANGED <<consumerVars, records, aborted>>

\* The release store of writeIndex makes the record visible; enque returns.
EnquePublish ==
    /\ ~aborted
    /\ producer = "publish"
    /\ writeIndex' = NextRecord(writeIndex)
    /\ producer' = "idle"
    /\ pending' = NoValue
    /\ UNCHANGED <<consumerVars, records, aborted>>

------------------------------------------------------------------------------
(* The consumer: while (!empty()) deque(), as the scheduler loop calls it.  *)

\* The consumer waits until there is more than one value.
FoundSeveral ==
    /\ ~aborted
    /\ consumer = "idle"
    /\ readIndex # writeIndex
    /\ NextRecord(readIndex) # writeIndex
    /\ consumer' = "check"
    /\ UNCHANGED <<producerVars, readIndex, taken, returned, records, aborted>>

\* empty() returned false.
FoundNotEmpty ==
    /\ ~aborted
    /\ consumer = "idle"
    /\ readIndex # writeIndex
    /\ consumer' = "check"
    /\ UNCHANGED <<producerVars, readIndex, taken, returned, records, aborted>>

\* deque asserts that there is a record to read.
DequeCheck ==
    /\ ~aborted
    /\ consumer = "check"
    /\ IF readIndex # writeIndex
       THEN consumer' = "read" /\ UNCHANGED aborted
       ELSE aborted' = TRUE /\ UNCHANGED consumer
    /\ UNCHANGED <<producerVars, readIndex, taken, returned, records>>

DequeRead ==
    /\ ~aborted
    /\ consumer = "read"
    /\ taken' = records[readIndex]
    /\ consumer' = "release"
    /\ UNCHANGED <<producerVars, readIndex, returned, records, aborted>>

\* The release store of readIndex frees the record; deque returns t.
DequeRelease ==
    /\ ~aborted
    /\ consumer = "release"
    /\ readIndex' = NextRecord(readIndex)
    /\ returned' = taken
    /\ taken' = NoValue
    /\ consumer' = "idle"
    /\ UNCHANGED <<producerVars, records, aborted>>

Next ==
    \/ \E v \in Values : EnqueCheck(v)
    \/ EnqueAssertFails
    \/ EnqueWrite
    \/ EnquePublish
    \/ FoundNotEmpty
    \/ DequeCheck
    \/ DequeRead
    \/ DequeRelease

\* Both threads keep running: an enque or deque call once begun is finished,
\* and the consumer's loop comes back to look at the lane.  Nobody is obliged
\* to call enque.
Fairness ==
    /\ WF_vars(EnqueWrite)
    /\ WF_vars(EnquePublish)
    /\ WF_vars(FoundNotEmpty)
    /\ WF_vars(DequeCheck)
    /\ WF_vars(DequeRead)
    /\ WF_vars(DequeRelease)

Spec == Init /\ [][Next]_vars
FairSpec == Spec /\ Fairness

------------------------------------------------------------------------------
(* The lane as its users see it.                                            *)

\* How many records hold a value that was published and not yet released.
Size == IF writeIndex >= readIndex
        THEN writeIndex - readIndex
        ELSE Capacity - readIndex + writeIndex

\* The record that holds the i-th oldest of those values.
SlotOf(i) == IF readIndex + i - 1 < Capacity
             THEN readIndex + i - 1
             ELSE readIndex + i - 1 - Capacity

Contents == [i \in 1 .. Size |-> records[SlotOf(i)]]

Fifo == INSTANCE BoundedFifo WITH contents <- Contents,
                                  MaxLen <- Capacity - 1

\* The ring buffer is a bounded first-in first-out channel for every
\* interleaving of the two threads: no value is lost, duplicated, reordered
\* or read before it was written, and enque's assert fails only when
\* Capacity - 1 values really are undelivered (enque and deque,
\* producer_consumer_queue.cc:34-57).
ImplementsFifo == Fifo!FifoSpec

\* The two threads never work on the same record at once.  The records are
\* plain memory (a StealRequest is two words), so an overlap would be a data
\* race (producer_consumer_queue.cc:41 against :54).
NoRecordRace ==
    /\ TypeOK
    /\ ~ /\ producer = "write"
         /\ consumer = "read"
         /\ readIndex = writeIndex

\* deque's own assert (producer_consumer_queue.cc:49) holds although the
\* lane is looked at in empty and again in deque: the producer running in
\* between can only make the lane longer.
DequeAssertHolds == consumer = "check" => readIndex # writeIndex

\* A value that was published is handed to the consumer although the
\* producer may keep adding values behind it, unless the process aborts:
\* whatever value is the oldest, the consumer gets to release its record
\* (the polling loops of scheduler.cc:107 and :124).
OldestIsDelivered ==
    \A i \in Slots :
        (readIndex = i /\ readIndex # writeIndex) ~> (readIndex # i \/ aborted)

==============================================================================
