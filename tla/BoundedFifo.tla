----------------------------- MODULE BoundedFifo -----------------------------
(***************************************************************************)
(* What one lane between two scheduler threads promises, seen from         *)
(* outside: a bounded first-in first-out channel.  One thread puts, one    *)
(* thread takes; a put into a full lane aborts the process, because        *)
(* ProducerConsumerQueue::enque asserts that there is room.                *)
(*                                                                         *)
(* This is the abstract specification that module ProducerConsumerQueue    *)
(* implements.                                                             *)
(***************************************************************************)
EXTENDS Naturals, Sequences

CONSTANTS
    Values,     \* what can be sent through the lane
    NoValue,    \* stands for "nothing returned yet"
    MaxLen      \* how many undelivered values the lane can hold

VARIABLES
    contents,   \* the values put and not yet taken, oldest first
    returned,   \* the value most recently taken
    aborted     \* the process was stopped by a put into a full lane

fifoVars == <<contents, returned, aborted>>

FifoInit ==
    /\ contents = <<>>
    /\ returned = NoValue
    /\ aborted = FALSE

Put(v) ==
    /\ ~aborted
    /\ Len(contents) < MaxLen
    /\ contents' = Append(contents, v)
    /\ UNCHANGED <<returned, aborted>>

Take ==
    /\ ~aborted
    /\ contents # <<>>
    /\ returned' = Head(contents)
    /\ contents' = Tail(contents)
    /\ UNCHANGED aborted

PutOnFull ==
    /\ ~aborted
    /\ Len(contents) = MaxLen
    /\ aborted' = TRUE
    /\ UNCHANGED <<contents, returned>>

FifoNext ==
    \/ \E v \in Values : Put(v)
    \/ Take
    \/ PutOnFull

FifoSpec == FifoInit /\ [][FifoNext]_fifoVars
==============================================================================
