------------------------------- MODULE RunQueues -------------------------------
(***************************************************************************)
(* The two run queues of a scheduler: PriorityQueue for interactive tasks, *)
(* CalenderQueue for batch tasks, and Scheduler::submit and getNextTask    *)
(* over them.  One thread uses them, so a call is one action, but for the  *)
(* search of the calendar queue, which takes a step per bucket it passes.  *)
(*                                                                         *)
(* Priorities are counted from 0: the numbers below NInteractive are       *)
(* PRI_MIN_INTERACT .. PRI_MAX_INTERACT, the others PRI_MIN_BATCH ..       *)
(* PRI_MAX_BATCH.  A small number is a high priority.                      *)
(***************************************************************************)
EXTENDS Integers, Sequences, FiniteSets

CONSTANTS
    Tasks,
    NInteractive,   \* PRIORITYQ_NQUEUE
    NBatch,         \* CALENDERQ_NQUEUE
    Priorities,     \* the priorities that tasks have when they are submitted
    Increments      \* what the clock may add to insq, modulo NBatch

ASSUME SizesAssumption ==
    /\ NInteractive \in Nat \ {0}
    /\ NBatch \in Nat /\ NBatch >= 2
    /\ Priorities \subseteq 0 .. NInteractive + NBatch - 1
    /\ Increments \subseteq 0 .. NBatch - 1

VARIABLES
    queue,       \* PriorityQueue::queue, tasks of one priority in each
    bitmap,      \* PriorityQueue::bitmap, which of them have tasks
    queueSize,   \* PriorityQueue::size_
    bucket,      \* CalenderQueue::queue
    bucketSize,  \* CalenderQueue::size_
    runq,        \* the bucket that tasks are taken from
    insq,        \* the bucket for tasks of the highest batch priority
    searching,   \* CalenderQueue::getNextTask looks for a bucket with tasks
    late,        \* the clock has moved insq: an INSQ_UPDATE_INTERVAL has passed
    prio,        \* priority of each queued task
    arrivals     \* the queued tasks in the order they were submitted in

interactive == <<queue, bitmap, queueSize>>
calendar == <<bucket, bucketSize, runq, insq, late>>
vars == <<interactive, calendar, searching, prio, arrivals>>

Levels == 0 .. NInteractive - 1
Buckets == 0 .. NBatch - 1

InSeq(t, seq) == \E i \in 1 .. Len(seq) : seq[i] = t
Queued(t) == InSeq(t, arrivals)
Without(seq, t) ==
    LET k == CHOOSE i \in 1 .. Len(seq) : seq[i] = t
    IN [i \in 1 .. Len(seq) - 1 |-> IF i < k THEN seq[i] ELSE seq[i + 1]]

TypeOK ==
    /\ queue \in [Levels -> Seq(Tasks)]
    /\ bitmap \in [Levels -> BOOLEAN]
    /\ queueSize \in Nat
    /\ bucket \in [Buckets -> Seq(Tasks)]
    /\ bucketSize \in Nat
    /\ runq \in Buckets
    /\ insq \in Buckets
    /\ late \in BOOLEAN
    /\ searching \in BOOLEAN
    /\ prio \in [Tasks -> 0 .. NInteractive + NBatch - 1]
    /\ arrivals \in Seq(Tasks)

Init ==
    /\ queue = [p \in Levels |-> <<>>]
    /\ bitmap = [p \in Levels |-> FALSE]
    /\ queueSize = 0
    /\ bucket = [b \in Buckets |-> <<>>]
    /\ bucketSize = 0
    /\ runq = 0
    /\ insq = 1
    /\ late = FALSE
    /\ searching = FALSE
    /\ prio = [t \in Tasks |-> 0]
    /\ arrivals = <<>>

------------------------------------------------------------------------------
(* Scheduler::submit, for a task in mode SYNC that is in neither queue.     *)

Arrives(t, p) ==
    /\ prio' = [prio EXCEPT ![t] = p]
    /\ arrivals' = Append(arrivals, t)

Leaves(t) ==
    /\ prio' = [prio EXCEPT ![t] = 0]
    /\ arrivals' = Without(arrivals, t)

SubmitInteractive(t, p) ==
    /\ ~searching
    /\ ~Queued(t)
    /\ p \in Levels
    /\ queue' = [queue EXCEPT ![p] = Append(@, t)]
    /\ bitmap' = [bitmap EXCEPT ![p] = TRUE]
    /\ queueSize' = queueSize + 1
    /\ Arrives(t, p)
    /\ UNCHANGED <<calendar, searching>>

\* The last bucket is never reached.
AfterWrapsEarly(b) == (b + 1) % (NBatch - 1)

After(b) == (b + 1) % NBatch

\* The advance of insq is not kept away from runq.
AdvancedFreely(i) == (insq + i) % NBatch

\* insq once the clock advanced it by i: last_insq_update_time is set by the
\* constructor only, so that every call adds all the time since then again.
Advanced(i) ==
    LET q == (insq + i) % NBatch IN
    IF q = runq THEN After(runq) ELSE q

\* The bucket is counted from the end.
PositionReversed(q, p) == (q - (p - NInteractive)) % NBatch

\* insert_position.
Position(q, p) == (q + p - NInteractive) % NBatch

SubmitBatch(t, p, i) ==
    LET q == Advanced(i)
        b == Position(q, p)
    IN  /\ ~searching
        /\ ~Queued(t)
        /\ p \notin Levels
        /\ insq' = q
        /\ late' = (late \/ i # 0)
        /\ bucket' = [bucket EXCEPT ![b] = Append(@, t)]
        /\ bucketSize' = bucketSize + 1
        /\ Arrives(t, p)
        /\ UNCHANGED <<interactive, runq, searching>>

------------------------------------------------------------------------------
(* Scheduler::getNextTask, called when one of the queues is not empty.      *)

\* The bit of an emptied queue stays set.
TakeBitStays(p) ==
    LET t == Head(queue[p]) IN
    /\ ~searching
    /\ queueSize > 0
    /\ bitmap[p]
    /\ \A l \in Levels : l < p => ~bitmap[l]
    /\ queue' = [queue EXCEPT ![p] = Tail(@)]
    /\ queueSize' = queueSize - 1
    /\ Leaves(t)
    /\ UNCHANGED <<bitmap, calendar, searching>>

\* Any queue with tasks will do.
TakeAnyLevel(p) ==
    LET t == Head(queue[p]) IN
    /\ ~searching
    /\ queueSize > 0
    /\ bitmap[p]
    /\ queue' = [queue EXCEPT ![p] = Tail(@)]
    /\ queueSize' = queueSize - 1
    /\ bitmap' = [bitmap EXCEPT ![p] = Tail(queue[p]) # <<>>]
    /\ Leaves(t)
    /\ UNCHANGED <<calendar, searching>>

\* PriorityQueue::getNextTask: the first queue whose bit is set.
TakeInteractive(p) ==
    LET t == Head(queue[p]) IN
    /\ ~searching
    /\ queueSize > 0
    /\ bitmap[p]
    /\ \A l \in Levels : l < p => ~bitmap[l]
    /\ queue' = [queue EXCEPT ![p] = Tail(@)]
    /\ queueSize' = queueSize - 1
    /\ bitmap' = [bitmap EXCEPT ![p] = Tail(queue[p]) # <<>>]
    /\ Leaves(t)
    /\ UNCHANGED <<calendar, searching>>

\* CalenderQueue::getNextTask is called and finds its size is not 0.
StartSearch ==
    /\ ~searching
    /\ queueSize = 0
    /\ bucketSize > 0
    /\ searching' = TRUE
    /\ UNCHANGED <<interactive, calendar, prio, arrivals>>

\* Where the two indices meet runq is pushed on instead of insq.
PassInsq ==
    /\ searching
    /\ bucket[runq] = <<>>
    /\ runq' = IF After(runq) = insq THEN After(After(runq)) ELSE After(runq)
    /\ UNCHANGED <<interactive, bucket, bucketSize, insq, late, searching, prio, arrivals>>

\* An empty bucket is passed, and insq pushed on if runq has caught up with it.
PassBucket ==
    /\ searching
    /\ bucket[runq] = <<>>
    /\ runq' = After(runq)
    /\ insq' = IF After(runq) = insq THEN After(After(runq)) ELSE insq
    /\ UNCHANGED <<interactive, bucket, bucketSize, late, searching, prio, arrivals>>

TakeBatch ==
    LET t == Head(bucket[runq]) IN
    /\ searching
    /\ bucket[runq] # <<>>
    /\ bucket' = [bucket EXCEPT ![runq] = Tail(@)]
    /\ bucketSize' = bucketSize - 1
    /\ searching' = FALSE
    /\ Leaves(t)
    /\ UNCHANGED <<interactive, runq, insq, late>>

Submit ==
    \E t \in Tasks : \E p \in Priorities :
        \/ SubmitInteractive(t, p)
        \/ \E i \in Increments : SubmitBatch(t, p, i)

GetNextTask ==
    \/ \E p \in Levels : TakeInteractive(p)
    \/ StartSearch
    \/ PassBucket
    \/ TakeBatch

Next == Submit \/ GetNextTask

Spec == Init /\ [][Next]_vars

\* The scheduler's thread takes tasks as long as there are any; nothing makes
\* anybody submit tasks.
FairSpec == Spec /\ WF_vars(GetNextTask)

------------------------------------------------------------------------------
(* Properties.                                                              *)

BitmapAgrees == \A p \in Levels : bitmap[p] <=> queue[p] # <<>>

\* The tasks in a family of queues, and that none is twice in them.
Held(f) == {t \in Tasks : \E p \in DOMAIN f : InSeq(t, f[p])}
HeldOnce(f) ==
    \A p, q \in DOMAIN f : \A i \in 1 .. Len(f[p]), j \in 1 .. Len(f[q]) :
        f[p][i] = f[q][j] => p = q /\ i = j

\* The bitmap and the sizes, which is all that getNextTask and the scheduler
\* look at before they take a task, agree with the queues, and together the
\* queues hold every task that was submitted and not taken, once: so no task
\* is forgotten, and the front of an empty queue is never taken
\* (priority_queue.cc:9-21, calender_queue.cc:14-32, scheduler.cc:133).
\* Whichever of the clock and the search moves its index, insq is another
\* bucket than runq (calender_queue.cc:10-12 and :25-27).
QueuesAgree ==
    /\ TypeOK
    /\ insq # runq
    /\ BitmapAgrees
    /\ queueSize = Cardinality(Held(queue)) /\ HeldOnce(queue)
    /\ bucketSize = Cardinality(Held(bucket)) /\ HeldOnce(bucket)
    /\ \A t \in Tasks :
          /\ \A p \in Levels : InSeq(t, queue[p]) <=> Queued(t) /\ prio[t] = p
          /\ t \in Held(bucket) <=> Queued(t) /\ prio[t] \notin Levels

Taken(t) == Queued(t) /\ ~InSeq(t, arrivals')
Ahead(u, t, seq) == \E i, j \in 1 .. Len(seq) : i < j /\ seq[i] = u /\ seq[j] = t
Before(u, t) == Ahead(u, t, arrivals)

\* Whenever a task is taken, no interactive task is waiting that has a higher
\* priority, or the same and waits longer; batch tasks are never taken while an
\* interactive one waits (scheduler.cc:83-87, priority_queue.cc:15-23).
InteractiveFirst ==
    [][\A t, u \in Tasks :
          Taken(t) /\ Queued(u) /\ u # t /\ prio[u] \in Levels =>
              prio[t] < prio[u] \/ (prio[t] = prio[u] /\ Before(t, u))]_vars

\* A search for a batch task comes to an end, it does not go round the buckets
\* for ever (the while (true) of calender_queue.cc:22-34).
SearchEnds == searching ~> ~searching

\* A batch task is taken although another one waits that was submitted earlier
\* and has a higher priority.
Overtakes ==
    \E t, u \in Tasks :
        /\ Taken(t)
        /\ Before(u, t)
        /\ {prio[t], prio[u]} \cap Levels = {}
        /\ prio[u] < prio[t]

\* A batch task that was submitted earlier and has a higher priority is not
\* overtaken by a later one of a lower priority, as Benchmarks.ipynb:276-278
\* says of two CPU chains: the calendar queue lets the low one run "little
\* later".
HigherPriorityFirst == [][~Overtakes]_vars

\* It is not, as long as the clock has not moved the insertion index
\* (calender_queue.cc:8-13): runq follows behind insq, whatever else is
\* submitted and taken.  This is about tasks of any priority but the very
\* lowest one, whose bucket is runq itself when insq is right after it; see
\* MCRunQueues.
HigherPriorityFirstAtFirst == [][~late => ~Overtakes]_vars

\* A batch task is put into the bucket that tasks are taken from.
JoinsRunq == \E t \in Tasks : ~Queued(t) /\ InSeq(t, bucket'[runq])

\* A batch task starves in one way only, whatever the clock adds to insq and
\* however many tasks come: if it waits for ever although batch tasks are taken
\* again and again, or no interactive ones come any more, then from some time
\* on runq stays at one bucket, which other tasks join for ever.  As long as
\* runq moves on, each task's turn comes: a task stays in its bucket, and no
\* bucket is left out on the way round or left with a task in it
\* (calender_queue.cc:22-34).  Benchmarks.ipynb:278 says more, that tasks of
\* low priority "will not starve", but the clock can move insq such that others
\* do join that bucket for ever (:8-14).
StarvesOnlyByJoiners ==
    \A t \in Tasks :
        <>[]Queued(t) /\ ([]<><<TakeBatch>>_vars \/ <>[](queueSize = 0)) =>
            <>[][UNCHANGED runq]_vars /\ []<><<JoinsRunq>>_vars

==============================================================================
