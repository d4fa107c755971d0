---------------------------- MODULE WorkStealing ----------------------------
(***************************************************************************)
(* The scheduler threads of scheduler.cc, the work stealing of             *)
(* Coordinator::stealTasks and the lanes between them.                     *)
(*                                                                         *)
(* Each scheduler thread repeats process_interactive_tasks: it collects    *)
(* finished I/O, serves the steal requests others sent it, accepts the     *)
(* tasks others donated, and then either executes one task or, having      *)
(* none, asks the busiest other scheduler for some.  A daemon thread asks  *)
(* on behalf of others; which requests it sends is the subject of module   *)
(* BalanceLoad, here it may send any.                                      *)
(*                                                                         *)
(* An action makes at most one access to memory that another thread        *)
(* writes.  A lane is the bounded FIFO that module ProducerConsumerQueue   *)
(* is shown to implement; its consumer's "not empty" stays true until it   *)
(* takes the value itself, so asking and taking are one action.  A local   *)
(* goes back to its initial value when it goes out of scope.               *)
(***************************************************************************)
EXTENDS Integers, Sequences, FiniteSets

CONSTANTS
    N,                  \* number of schedulers, Coordinator::schedulers.size()
    Tasks,              \* every task of every chain
    FirstTasks,         \* the tasks main submits, in order
    NextTasks,          \* the next tasks of a task
    AsyncTasks,         \* tasks first submitted in mode ASYNC_FILE
    MayFail,            \* tasks whose execution or I/O may fail
    NoTask,             \* no task in hand
    MaxTasksToSteal,    \* MAX_TASKS_TO_STEAL of coordinator.h
    LaneRoom,           \* how many values a lane holds, its capacity less one
    DaemonRequests,     \* bound on the requests the daemon sends
    AllToFirst          \* built with ENABLE_LOAD_BALANCE_METRICS

Sched == 0 .. N - 1
FirstSet == {FirstTasks[i] : i \in 1 .. Len(FirstTasks)}

ASSUME SizesAssumption ==
    /\ N \in Nat \ {0}
    /\ MaxTasksToSteal \in Nat \ {0}
    /\ LaneRoom \in Nat \ {0}
    /\ DaemonRequests \in Nat

\* The chains are forests: a task is a first task or the next of one other.
ASSUME TasksAssumption ==
    /\ IsFiniteSet(Tasks)
    /\ NoTask \notin Tasks
    /\ FirstTasks \in Seq(Tasks)
    /\ \A i, j \in 1 .. Len(FirstTasks) : FirstTasks[i] = FirstTasks[j] => i = j
    /\ NextTasks \in [Tasks -> SUBSET Tasks]
    /\ AsyncTasks \subseteq Tasks \ FirstSet
    /\ \A t \in Tasks : NextTasks[t] \cap FirstSet = {}
    /\ \A t, u \in Tasks : t # u => NextTasks[t] \cap NextTasks[u] = {}

VARIABLES
    ready,      \* tasks in interactive_task_queue and batch_task_queue
    taskCount,  \* current_task_count
    inProcess,  \* in_process_steal_requests
    submitted,  \* submitted_request_count
    completed,  \* completed_request_count
    subq,       \* submission_queues[i] of a scheduler
    compq,      \* completion_queues[i] of a scheduler
    ring,       \* I/O in flight of a scheduler
    cq,         \* I/O finished by the kernel, not yet collected
    pc,         \* where a thread is
    idx,        \* index of the lane it is emptying
    ev,         \* the steal request it is serving
    moved,      \* loop counter i of the donation
    hand,       \* the task it has taken from a queue or executes
    todo,       \* next tasks of that task it still has to submit
    scan,       \* locals of stealTasks
    daemon,     \* the request the balancing daemon is sending
    budget,     \* requests the daemon may still send
    born,       \* tasks submitted so far
    done,       \* tasks executed and deleted
    aborted     \* an assert of enque failed and the process aborted

queues == <<ready, taskCount>>
counters == <<inProcess, submitted, completed>>
lanes == <<subq, compq>>
io == <<ring, cq>>
locals == <<idx, ev, moved, hand, todo, scan>>
environment == <<daemon, budget>>
history == <<born, done>>
vars == <<queues, counters, lanes, io, pc, locals, environment, history, aborted>>

Request == [count : Int, to : Sched]
NoRequest(s) == [count |-> 0, to |-> s]

\* The first id from c on whose count stealTasks looks at for recipient s.
FromPeer(s, c) == IF c = s THEN c + 1 ELSE c

NoScan(s) ==
    [next |-> FromPeer(s, 0), total |-> 0, donor |-> s, donorCount |-> 0, ask |-> 0]

Places == {"poll", "drain", "donate", "handoff", "handoffCount", "mark",
           "acceptCheck", "accept", "acceptSubmit", "acceptDec",
           "idleCheck", "idleCheck2", "scan", "stealSend", "stealCount",
           "stealMark", "process", "spawn", "dead"}

TypeOK ==
    /\ ready \in [Sched -> SUBSET Tasks]
    /\ taskCount \in [Sched -> Int]
    /\ inProcess \in [Sched -> Int]
    /\ submitted \in [Sched -> Int]
    /\ completed \in [Sched -> Int]
    /\ subq \in [Sched -> [Sched -> Seq(Request)]]
    /\ compq \in [Sched -> [Sched -> Seq(Tasks)]]
    /\ ring \in [Sched -> SUBSET Tasks]
    /\ cq \in [Sched -> SUBSET Tasks]
    /\ pc \in [Sched -> Places]
    /\ idx \in [Sched -> Sched]
    /\ ev \in [Sched -> Request]
    /\ moved \in [Sched -> Nat]
    /\ hand \in [Sched -> Tasks \cup {NoTask}]
    /\ todo \in [Sched -> SUBSET Tasks]
    /\ scan \in [Sched -> [next : 0 .. N, total : Int, donor : Sched,
                           donorCount : Int, ask : Int]]
    /\ daemon \in [sending : BOOLEAN, donor : Sched]
    /\ budget \in 0 .. DaemonRequests
    /\ born \subseteq Tasks
    /\ done \subseteq Tasks
    /\ aborted \in BOOLEAN

\* Coordinator::submit deals the first tasks out in turn before the threads
\* start; a build that measures load balancing gives them all to scheduler 0.
HomeOf(i) == IF AllToFirst THEN 0 ELSE (i - 1) % N

Init ==
    /\ ready = [s \in Sched |->
                  {FirstTasks[i] : i \in {j \in 1 .. Len(FirstTasks) : HomeOf(j) = s}}]
    /\ taskCount = [s \in Sched |-> Cardinality(ready[s])]
    /\ inProcess = [s \in Sched |-> 0]
    /\ submitted = [s \in Sched |-> 0]
    /\ completed = [s \in Sched |-> 0]
    /\ subq = [s \in Sched |-> [i \in Sched |-> <<>>]]
    /\ compq = [s \in Sched |-> [i \in Sched |-> <<>>]]
    /\ ring = [s \in Sched |-> {}]
    /\ cq = [s \in Sched |-> {}]
    /\ pc = [s \in Sched |-> "poll"]
    /\ idx = [s \in Sched |-> 0]
    /\ ev = [s \in Sched |-> NoRequest(s)]
    /\ moved = [s \in Sched |-> 0]
    /\ hand = [s \in Sched |-> NoTask]
    /\ todo = [s \in Sched |-> {}]
    /\ scan = [s \in Sched |-> NoScan(s)]
    /\ daemon = [sending |-> FALSE, donor |-> 0]
    /\ budget = DaemonRequests
    /\ born = FirstSet
    /\ done = {}
    /\ aborted = FALSE

------------------------------------------------------------------------------
(* Helpers.                                                                 *)

At(s, place) == ~aborted /\ pc[s] = place
Goto(s, place) == pc' = [pc EXCEPT ![s] = place]

Add(counter, s, n) == [counter EXCEPT ![s] = @ + n]

\* The condition that enque asserts.
HasRoom(lane) == Len(lane) < LaneRoom

\* submit of a task in mode SYNC, by the thread that owns the queues.
SubmitSync(s, t) ==
    /\ ready' = [ready EXCEPT ![s] = @ \cup {t}]
    /\ taskCount' = Add(taskCount, s, 1)

\* getNextTask does not pop the task it returns.
TakeWithoutPop(s, t) ==
    /\ t \in ready[s]
    /\ taskCount' = Add(taskCount, s, -1)
    /\ hand' = [hand EXCEPT ![s] = t]
    /\ UNCHANGED ready

\* getNextTask: which of the ready tasks comes first is left open here.
TakeReady(s, t) ==
    /\ t \in ready[s]
    /\ ready' = [ready EXCEPT ![s] = @ \ {t}]
    /\ taskCount' = Add(taskCount, s, -1)
    /\ hand' = [hand EXCEPT ![s] = t]

\* The loop goes on to an index that does not exist.
NextLanePastEnd(s, here, after) ==
    IF idx[s] + 1 <= N
    THEN idx' = [idx EXCEPT ![s] = @ + 1] /\ Goto(s, here)
    ELSE idx' = [idx EXCEPT ![s] = 0] /\ Goto(s, after)

\* The next lane of a loop over all lanes, or what follows the loop.
NextLane(s, here, after) ==
    IF idx[s] + 1 < N
    THEN idx' = [idx EXCEPT ![s] = @ + 1] /\ Goto(s, here)
    ELSE idx' = [idx EXCEPT ![s] = 0] /\ Goto(s, after)

------------------------------------------------------------------------------
(* process_completed: collect the finished I/O.                             *)

\* The kernel finishes a read or a write.
IoFinishes(s, t) ==
    /\ ~aborted
    /\ t \in ring[s]
    /\ ring' = [ring EXCEPT ![s] = @ \ {t}]
    /\ cq' = [cq EXCEPT ![s] = @ \cup {t}]
    /\ UNCHANGED <<queues, counters, lanes, pc, locals, environment, history, aborted>>

CollectIo(s, t) ==
    /\ At(s, "poll")
    /\ t \in cq[s]
    /\ cq' = [cq EXCEPT ![s] = @ \ {t}]
    /\ SubmitSync(s, t)
    /\ UNCHANGED <<counters, lanes, ring, pc, locals, environment, history, aborted>>

\* A negative result is thrown; Coordinator::start's handler ends the thread.
IoFails(s, t) ==
    /\ At(s, "poll")
    /\ t \in cq[s] \cap MayFail
    /\ Goto(s, "dead")
    /\ UNCHANGED <<queues, counters, lanes, io, locals, environment, history, aborted>>

------------------------------------------------------------------------------
(* Donating: serve the steal requests in the submission lanes.              *)

\* Nothing left to collect: load submitted_request_count.
CheckSubmitted(s) ==
    /\ At(s, "poll")
    /\ cq[s] = {}
    /\ Goto(s, IF submitted[s] > 0 THEN "drain" ELSE "acceptCheck")
    /\ UNCHANGED <<queues, counters, lanes, io, locals, environment, history, aborted>>

SubmissionLaneEmpty(s) ==
    /\ At(s, "drain")
    /\ subq[s][idx[s]] = <<>>
    /\ NextLane(s, "drain", "acceptCheck")
    /\ UNCHANGED <<queues, counters, lanes, io, ev, moved, hand, todo, scan,
                   environment, history, aborted>>

TakeRequest(s) ==
    /\ At(s, "drain")
    /\ subq[s][idx[s]] # <<>>
    /\ ev' = [ev EXCEPT ![s] = Head(subq[s][idx[s]])]
    /\ subq' = [subq EXCEPT ![s][idx[s]] = Tail(@)]
    /\ Goto(s, "donate")
    /\ UNCHANGED <<queues, counters, compq, io, idx, moved, hand, todo, scan,
                   environment, history, aborted>>

\* The count that made the recipient ask is trusted.
MoreWasAsked(s) == moved[s] < ev[s].count

\* The condition of the donation loop: the donor keeps at least as many tasks
\* as it gives away.
MoreToDonate(s) == moved[s] < taskCount[s] /\ moved[s] < ev[s].count

DonateTask(s, t) ==
    /\ At(s, "donate")
    /\ MoreToDonate(s)
    /\ TakeReady(s, t)
    /\ Goto(s, "handoff")
    /\ UNCHANGED <<counters, lanes, io, idx, ev, moved, todo, scan, environment,
                   history, aborted>>

\* submitToCompletionQueue, first half: into the recipient's lane.
Handoff(s) ==
    LET r == ev[s].to IN
    /\ At(s, "handoff")
    /\ HasRoom(compq[r][s])
    /\ compq' = [compq EXCEPT ![r][s] = Append(@, hand[s])]
    /\ hand' = [hand EXCEPT ![s] = NoTask]
    /\ Goto(s, "handoffCount")
    /\ UNCHANGED <<queues, counters, subq, io, idx, ev, moved, todo, scan,
                   environment, history, aborted>>

\* ... second half: the recipient's completed_request_count.
HandoffCount(s) ==
    /\ At(s, "handoffCount")
    /\ completed' = Add(completed, ev[s].to, 1)
    /\ moved' = [moved EXCEPT ![s] = @ + 1]
    /\ Goto(s, "donate")
    /\ UNCHANGED <<queues, inProcess, submitted, lanes, io, idx, ev, hand, todo,
                   scan, environment, history, aborted>>

\* The recipient is told of the balancing daemon's requests too.
ServedAlwaysMarks(s) ==
    /\ At(s, "donate")
    /\ ~MoreToDonate(s)
    /\ submitted' = Add(submitted, s, -1)
    /\ moved' = [moved EXCEPT ![s] = 0]
    /\ Goto(s, "mark")
    /\ UNCHANGED <<queues, inProcess, completed, lanes, io, idx, ev, hand, todo, scan,
                   environment, history, aborted>>

\* Only the requests of other schedulers are counted down.
ServedCountsPeersOnly(s) ==
    /\ At(s, "donate")
    /\ ~MoreToDonate(s)
    /\ moved' = [moved EXCEPT ![s] = 0]
    /\ IF idx[s] # s
       THEN Goto(s, "mark") /\ submitted' = Add(submitted, s, -1) /\ UNCHANGED ev
       ELSE Goto(s, "drain") /\ ev' = [ev EXCEPT ![s] = NoRequest(s)] /\ UNCHANGED submitted
    /\ UNCHANGED <<queues, inProcess, completed, lanes, io, idx, hand, todo, scan,
                   environment, history, aborted>>

\* The recipient is never told.
ServedNeverMarks(s) ==
    /\ At(s, "donate")
    /\ ~MoreToDonate(s)
    /\ submitted' = Add(submitted, s, -1)
    /\ moved' = [moved EXCEPT ![s] = 0]
    /\ Goto(s, "drain")
    /\ ev' = [ev EXCEPT ![s] = NoRequest(s)]
    /\ UNCHANGED <<queues, inProcess, completed, lanes, io, idx, hand, todo, scan,
                   environment, history, aborted>>

\* The donation loop is over: submitted_request_count--.
RequestServed(s) ==
    /\ At(s, "donate")
    /\ ~MoreToDonate(s)
    /\ submitted' = Add(submitted, s, -1)
    /\ moved' = [moved EXCEPT ![s] = 0]
    /\ IF idx[s] # s
       THEN Goto(s, "mark") /\ UNCHANGED ev
       ELSE Goto(s, "drain") /\ ev' = [ev EXCEPT ![s] = NoRequest(s)]
    /\ UNCHANGED <<queues, inProcess, completed, lanes, io, idx, hand, todo, scan,
                   environment, history, aborted>>

\* markStealRequestCompletion on the scheduler that asked.
MarkCompletion(s) ==
    /\ At(s, "mark")
    /\ inProcess' = Add(inProcess, ev[s].to, -1)
    /\ ev' = [ev EXCEPT ![s] = NoRequest(s)]
    /\ Goto(s, "drain")
    /\ UNCHANGED <<queues, submitted, completed, lanes, io, idx, moved, hand, todo,
                   scan, environment, history, aborted>>

------------------------------------------------------------------------------
(* Accepting donated tasks from the completion lanes.                       *)

\* A single donated task is not worth a pass over the lanes.
CheckCompletedAboveOne(s) ==
    /\ At(s, "acceptCheck")
    /\ Goto(s, IF completed[s] > 1 THEN "accept" ELSE "idleCheck")
    /\ UNCHANGED <<queues, counters, lanes, io, locals, environment, history, aborted>>

CheckCompleted(s) ==
    /\ At(s, "acceptCheck")
    /\ Goto(s, IF completed[s] > 0 THEN "accept" ELSE "idleCheck")
    /\ UNCHANGED <<queues, counters, lanes, io, locals, environment, history, aborted>>

CompletionLaneEmpty(s) ==
    /\ At(s, "accept")
    /\ compq[s][idx[s]] = <<>>
    /\ NextLane(s, "accept", "idleCheck")
    /\ UNCHANGED <<queues, counters, lanes, io, ev, moved, hand, todo, scan,
                   environment, history, aborted>>

TakeDonated(s) ==
    /\ At(s, "accept")
    /\ compq[s][idx[s]] # <<>>
    /\ hand' = [hand EXCEPT ![s] = Head(compq[s][idx[s]])]
    /\ compq' = [compq EXCEPT ![s][idx[s]] = Tail(@)]
    /\ Goto(s, "acceptSubmit")
    /\ UNCHANGED <<queues, counters, subq, io, idx, ev, moved, todo, scan,
                   environment, history, aborted>>

SubmitDonated(s) ==
    /\ At(s, "acceptSubmit")
    /\ SubmitSync(s, hand[s])
    /\ hand' = [hand EXCEPT ![s] = NoTask]
    /\ Goto(s, "acceptDec")
    /\ UNCHANGED <<counters, lanes, io, idx, ev, moved, todo, scan, environment,
                   history, aborted>>

DonatedAccepted(s) ==
    /\ At(s, "acceptDec")
    /\ completed' = Add(completed, s, -1)
    /\ Goto(s, "accept")
    /\ UNCHANGED <<queues, inProcess, submitted, lanes, io, locals, environment,
                   history, aborted>>

------------------------------------------------------------------------------
(* Asking for tasks: stealTasks, called by a scheduler without any.         *)

\* The check of in_process_steal_requests is missing.
AskAgain(s) ==
    /\ At(s, "idleCheck")
    /\ ready[s] = {}
    /\ Goto(s, "idleCheck2")
    /\ UNCHANGED <<queues, counters, lanes, io, locals, environment, history, aborted>>

\* A request of this scheduler is still being served: do not send another.
CheckInProcess(s) ==
    /\ At(s, "idleCheck")
    /\ ready[s] = {}
    /\ Goto(s, IF inProcess[s] > 0 THEN "poll" ELSE "idleCheck2")
    /\ UNCHANGED <<queues, counters, lanes, io, locals, environment, history, aborted>>

\* Donated tasks are waiting to be accepted: do not ask for more.
CheckDonated(s) ==
    /\ At(s, "idleCheck2")
    /\ Goto(s, IF completed[s] > 0 THEN "poll" ELSE "scan")
    /\ UNCHANGED <<queues, counters, lanes, io, locals, environment, history, aborted>>

\* One turn of stealTasks's loop: load the count of the next scheduler.
\* (The scheduler's own count is loaded too, and not used.)
ScanCount(s) ==
    LET c == scan[s].next
        busier == taskCount[c] > scan[s].donorCount IN
    /\ At(s, "scan")
    /\ c < N
    /\ scan' = [scan EXCEPT ![s] =
                  [next |-> FromPeer(s, c + 1),
                   total |-> scan[s].total + taskCount[c],
                   donor |-> IF busier THEN c ELSE scan[s].donor,
                   donorCount |-> IF busier THEN taskCount[c] ELSE scan[s].donorCount,
                   ask |-> 0]]
    /\ UNCHANGED <<queues, counters, lanes, io, pc, idx, ev, moved, hand, todo,
                   environment, history, aborted>>

\* The total is divided by the number of all schedulers and rounded up.
Average(total) == (total + N - 1) \div N

Lesser(a, b) == IF a < b THEN a ELSE b

\* How many tasks to ask the busiest scheduler for.
Wanted(total, donorCount) ==
    Lesser(Lesser(Average(total), donorCount - Average(total)), MaxTasksToSteal)

\* A request is sent although there is nothing to ask for.
DecideWithoutSurplus(s) ==
    LET ask == Wanted(scan[s].total, scan[s].donorCount) IN
    /\ At(s, "scan")
    /\ scan[s].next = N
    /\ IF ask >= 0
       THEN scan' = [scan EXCEPT ![s].ask = ask] /\ Goto(s, "stealSend")
       ELSE scan' = [scan EXCEPT ![s] = NoScan(s)] /\ Goto(s, "poll")
    /\ UNCHANGED <<queues, counters, lanes, io, idx, ev, moved, hand, todo,
                   environment, history, aborted>>

DecideToSteal(s) ==
    LET ask == Wanted(scan[s].total, scan[s].donorCount) IN
    /\ At(s, "scan")
    /\ scan[s].next = N
    /\ IF ask > 0
       THEN scan' = [scan EXCEPT ![s].ask = ask] /\ Goto(s, "stealSend")
       ELSE scan' = [scan EXCEPT ![s] = NoScan(s)] /\ Goto(s, "poll")
    /\ UNCHANGED <<queues, counters, lanes, io, idx, ev, moved, hand, todo,
                   environment, history, aborted>>

\* The two indices of the lane are swapped.
StealSendSwapped(s) ==
    LET d == scan[s].donor IN
    /\ At(s, "stealSend")
    /\ HasRoom(subq[s][d])
    /\ subq' = [subq EXCEPT ![s][d] = Append(@, [count |-> scan[s].ask, to |-> s])]
    /\ Goto(s, "stealCount")
    /\ UNCHANGED <<queues, counters, compq, io, locals, environment, history, aborted>>

\* submitToSubmissionQueue: the request goes into the donor's lane for s ...
StealSend(s) ==
    LET d == scan[s].donor IN
    /\ At(s, "stealSend")
    /\ HasRoom(subq[d][s])
    /\ subq' = [subq EXCEPT ![d][s] = Append(@, [count |-> scan[s].ask, to |-> s])]
    /\ Goto(s, "stealCount")
    /\ UNCHANGED <<queues, counters, compq, io, locals, environment, history, aborted>>

\* ... then the donor's submitted_request_count is incremented ...
StealCount(s) ==
    /\ At(s, "stealCount")
    /\ submitted' = Add(submitted, scan[s].donor, 1)
    /\ scan' = [scan EXCEPT ![s] = NoScan(s)]
    /\ Goto(s, "stealMark")
    /\ UNCHANGED <<queues, inProcess, completed, lanes, io, idx, ev, moved, hand,
                   todo, environment, history, aborted>>

\* ... and only then, back in the scheduler's loop, the request is counted as
\* in process: the donor may have served it already.
StealMark(s) ==
    /\ At(s, "stealMark")
    /\ inProcess' = Add(inProcess, s, 1)
    /\ Goto(s, "poll")
    /\ UNCHANGED <<queues, submitted, completed, lanes, io, locals, environment,
                   history, aborted>>

------------------------------------------------------------------------------
(* Executing one task.                                                      *)

StartTask(s, t) ==
    /\ At(s, "idleCheck")
    /\ TakeReady(s, t)
    /\ Goto(s, "process")
    /\ UNCHANGED <<counters, lanes, io, idx, ev, moved, todo, scan, environment,
                   history, aborted>>

ProcessReturns(s) ==
    /\ At(s, "process")
    /\ todo' = [todo EXCEPT ![s] = NextTasks[hand[s]]]
    /\ Goto(s, "spawn")
    /\ UNCHANGED <<queues, counters, lanes, io, idx, ev, moved, hand, scan,
                   environment, history, aborted>>

\* process throws: the thread ends with the task in its hand.
ProcessThrows(s) ==
    /\ At(s, "process")
    /\ hand[s] \in MayFail
    /\ Goto(s, "dead")
    /\ UNCHANGED <<queues, counters, lanes, io, locals, environment, history, aborted>>

\* An asynchronous task is prepared but not handed to the kernel.
SubmitWithoutIo(s, t) ==
    /\ At(s, "spawn")
    /\ t \in todo[s]
    /\ todo' = [todo EXCEPT ![s] = @ \ {t}]
    /\ born' = born \cup {t}
    /\ IF t \in AsyncTasks THEN UNCHANGED queues ELSE SubmitSync(s, t)
    /\ UNCHANGED <<counters, lanes, io, pc, idx, ev, moved, hand, scan, environment,
                   done, aborted>>

\* inherit_from_parent and submit of a next task, according to its mode.
SubmitNextTask(s, t) ==
    /\ At(s, "spawn")
    /\ t \in todo[s]
    /\ todo' = [todo EXCEPT ![s] = @ \ {t}]
    /\ born' = born \cup {t}
    /\ IF t \in AsyncTasks
       THEN ring' = [ring EXCEPT ![s] = @ \cup {t}] /\ UNCHANGED queues
       ELSE SubmitSync(s, t) /\ UNCHANGED ring
    /\ UNCHANGED <<counters, lanes, cq, pc, idx, ev, moved, hand, scan, environment,
                   done, aborted>>

\* io_uring_submit fails and FileScheduler::submit throws.
SubmitThrows(s, t) ==
    /\ At(s, "spawn")
    /\ t \in todo[s] \cap AsyncTasks \cap MayFail
    /\ Goto(s, "dead")
    /\ UNCHANGED <<queues, counters, lanes, io, locals, environment, history, aborted>>

\* The task is freed before all its next tasks are submitted.
DeleteEarly(s) ==
    /\ At(s, "spawn")
    /\ done' = done \cup {hand[s]}
    /\ hand' = [hand EXCEPT ![s] = NoTask]
    /\ todo' = [todo EXCEPT ![s] = {}]
    /\ Goto(s, "poll")
    /\ UNCHANGED <<queues, counters, lanes, io, idx, ev, moved, scan,
                   environment, born, aborted>>

DeleteTask(s) ==
    /\ At(s, "spawn")
    /\ todo[s] = {}
    /\ done' = done \cup {hand[s]}
    /\ hand' = [hand EXCEPT ![s] = NoTask]
    /\ Goto(s, "poll")
    /\ UNCHANGED <<queues, counters, lanes, io, idx, ev, moved, todo, scan,
                   environment, born, aborted>>

------------------------------------------------------------------------------
(* The balancing daemon's submitToOwnerSubmissionQueue.                     *)

DaemonSend(d, r, n) ==
    /\ ~aborted
    /\ ~daemon.sending
    /\ budget > 0
    /\ d # r
    /\ HasRoom(subq[d][d])
    /\ budget' = budget - 1
    /\ daemon' = [sending |-> TRUE, donor |-> d]
    /\ subq' = [subq EXCEPT ![d][d] = Append(@, [count |-> n, to |-> r])]
    /\ UNCHANGED <<queues, counters, compq, io, pc, locals, history, aborted>>

DaemonCount ==
    /\ ~aborted
    /\ daemon.sending
    /\ daemon' = [sending |-> FALSE, donor |-> 0]
    /\ submitted' = Add(submitted, daemon.donor, 1)
    /\ UNCHANGED <<queues, inProcess, completed, lanes, io, pc, locals, budget,
                   history, aborted>>

------------------------------------------------------------------------------

\* A thread is about to call enque on a lane that is full.
OverflowAhead ==
    \/ \E s \in Sched : pc[s] = "handoff" /\ ~HasRoom(compq[ev[s].to][s])
    \/ \E s \in Sched : pc[s] = "stealSend" /\ ~HasRoom(subq[scan[s].donor][s])
    \/ ~daemon.sending /\ budget > 0 /\ \E d \in Sched : ~HasRoom(subq[d][d])

\* The assert of enque fails and ends the process, with all its threads.
EnqueAssertFails ==
    /\ ~aborted
    /\ OverflowAhead
    /\ aborted' = TRUE
    /\ UNCHANGED <<queues, counters, lanes, io, pc, locals, environment, history>>

\* Everything the thread of scheduler s does while nothing fails.
Step(s) ==
    \/ \E t \in Tasks : CollectIo(s, t)
    \/ CheckSubmitted(s)
    \/ SubmissionLaneEmpty(s)
    \/ TakeRequest(s)
    \/ \E t \in Tasks : DonateTask(s, t)
    \/ Handoff(s)
    \/ HandoffCount(s)
    \/ RequestServed(s)
    \/ MarkCompletion(s)
    \/ CheckCompleted(s)
    \/ CompletionLaneEmpty(s)
    \/ TakeDonated(s)
    \/ SubmitDonated(s)
    \/ DonatedAccepted(s)
    \/ CheckInProcess(s)
    \/ CheckDonated(s)
    \/ ScanCount(s)
    \/ DecideToSteal(s)
    \/ StealSend(s)
    \/ StealCount(s)
    \/ StealMark(s)
    \/ \E t \in Tasks : StartTask(s, t)
    \/ ProcessReturns(s)
    \/ \E t \in Tasks : SubmitNextTask(s, t)
    \/ DeleteTask(s)

Fail(s) ==
    \/ \E t \in Tasks : IoFails(s, t)
    \/ ProcessThrows(s)
    \/ \E t \in Tasks : SubmitThrows(s, t)

Next ==
    \/ \E s \in Sched : Step(s)
    \/ \E s \in Sched : Fail(s)
    \/ \E s \in Sched : \E t \in Tasks : IoFinishes(s, t)
    \/ \E d, r \in Sched : \E n \in 1 .. MaxTasksToSteal : DaemonSend(d, r, n)
    \/ DaemonCount
    \/ EnqueAssertFails

\* The operating system runs every thread again and again, a task that is
\* executed returns, and the kernel finishes what it was asked to do.  The
\* daemon is not obliged to send anything.
Fairness ==
    /\ \A s \in Sched : WF_vars(Step(s))
    /\ \A s \in Sched : \A t \in Tasks : WF_vars(IoFinishes(s, t))
    /\ WF_vars(DaemonCount)

Spec == Init /\ [][Next]_vars
FairSpec == Spec /\ Fairness

------------------------------------------------------------------------------
(* Properties.                                                              *)

\* The places that hold task t, one element for each copy.
PlacesOf(t) ==
    {<<"ready", s>> : s \in {x \in Sched : t \in ready[x]}}
    \cup {<<"hand", s>> : s \in {x \in Sched : hand[x] = t}}
    \cup {<<"ring", s>> : s \in {x \in Sched : t \in ring[x]}}
    \cup {<<"cq", s>> : s \in {x \in Sched : t \in cq[x]}}
    \cup UNION {{<<"lane", s, d, i>> : i \in {k \in 1 .. Len(compq[s][d]) : compq[s][d][k] = t}}
                  : s \in Sched, d \in Sched}

\* Whatever the threads do, a task that was submitted and not deleted is in
\* exactly one place: a queue, a lane, a ring or the hand of one thread.  No
\* task is lost between donor and recipient, none is executed by two threads
\* or freed twice (the handing over in scheduler.cc:108-127).
NoTaskLostOrDuplicated ==
    \A t \in Tasks :
        Cardinality(PlacesOf(t)) = IF t \in born \ done THEN 1 ELSE 0

\* Thread d is serving a request of another scheduler, taken from its lane.
Serving(d, s) ==
    /\ s # d
    /\ idx[d] = s
    /\ pc[d] \in {"donate", "handoff", "handoffCount", "mark"}

\* The schedulers that a request of s is waiting at or being served by.
AskedBy(s) == {d \in Sched \ {s} : subq[d][s] # <<>> \/ Serving(d, s)}

\* A scheduler without tasks never has two steal requests under way, although
\* it counts a request only after the donor can already have answered it, so
\* that in_process_steal_requests may be -1 for a while (scheduler.cc:134-138
\* against :115, coordinator.cc:59).
OneRequestAtATime ==
    \A s \in Sched :
        /\ Cardinality(AskedBy(s)) <= 1
        /\ \A d \in AskedBy(s) : Len(subq[d][s]) <= IF Serving(d, s) THEN 0 ELSE 1

\* in_process_steal_requests counts the requests under way, less the one that
\* was sent and not counted yet: it never drifts, or a scheduler would stop
\* asking for ever or ask without end (scheduler.cc:77-79, :114 and :137).
InProcessMatchesRequests ==
    \A s \in Sched :
        inProcess[s] = Cardinality(AskedBy(s))
                       - (IF pc[s] \in {"stealCount", "stealMark"} THEN 1 ELSE 0)

\* Hence the assert of enque holds for every steal request, however small the
\* lanes are (coordinator.cc:59, producer_consumer_queue.cc:40).
StealLaneHasRoom ==
    \A s \in Sched :
        pc[s] = "stealSend" => subq[scan[s].donor][s] = <<>>

\* stealTasks only uses doner_scheduler, which it declares uninitialised, after
\* it was assigned, and never asks a scheduler for its own tasks
\* (coordinator.cc:43, :50 and :59).
DonorIsKnown ==
    \A s \in Sched :
        pc[s] \in {"stealSend", "stealCount"} =>
            /\ scan[s].donor # s
            /\ scan[s].donorCount > 0

\* So a scheduler always sends its request to a scheduler it chose, and finds
\* room there (coordinator.cc:40-67).
StealIsSafe ==
    /\ TypeOK
    /\ DonorIsKnown
    /\ StealLaneHasRoom

\* A request is acknowledged to the scheduler that sent it: its lane has that
\* scheduler's index (scheduler.cc:61 against :114-115).
LaneNamesRecipient ==
    \A d, s \in Sched :
        /\ \A i \in 1 .. Len(subq[d][s]) :
              IF d = s THEN subq[d][s][i].to # d ELSE subq[d][s][i].to = s
        /\ Serving(d, s) => ev[d].to = s

SumOf(f) ==
    LET sum[i \in 0 .. N] == IF i = 0 THEN 0 ELSE sum[i - 1] + f[i - 1]
    IN sum[N]

\* How many values there are in the lanes of a scheduler.
SumOverLanes(lane) == SumOf([i \in Sched |-> Len(lane[i])])

\* The two request counters, which the threads consult instead of the lanes,
\* never drift: but for the operations in progress they equal the number of
\* requests and of tasks in the lanes, so that neither is ever overlooked for
\* good (scheduler.cc:60-75, :104, :113, :122 and :127).
CountersMatchLanes ==
    \A s \in Sched :
            /\ submitted[s] =
                 SumOverLanes(subq[s])
                 + (IF pc[s] \in {"donate", "handoff", "handoffCount"} THEN 1 ELSE 0)
                 - Cardinality({r \in Sched : pc[r] = "stealCount" /\ scan[r].donor = s})
                 - (IF daemon.sending /\ daemon.donor = s THEN 1 ELSE 0)
            /\ completed[s] =
                 SumOverLanes(compq[s])
                 + (IF pc[s] \in {"acceptSubmit", "acceptDec"} THEN 1 ELSE 0)
                 - Cardinality({d \in Sched : pc[d] = "handoffCount" /\ ev[d].to = s})

\* Tasks that are queued for TaskLifecycle: in a queue or a ring, in a lane, or
\* handed from one thread to another.
InAnyQueue == UNION {ready[s] \cup ring[s] \cup cq[s] : s \in Sched}

InAnyLane == UNION {{compq[s][d][i] : i \in 1 .. Len(compq[s][d])} : s \in Sched, d \in Sched}

HandedOver == {hand[s] : s \in {x \in Sched : pc[x] \in {"handoff", "acceptSubmit"}}}

Queued == InAnyQueue \cup InAnyLane \cup HandedOver

\* Tasks whose process was called, even if the thread ended in it.
Executing == {hand[s] : s \in {x \in Sched : pc[x] \in {"process", "spawn", "dead"}}}
             \ {NoTask}

Lifecycle == INSTANCE TaskLifecycle WITH
    FirstTasks <- FirstSet,
    waiting <- Tasks \ born,
    queued <- Queued,
    executing <- Executing,
    deleted <- done

\* The threads together execute every task once, after the task before it in
\* its chain was executed, as if there were one queue and no lanes
\* (scheduler.cc:143-171 over :104-130).
ImplementsLifecycle == Lifecycle!LifecycleSpec

\* A scheduler that asked for tasks is told when its request was served and
\* can ask again (scheduler.cc:115, :134) unless the thread it asked ended by
\* an exception, which Coordinator::start's handlers allow for: then it waits
\* for that one for ever.  (Here and below: or enque's assert ended them all.)
RequestIsAnswered ==
    \A s \in Sched :
        inProcess[s] = 1 ~>
            inProcess[s] < 1 \/ aborted \/ \E d \in AskedBy(s) : pc[d] = "dead"

\* A donated task does not stay in its lane while the recipient's thread runs,
\* although that thread looks at the lanes only if its counter, which donors
\* increment after filling the lane, is positive (scheduler.cc:122-130).
DonationIsAccepted ==
    \A s, d \in Sched :
        compq[s][d] # <<>> ~> compq[s][d] = <<>> \/ aborted \/ pc[s] = "dead"

\* Every chain is executed to its end if no thread fails (scheduler.cc:163-171).
AllTasksAreExecuted == <>(done = Tasks \/ aborted \/ \E s \in Sched : pc[s] = "dead")

==============================================================================
