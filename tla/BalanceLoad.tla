------------------------------ MODULE BalanceLoad ------------------------------
(***************************************************************************)
(* The load balancing daemon of coordinator.cc: Coordinator::balanceLoad   *)
(* and the loop of Coordinator::start that calls it.                       *)
(*                                                                         *)
(* The daemon reads current_task_count of every scheduler twice, while the *)
(* schedulers go on changing it, sorts the schedulers into donors and      *)
(* recipients, and sends requests to the donors' own lanes.  What the      *)
(* daemon reads from a running scheduler is any count; a thread that ended *)
(* leaves its count as it was and never empties its lane again.  How a     *)
(* request is served is the subject of module WorkStealing.                *)
(***************************************************************************)
EXTENDS Integers, FiniteSets

CONSTANTS
    N,                  \* number of schedulers
    MaxTasksToSteal,    \* MAX_TASKS_TO_STEAL of coordinator.h
    LaneRoom,           \* how many requests a lane holds, its capacity less one
    MaxCount,           \* bound on the tasks a scheduler has
    MayDie              \* schedulers whose thread may end by an exception

Sched == 0 .. N - 1
Counts == 0 .. MaxCount

ASSUME SizesAssumption ==
    /\ N \in Nat \ {0}
    /\ MaxTasksToSteal \in Nat \ {0}
    /\ LaneRoom \in Nat \ {0}
    /\ MaxCount \in Nat
    /\ MayDie \subseteq Sched

VARIABLES
    alive,       \* whether the thread of a scheduler runs
    left,        \* current_task_count that a thread which ended left behind
    waiting,     \* number of requests in submission_queues[id] of scheduler id
    phase,       \* where the daemon is
    next,        \* index of the range for over the schedulers
    total,       \* total_tasks
    average,     \* average_tasks_ceil
    seen,        \* current_task_count as the second loop read it
    donors,      \* schedulers in the heap doner_schedulers
    rest,        \* ... and the count that is with them in the heap
    recipients,  \* schedulers in the heap recepient_schedulers
    recipient,   \* the one taken from that heap
    donor,       \* the top of doner_schedulers
    acceptable,  \* max_acceptable_donations
    donated,     \* total_donated_tasks
    asked,       \* tasks asked of a scheduler for another one in this round
    aborted      \* the assert of enque failed

threads == <<alive, left>>
sums == <<next, total, average, seen>>
heaps == <<donors, rest, recipients>>
locals == <<recipient, donor, acceptable, donated>>
vars == <<threads, waiting, phase, sums, heaps, locals, asked, aborted>>

Zero == [s \in Sched |-> 0]
Nothing == [d \in Sched |-> Zero]

TypeOK ==
    /\ alive \in [Sched -> BOOLEAN]
    /\ left \in [Sched -> Counts]
    /\ waiting \in [Sched -> 0 .. LaneRoom]
    /\ phase \in {"sleep", "sum", "sort", "recipient", "donor", "give"}
    /\ next \in Sched
    /\ total \in Nat
    /\ average \in Nat
    /\ seen \in [Sched -> Counts]
    /\ donors \subseteq Sched
    /\ rest \in [Sched -> Counts]
    /\ recipients \subseteq Sched
    /\ recipient \in Sched
    /\ donor \in Sched
    /\ acceptable \in Nat
    /\ donated \in Nat
    /\ asked \in [Sched -> [Sched -> Nat]]
    /\ aborted \in BOOLEAN

Init ==
    /\ alive = [s \in Sched |-> TRUE]
    /\ left = Zero
    /\ waiting = Zero
    /\ phase = "sleep"
    /\ next = 0
    /\ total = 0
    /\ average = 0
    /\ seen = Zero
    /\ donors = {}
    /\ rest = Zero
    /\ recipients = {}
    /\ recipient = 0
    /\ donor = 0
    /\ acceptable = 0
    /\ donated = 0
    /\ asked = Nothing
    /\ aborted = FALSE

In(place) == ~aborted /\ phase = place

Lesser(a, b) == IF a < b THEN a ELSE b

\* What a load of current_task_count of scheduler s may return.
Reads(s, c) == c \in Counts /\ (alive[s] \/ c = left[s])

\* The loop stops one scheduler late.
NextSchedulerLate(here, after) ==
    IF next < N
    THEN next' = next + 1 /\ phase' = here
    ELSE next' = 0 /\ phase' = after

\* The next pass of a range for over the schedulers, or what follows it.
NextScheduler(here, after) ==
    IF next + 1 < N
    THEN next' = next + 1 /\ phase' = here
    ELSE next' = 0 /\ phase' = after

------------------------------------------------------------------------------
(* The schedulers.                                                          *)

\* An exception ends the thread of scheduler s, which then has c tasks left.
Dies(s, c) ==
    /\ ~aborted
    /\ s \in MayDie
    /\ alive[s]
    /\ alive' = [alive EXCEPT ![s] = FALSE]
    /\ left' = [left EXCEPT ![s] = c]
    /\ UNCHANGED <<waiting, phase, sums, heaps, locals, asked, aborted>>

\* The thread takes a request out of its own lane.
Serve(s) ==
    /\ ~aborted
    /\ alive[s]
    /\ waiting[s] > 0
    /\ waiting' = [waiting EXCEPT ![s] = @ - 1]
    /\ UNCHANGED <<threads, phase, sums, heaps, locals, asked, aborted>>

------------------------------------------------------------------------------
(* The daemon reads the counts.                                             *)

\* The daemon slept between 500 and 1500 ms.  In that time every thread that
\* runs went through its loop and emptied its lanes, at least once.
WakeUp ==
    /\ In("sleep")
    /\ \A s \in Sched : alive[s] => waiting[s] = 0
    /\ phase' = "sum"
    /\ UNCHANGED <<threads, waiting, sums, heaps, locals, asked, aborted>>

\* The first loop adds the counts up; the average is rounded up.  The total is
\* not used after that.
SumCount(c) ==
    /\ In("sum")
    /\ Reads(next, c)
    /\ IF next + 1 < N
       THEN total' = total + c /\ UNCHANGED average
       ELSE total' = 0 /\ average' = (total + c + N - 1) \div N
    /\ NextScheduler("sum", "sort")
    /\ UNCHANGED <<threads, waiting, seen, heaps, locals, asked, aborted>>

\* The second loop reads the counts again and fills the heaps.
SortCount(c) ==
    /\ In("sort")
    /\ Reads(next, c)
    /\ seen' = [seen EXCEPT ![next] = c]
    /\ rest' = [rest EXCEPT ![next] = c]
    /\ donors' = IF c > average THEN donors \cup {next} ELSE donors
    /\ recipients' = IF c < average THEN recipients \cup {next} ELSE recipients
    /\ NextScheduler("sort", "recipient")
    /\ UNCHANGED <<threads, waiting, total, average, locals, asked, aborted>>

------------------------------------------------------------------------------
(* The daemon distributes.  Which of several equal counts is the top of a   *)
(* heap is left open.                                                       *)

\* The recipient with the fewest tasks; how many it may get.
TakeRecipient(r) ==
    /\ In("recipient")
    /\ r \in recipients
    /\ \A s \in recipients : seen[r] <= seen[s]
    /\ recipients' = recipients \ {r}
    /\ recipient' = r
    /\ acceptable' = Lesser(MaxTasksToSteal, average - seen[r])
    /\ phase' = "donor"
    /\ UNCHANGED <<threads, waiting, sums, donors, rest, donor, donated, asked, aborted>>

\* balanceLoad returns and its locals go out of scope.
RoundDone ==
    /\ In("recipient")
    /\ recipients = {}
    /\ phase' = "sleep"
    /\ average' = 0
    /\ seen' = Zero
    /\ donors' = {}
    /\ rest' = Zero
    /\ recipient' = 0
    /\ donor' = 0
    /\ acceptable' = 0
    /\ donated' = 0
    /\ asked' = Nothing
    /\ UNCHANGED <<threads, waiting, next, total, recipients, aborted>>

RecipientDone ==
    /\ In("donor")
    /\ donors = {} \/ acceptable = 0
    /\ phase' = "recipient"
    /\ UNCHANGED <<threads, waiting, sums, heaps, locals, asked, aborted>>

IsTop(d) == d \in donors /\ \A s \in donors : rest[s] <= rest[d]

\* The condition under which the top is taken from the heap for good.
Exhausted(d) == rest[d] < average \/ donated = MaxTasksToSteal

DropDonor(d) ==
    /\ In("donor")
    /\ acceptable > 0
    /\ IsTop(d)
    /\ Exhausted(d)
    /\ donors' = donors \ {d}
    /\ donated' = 0
    /\ UNCHANGED <<threads, waiting, phase, sums, rest, recipients, recipient, donor,
                   acceptable, asked, aborted>>

TakeDonor(d) ==
    /\ In("donor")
    /\ acceptable > 0
    /\ IsTop(d)
    /\ ~Exhausted(d)
    /\ donor' = d
    /\ phase' = "give"
    /\ UNCHANGED <<threads, waiting, sums, heaps, recipient, acceptable, donated,
                   asked, aborted>>

\* curr_donated_tasks.
Current == Lesser(Lesser(acceptable, rest[donor] - average), MaxTasksToSteal)

\* A request is sent whether or not there is something to ask for.
GiveAlways ==
    /\ In("give")
    /\ waiting[donor] < LaneRoom
    /\ waiting' = [waiting EXCEPT ![donor] = @ + 1]
    /\ asked' = [asked EXCEPT ![donor][recipient] = @ + Current]
    /\ acceptable' = acceptable - Current
    /\ rest' = [rest EXCEPT ![donor] = @ - Current]
    /\ donated' = donated + Current
    /\ phase' = "donor"
    /\ UNCHANGED <<threads, sums, donors, recipients, recipient, donor, aborted>>

\* The recipient could take as much again.
GiveNotCharged ==
    /\ In("give")
    /\ Current > 0
    /\ waiting[donor] < LaneRoom
    /\ waiting' = [waiting EXCEPT ![donor] = @ + 1]
    /\ asked' = [asked EXCEPT ![donor][recipient] = @ + Current]
    /\ rest' = [rest EXCEPT ![donor] = @ - Current]
    /\ donated' = donated + Current
    /\ phase' = "donor"
    /\ UNCHANGED <<threads, sums, donors, recipients, recipient, donor, acceptable,
                   aborted>>

\* The donor is pushed back with the count it had.
GivePushedBack ==
    /\ In("give")
    /\ Current > 0
    /\ waiting[donor] < LaneRoom
    /\ waiting' = [waiting EXCEPT ![donor] = @ + 1]
    /\ asked' = [asked EXCEPT ![donor][recipient] = @ + Current]
    /\ acceptable' = acceptable - Current
    /\ donated' = donated + Current
    /\ phase' = "donor"
    /\ UNCHANGED <<threads, sums, heaps, recipient, donor, aborted>>

\* submitToOwnerSubmissionQueue on the donor, which is pushed back with what
\* it still has.
Give ==
    /\ In("give")
    /\ Current > 0
    /\ waiting[donor] < LaneRoom
    /\ waiting' = [waiting EXCEPT ![donor] = @ + 1]
    /\ asked' = [asked EXCEPT ![donor][recipient] = @ + Current]
    /\ acceptable' = acceptable - Current
    /\ rest' = [rest EXCEPT ![donor] = @ - Current]
    /\ donated' = donated + Current
    /\ phase' = "donor"
    /\ UNCHANGED <<threads, sums, donors, recipients, recipient, donor, aborted>>

\* There is nothing to give: the inner loop goes round with nothing changed.
GiveNothing ==
    /\ In("give")
    /\ Current <= 0
    /\ phase' = "donor"
    /\ UNCHANGED <<threads, waiting, sums, heaps, locals, asked, aborted>>

\* The lane is full, the assert of enque ends the process.
EnqueAssertFails ==
    /\ In("give")
    /\ Current > 0
    /\ waiting[donor] = LaneRoom
    /\ aborted' = TRUE
    /\ UNCHANGED <<threads, waiting, phase, sums, heaps, locals, asked>>

Daemon ==
    \/ WakeUp
    \/ \E c \in Counts : SumCount(c)
    \/ \E c \in Counts : SortCount(c)
    \/ \E r \in Sched : TakeRecipient(r)
    \/ RoundDone
    \/ RecipientDone
    \/ \E d \in Sched : DropDonor(d)
    \/ \E d \in Sched : TakeDonor(d)
    \/ Give
    \/ GiveNothing
    \/ EnqueAssertFails

Next ==
    \/ Daemon
    \/ \E s \in Sched : Serve(s)
    \/ \E s \in Sched : \E c \in Counts : Dies(s, c)

Spec == Init /\ [][Next]_vars

\* Every thread that runs is scheduled again and again.
Fairness == WF_vars(Daemon) /\ \A s \in Sched : WF_vars(Serve(s))
FairSpec == Spec /\ Fairness

------------------------------------------------------------------------------
(* Properties.                                                              *)

SumOf(f) ==
    LET sum[i \in 0 .. N] == IF i = 0 THEN 0 ELSE sum[i - 1] + f[i - 1]
    IN sum[N]

AskedOf(d) == SumOf(asked[d])
AskedFor(r) == SumOf([d \in Sched |-> asked[d][r]])

\* One round never turns a donor into a recipient or the other way round: if
\* all its requests were carried out on the counts it read, every scheduler
\* above the average would stay at or above it, every one below would stay at
\* or below it, and none would get more than MAX_TASKS_TO_STEAL, although
\* donors and recipients are matched with several of each (coordinator.cc:86-109).
RolesAreKept ==
    /\ TypeOK
    /\ phase \in {"recipient", "donor", "give"} =>
          \A s \in Sched :
              /\ AskedOf(s) > 0 => seen[s] - AskedOf(s) >= average
              /\ AskedFor(s) > 0 => seen[s] + AskedFor(s) <= average
              /\ AskedFor(s) <= MaxTasksToSteal

\* A round asks a donor at most once for the same recipient: so one round puts
\* at most N - 1 requests in a lane (coordinator.cc:91-108).
AskedOncePerPair ==
    [][\A d, r \in Sched : asked[d][r] > 0 => asked'[d][r] \in {0, asked[d][r]}]_vars

\* What module WorkStealing assumes of the daemon: every request it puts in a
\* lane asks for at least one and at most MAX_TASKS_TO_STEAL tasks, for another
\* scheduler than the owner of the lane (coordinator.cc:99-103).
RequestsAreSound ==
    [][\A d \in Sched : waiting'[d] > waiting[d] =>
          \E r \in Sched \ {d} : asked'[d][r] - asked[d][r] \in 1 .. MaxTasksToSteal]_vars

\* The assert of enque, producer_consumer_queue.cc:40, as it stands.
EnqueAssertHolds == ~aborted

\* The daemon balances again and again, it never stays in one round for ever
\* (the loop of coordinator.cc:142-145).
RoundsEnd == phase = "recipient" ~> phase = "sleep" \/ aborted

\* What the recipients still lack, as far as the daemon lets them have it, and
\* what the donors have to spare.
Lacking == SumOf([s \in Sched |-> IF s \in recipients
                                  THEN Lesser(MaxTasksToSteal, average - seen[s]) ELSE 0])
Spare == SumOf([s \in Sched |-> IF s \in donors THEN rest[s] - average ELSE 0])

\* A round ends if the donors have enough to spare for all recipients, and the
\* recipients together lack no more than MAX_TASKS_TO_STEAL.  Beyond that, the
\* one counter total_donated_tasks makes DropDonor take whichever donor is on
\* top out of the heap, and what is left may not suffice (coordinator.cc:94-97).
SufficientRoundsEnd ==
    phase = "recipient" /\ asked = Nothing /\ Lacking <= MaxTasksToSteal /\ Spare >= Lacking
        ~> phase = "sleep" \/ aborted

==============================================================================
