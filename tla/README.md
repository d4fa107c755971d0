# Verification of UserLevelScheduler

UserLevelScheduler runs chains of tasks on a fixed set of scheduler threads. It
borrows from FreeBSD's ULE scheduler: interactive and batch queues, priorities
computed from the recent history of a chain, and work stealing helped by a
balancing daemon. This directory holds TLA+ models of its parts, TLC
configurations that check them on small instances, and proofs, checked by
TLAPS, of the properties that matter most for instances of every size.
`PROJECT.json` ties every definition to the lines it models, every property to
the run that checks it, and every hazard of the code to its properties.

Line numbers below are of the files in the repository's root.

## 1. The system

### Components, their state and operations

| Component | Code | State | Operations |
|---|---|---|---|
| Lane between two threads | `producer_consumer_queue.cc` | ring of records, `readIndex`, `writeIndex` | `enque`, `deque`, `empty` |
| Scheduler loop | `scheduler.cc` | `submission_queues`, `completion_queues` (a lane per peer each), three atomic counters, `current_task_count`, its two run queues | `submit`, `process_interactive_tasks`, `submitTo...Queue`, `markStealRequestCompletion` |
| Stealing | `coordinator.cc:40-67` | counts of all schedulers | `stealTasks` |
| Balancing daemon | `coordinator.cc:69-110`, `:137-153` | two heaps of schedulers, local counters | `balanceLoad` |
| Run queues | `priority_queue.cc`, `calender_queue.cc` | 64 FIFO queues and a bitmap; a ring of buckets with the indices `runq` and `insq` | `addTask`, `getNextTask` |
| History | `history.cc`, `task.cc:77-89` | deque of events, `run_time`, `sleep_time` | `addEvent`, `getInteractivityPenality` |
| Priority | `task.cc:91-128` | `ticks`, `ftick`, `ltick`, niceness | `updateCpuUtilization`, `getPriority` |
| File tasks and chains | `filetasks.cc`, `cputask.cc`, `filescheduler.cc`, `main.cc:40-153` | `next_tasks`, inputs, descriptors, the io_uring | `process` of each task type, `fork`, `submit`, `process_completed` |
| Start and stop, metrics | `coordinator.cc:112-163`, `scheduler.cc:174-221`, `main.cc:155-160` | the threads, `stop_flag`, the lists of samples behind `ENABLE_*` flags, their files | `start`, `stop`, SIGINT handler, destructors |
| Baselines | `multi-threaded.cc`, `multi-threaded-iouring.cc` | a thread, descriptors and buffers for each chain | the benchmark functions, `generateIoTaskChain`, `main` |

The two baselines are programs of their own that run the same chains with one
thread of the operating system each; results of the scheduler are compared with
theirs. The logger, the choice of benchmarks in `main.cc`, the baseline in JavaScript,
`sample.cc` and the scripts are not modelled (see section 7).

### How they interact

Each scheduler has one thread. Threads share memory in four ways.

* **Lanes.** Scheduler *d* owns `submission_queues[s]`, into which *s* puts steal
  requests, and `completion_queues[s]`, into which *s* puts tasks it donates. Each
  has one producer and one consumer. `submission_queues[d]` of *d* itself is
  the daemon's: nobody else would use it.
* **Counters.** `submitted_request_count` and `completed_request_count` are
  incremented by the producer after it filled the lane, and are what the consumer
  looks at before it looks at the lanes. `in_process_steal_requests` is
  incremented by the scheduler that asks, and decremented by the one that served.
* **`current_task_count`**, which the owner writes and everybody reads to choose
  donors.
* **Tasks**, which belong to whoever holds them: a queue, a lane, a ring, or the
  thread that executes them.

A thread goes round one loop (`process_interactive_tasks`): collect finished
I/O; serve the requests in its submission lanes; accept the tasks in its
completion lanes; then execute one task, or, having none, ask the busiest
scheduler for some. A task that was executed submits its next tasks and is
deleted. An exception ends the thread that throws it; the others go on
(`coordinator.cc:124-135`). A failed `assert` ends the process.

### What is hard about it

* Requests are counted after they were published, lanes are filled before their
  counter is, counts are read long before they are acted on.
* A thread that ended keeps its lanes, its count and its place in the daemon's
  arithmetic.
* A full lane aborts the whole process.
* Several loops end only because of an invariant kept elsewhere: the search of
  the calendar queue, the trimming of a history, the daemon's matching.
* Unsigned arithmetic that wraps around on purpose or by accident, conversions
  to narrower types, two floating-point divisions that are truncated.
* Chains rewrite themselves while they are executed, and pass their inputs on as
  void pointers.
* Several chains, or threads of a baseline, empty and write one file.
* Only SIGINT ends the program, in a handler that takes locks, writes files and destroys
  the schedulers while their threads run.

### What makes each part correct

* *Lane:* a bounded FIFO; the two threads never touch one record together; the
  asserts fail only when the lane really is full.
* *Schedulers:* every task is in one place, is executed once, after the one
  before it in the chain; the counters agree with what they count; a scheduler has
  at most one request under way, and it is answered; donated tasks are accepted.
* *Daemon:* a round keeps donors donors and recipients recipients, and ends.
* *Run queues:* interactive before batch, in order of priority; a batch task waits only while
  others are put into the bucket being emptied; a search for a task ends.
* *History:* the last `HISTORY_THRESHOLD` milliseconds, whatever the events.
* *Priority:* always in range; a chain is never
  charged for more time than there was.
* *Chains:* the intended system calls in the intended order, each on the chain's
  own file, files closed, the copies complete.
* *Shutdown:* SIGINT ends the program, and the files hold what was recorded.
* *Baselines:* complete copies, buffers filled exactly, `main` returns.

## 2. The modules

| Module | Models | How |
|---|---|---|
| `BoundedFifo` | what a lane promises | abstract: a sequence, `Put`, `Take`, `PutOnFull` aborts |
| `ProducerConsumerQueue` | the ring buffer | one action per access to memory the other thread can touch; implements `BoundedFifo` |
| `TaskLifecycle` | what the schedulers promise about a task | abstract: waiting, queued, executing, deleted |
| `WorkStealing` | the scheduler loop, the lanes and counters, `stealTasks`, the exceptions | one action per access to memory another thread writes; implements `TaskLifecycle` |
| `BalanceLoad` | the daemon | one action per count it reads and per turn of each loop |
| `RunQueues` | both run queues under `submit` and `getNextTask` | one action per call, one per bucket that a search passes |
| `SlidingWindow` | what a history promises | abstract: what was done in each of the last milliseconds |
| `History` | `addEvent` | one action per turn of its loop; implements `SlidingWindow` |
| `Interactivity` | the penalty, for `History` and `TaskPriority` | operators: all results that the rounding of its two divisions may give |
| `TaskPriority` | the accounts and priorities of a chain | one action per call by the scheduler, with unsigned arithmetic of the code's widths scaled down |
| `IoChain` | the chains of file tasks | one action per task executed, and per answer of the kernel |
| `FileBlocks` | sizes of files and numbers of blocks, for all three programs | operators: the narrowing to `int`, the rounded quotient, the bytes of each block |
| `ThreadPerChain` | both C++ baselines | one action per system call or block, for `main` one per thread it starts or joins |
| `Shutdown` | `main`, the spawning of threads, SIGINT and what the handler does, `std::exit` | one action per scheduler that the handler, or the destructor, comes to, and per step of a thread that it may interrupt |

`MC*` modules instantiate them for TLC, `*Proofs` modules hold the theorems, and `Numbers`
the facts about division, multiplication and sums that they rest on. `TaskProofs` is about
all that belongs to a task, and extends `TaskPriority`, `History` and `IoChain` at once; that is why
the last two name their `HistorySpec` and `ChainSpec`, `HistoryTypeOK` and `ChainTypeOK` after themselves.

### How they fit together

`WorkStealing` uses lanes as sequences with a bound. That is sound because
`ProducerConsumerQueue` implements `BoundedFifo`, for every capacity (proved).
Its daemon may send any request for 1 to `MAX_TASKS_TO_STEAL` tasks to any
scheduler on behalf of any other one; that the real daemon sends only such
requests is `RequestsAreSound` of `BalanceLoad` (proved). `BalanceLoad` in turn
lets the counts of running schedulers be anything at every read, which covers
whatever `WorkStealing` does to them. `WorkStealing` takes tasks from its run
queues in any order; `RunQueues` says in which one, and that
`getNextTask` returns if it is called with a task queued. (`WorkStealing` changes
`current_task_count` and the queues in one action, as only the owner's thread
writes either.) `RunQueues` takes any priority and any time between two
submissions; `TaskPriority` says which priorities there are, and takes any
penalty; `History` says which penalties. `IoChain` ignores which scheduler a task
is on, but for the end of a scheduler's thread, which stops the chains that are there;
`WorkStealing` ignores what a task does but for failing or not. `ThreadPerChain` and
`IoChain` describe contents in the same way: a block of an output is right or not, and a
file is a copy when all are. `Shutdown` keeps of the schedulers' loops what matters to
the handler: where it may be interrupted, and what it records; that
`Coordinator::submit` gives every task to scheduler 0 when some metrics are on
is the constant `AllToFirst` of `WorkStealing`.

### State and code

Variables carry the code's names where there is one (`readIndex`, `insq`,
`ftick`, `runTime`), and every module lists at its `VARIABLES` what else stands
for what. The type invariant of a module is its `TypeOK`, the first conjunct of the
module's main invariant. Program counters (`pc`, `phase`, `producer`, `place`, `stage`, `trimming`, `searching`) tell
where a thread is between two accesses. Locals go back to their initial values
when they go out of scope, so that states do not differ by what nobody will
read.

Some definitions are variants of the definition right after them that leave out
a guard, swap two indices or stop a loop one too late. No specification uses
them. They show which mistake a property would notice: `PROJECT.json` lists
for every property one such variant, under "mutants".

## 3. The runs

| Run | Instance | Question |
|---|---|---|
| `queue` | 4 records, 3 values | Is the ring buffer a FIFO, free of races on records, and does it deliver? |
| `stealing` | 2 schedulers, 4 tasks in 3 chains dealt out, one with I/O, two that may fail, one request of the daemon, lanes for 1, fairness | Is each task in one place and executed once, in order? Do the counters agree with lanes and queues? Does a scheduler have one request under way, counted and acknowledged to the right one? Are requests answered, donations accepted, chains executed to the end? |
| `balance` | 4 schedulers with up to 4 tasks, cap 3, lanes for 3, scheduler 0 may end, fairness | Do rounds keep roles, ask once per pair, and send sound requests? Does a round end when donors have enough to spare? |
| `balance_hang` | 2 schedulers, fairness | Does every round end? **No**, see section 6. |
| `balance_dead` | 2 schedulers, one may end | Does the assert of `enque` hold in the daemon? **No**, see section 6. |
| `runqueues` | 2 interactive levels, 4 buckets, 3 tasks, any clock, fairness | Do bitmap, sizes and queues agree? Interactive first? Does a search end? Until the clock moves `insq`, are batch tasks taken in order of priority? Whatever the clock does, can one starve only behind tasks that join the bucket at `runq` for ever? |
| `runqueues_clock` | 4 buckets, 2 tasks, any clock | Are they taken in order of priority with the clock running? **No**, see section 6. |
| `history` | window of 6 ms, events of 0, 1, 2, 4 and 8 ms, up to 5 events | Is the history the sliding window? Does trimming end? Are only sleepers interactive? |
| `priority` | 2 schedulers with a clock each | Are priorities in range although a donated chain changes clocks? Does the account fit the time there was? When can its window be empty, and divided by? |
| `iochain` | 2 chains of 3 writes to one file, 2 descriptors, any call may fail, any transfer be short, fairness | Inputs of the right type, own files, closed, in order, to the end? Is the output a complete copy when a chain finishes? |
| `baselines` | both programs, every benchmark with one or two threads of a kind, 2 writes, files of 0, 2, 3, 5 and 8 bytes, 1 to 4 descriptors, any call may fail, fairness | Are the iovecs filled exactly? Are the copies complete when `main` returns? Are the descriptors enough? Does `main` return? |
| `shutdown` | 2 schedulers, 2 samples each, 2 signals to any thread, with and without metrics, fairness | Does SIGINT end the program? Do the files then hold what was recorded? |

### Bounds, and why they are enough

* *Lanes* of `queue` have four records, so that both indices wrap around after a
  few calls, and hold up to three values, which lets order show. In the stealing
  run a lane holds one value instead of 999. A small lane makes
  overflow reachable (`EnqueAssertFails`), and what does not overflow in a
  small one does not in a large one.
* *Schedulers:* two give every interleaving of a donor, a recipient and the
  daemon. A donor of two recipients and a choice between two donors need three:
  what the requests promise one another (`OneRequestAtATime`,
  `InProcessMatchesRequests`, `StealIsSafe`) is proved for any number.
* *Tasks:* four tasks let one scheduler have enough to donate two, while a chain
  goes on and I/O is in flight. `MaxTasksToSteal` is 2, which is met and missed.
  `DaemonRequests` bounds the requests of the daemon: with one, the run has the
  daemon's lane next to a peer's. The theorems have no such bound.
* *Daemon:* counts to four and a cap of three tasks (the code: 10) give rounds
  in which the cap, the surplus of the donor, or the need of the recipient decides.
* *Calendar:* the code has a bucket for each batch priority and moves `insq` by a
  number that grows with time. `Increments` lets the clock move it by anything modulo
  the ring.
* *History:* `MaxEvents` bounds the events a history has when one is added;
  durations fall on, below and above the window and its parts.
* *Priority:* `Second`, `TickSecs`, `Shift`, `UllMod`, `IntMax` and the ranges are
  scaled down. `WidthsAssumption` states the relations the real numbers
  have to each other that the results depend on: ten seconds of ticks are more than
  an `unsigned int` holds, and the quotient in `getPriority` fits in an `int`.
  `MaxClock` lets a clock pass two windows.
* *Chains:* with three writes the loop of `generateIoTaskChain` makes two turns, the
  second on what the first one forked; two chains and two descriptors let a
  number be taken over by the other chain at once. Both write the same file, as the
  chains of `threadMigrationBenchmark` do.
* *Baselines:* a block has two bytes and an `int` goes to 3, so that a file of two is
  a whole block, one of three has a last block that is not full, one of five or eight comes out negative or empty
  when it is narrowed, and only files that fit are claimed to be copied.
  Two threads of a kind write one output at the same time; one to four descriptors are too few for
  some benchmarks and enough for others. The proofs are about any numbers.
* *Shutdown:* with two signals the handler runs on two threads at once, each at any
  scheduler; with two samples the one that is being recorded is not the first.

No run uses symmetry, because most of them check liveness.

`CHECK_DEADLOCK FALSE` is set where the modelled program may stop: a process
aborted, exited or crashed, a thread ended, chains finished, clocks or histories at their
bound.

### Fairness

* `queue`: weak fairness of each step of an `enque` or `deque` begun, and of the
  look at the lane, because both threads keep running and the consumer polls.
  `enque` itself is not fair: nobody has to send.
* `stealing`: weak fairness of each thread's next step while nothing fails
  (the operating system schedules all threads), of the completion of each I/O
  request (the kernel), and of the daemon's second step. Failures and the sending
  of requests are not fair.
* `balance` and `balance_hang`: weak fairness of the daemon's loop and of each running scheduler's
  taking a request out of its lane. `WakeUp` moreover waits until every running
  scheduler has emptied its lane, since the daemon sleeps 500 ms or more between rounds
  while those threads go round their loops. This is the only assumption on time.
* `runqueues`: weak fairness of `getNextTask`; submissions are not fair, so that
  starvation by a stream of submissions is in the model.
* `history`: weak fairness of the loop; `iochain`: weak fairness of each chain's
  next step, not of failures.
* `baselines`: weak fairness of `main` and of each thread's next step, whether it
  succeeds or fails: the operating system runs all threads, and each call returns.
* `shutdown`: weak fairness of the handler's steps on each thread, and only while no
  thread was interrupted inside the allocator or the C library, where the handler may wait for ever.
  The schedulers, the daemon, signals and `main` are not fair: SIGINT must end the
  program whatever they do.

## 4. What is proved

All theorems are about the specifications TLC checks, for every value of the
constants that satisfies the named assumptions of the module.

**`ProducerConsumerQueueProofs`** (any capacity of 2 or more, any values). The
inductive invariant `IInv` says, besides types, that there is room while
the producer is between its check and its publishing, that there is a value
while the consumer is between its check and its release, that the locals agree
with where the threads are, and that every slot of the window between the
indices holds a real value. Without the first two, the asserts would not be
stable under the other thread's steps. From it follow `Typing`, `RecordsAreRaceFree`,
`DequeIsSafe`, and `RingBufferImplementsFifo`: each step of the ring is a step
of `BoundedFifo` or a stutter. The refinement rests on two lemmas about the
window: publishing appends to it, releasing drops its head.

**`WorkStealingProofs`** (any number of schedulers, tasks and chains, any size of
lanes, any number of requests by the daemon). `TypeInv` adds to the types that a
thread which is about to use the task in its hand has one. `StealInv` is the
invariant of the protocol of requests: each scheduler is asked of at most one
donor (`UniqueDonor`), once (`ShortLanes`); its counter is right but for the one
that was sent and not counted (`Counted`); a scheduler that is about to ask has
nothing under way (`NothingAsked`), which holds because it looked at a counter that
cannot be too small at that point; lanes name their recipients; and the
scan's donor was assigned if its count is positive (`ScanInv`). `QuietPreserves`
disposes of the many steps that touch none of this, and there is one lemma for each
step that does. `OneRequest`, `InProcessCounts`, `StealNeverOverflows`,
`DonorIsAlwaysKnown`, which together make `StealingIsSafe`, and
`LanesNameRecipients` follow.

The same module proves where the tasks are. A place is a queue, a hand, a ring, a completion
queue or one position of one lane (`IsPlace`). `TasksInv` has three parts: a task is in exactly one
place from its submission to its deletion, and in none before and after (`OnePlace`); a thread at a place of
the loop where it has no business with a task has none in its hand (`HandFree`); and a next task is
submitted only by the one task it follows, after that was executed, with `todo` holding what is
left to submit (`ChainInv`). `OnePlace` is not inductive without the other two: a task taken out of a
lane would overwrite another one in the hand, and a task submitted twice would be in two
places. That it is not submitted twice is where chains have to be forests. For each task
an action either leaves all its places as they are (`StaysInPlace`) or moves it from one to another
(`MovesTo`), but for the two that submit and delete one.
`EveryTaskHasOnePlace` follows. So does `LifecycleIsImplemented`: as a task is in one place,
the sets that the refinement mapping makes of the places are disjoint, and each action is
a step of `TaskLifecycle` or a stutter.

`CountersInv` is about the sums over the lanes. It is inductive as it stands; what it needs
is that one more or one less value in one lane changes the sum by one. `Numbers` proves that for
sums of any length (`SumOfChanged`) by induction. The induction theorems of the library
take an operator, so `SetInduction` states induction for a set of numbers
instead, and derives it from the least element of the complement.
`CountersAlwaysMatch` follows.

**`BalanceLoadProofs`** (any number of schedulers, any bound on counts, any cap).
The invariant relates the heaps to the counts read (`HeapsInv`), the
recipient being served to the donors (`MatchInv`), and says that a pair for
which something was asked is done: the donor is exhausted, or the recipient
satisfied (`OnceInv`). `Typing`, `DaemonRequestsAreSound` and `EachPairIsAskedOnce`
follow. The last one bounds what a round adds to a lane by N - 1. `RolesInv` is about sums of requests: a
donor's count in the heap and what was asked of it add up to the count read, and what
was asked for the recipient in hand and what it may still get stay within its two
bounds. A request adds the same number to one row and to one column of `asked`
(`AskingAdds`, from `SumOfChanged`). `RolesAreAlwaysKept` follows.

**`ThreadPerChainProofs`** (both programs, every benchmark with any number of
threads, any block size, any width of an `int`, any sizes and limits). The inductive invariant has five parts besides types. `MainInv`:
threads are spawned in order, joined in order, and have ended when they were joined.
`ArrayInv`: while a thread fills its iovecs, the bytes remaining are the size less whole
blocks, so that the rounded-up number of blocks and the loop agree; it
rests on the lemmas about quotients in `Numbers`.
`BuffersInv`: a thread whose file had no failure holds the first `current` blocks.
`ContentInv`: a block that some thread has written since it last emptied the output is
there, or else another thread that emptied it later is on its way to write it.
This last "or else" is what the property alone does not say: threads destroy one another's copies all
the time. `DescriptorsInv` says which descriptors a thread has open at each place. A thread
that is about to open one therefore lacks one of those it may have, and the open ones
inject into the threads that do I/O (with io_uring, into two copies of those) less one
(`OneIsMissing`). `Typing`, `IoVecsAlwaysFit`, `CopiesAreAlwaysComplete` and
`DescriptorsAlwaysSuffice` follow.

**`TaskProofs`** is about three components. *Priorities* (any numbers of `WidthsAssumption`, any
clocks, any number of schedulers): types say that no account leaves its width; with them,
`ComputedInRange` is about one call of `getPriority`: the window counts as a second at least,
so the divisor is at least what it is for a second, and the quotient of the largest use by it
fits in an `int` by `WidthsAssumption`. That is `PrioritiesAreAlwaysInRange`. It uses that the window
may be rounded up without overflow, which `WindowIsShort` shows: whatever wrapped around, the
window is shorter than `SCHED_TICK_MAX` after each update, since either it was moved, and is
`SCHED_TICK_TARG` long, or it did not have to be. `StepUpdates` says that accounts change
only by an update with the scheduler's clock. The rest is about one update:
`WindowAlwaysStaysOpen`, and `FitsAfterUpdate`, from which `UseAlwaysFitsWindow` follows: the use
scaled down fits what is left of the window, and what was used since fits the
rest.

*Histories* (any threshold, events of any length, any number of them). `SumsMatchEvents` is inductive:
an event that is added or split changes the time of its type by as much as the sum beside it, and no sum
goes below zero because an event is never longer than the sum of its type (`HeadFits`). `TimeOf`
is a sum over a sequence, defined by a recursive function; `TimeIsSum` makes it one of
`Numbers`, whose lemmas say what one more, one less or one changed term does to a sum. From it
follow `SumsAlwaysMatch` and, with `PenaltiesAreRight` about every result that the two roundings may give,
`OnlySleepersAreAlwaysInteractive`. `HistoryImplementsWindow` compares the
events, written out in milliseconds (`Flat`), with the window: the last
`HISTORY_THRESHOLD` of them (`LastOf`) are what `SlidingWindow` keeps. Adding an event slides
them (`AddSlides`). Shortening or dropping the oldest event takes milliseconds that are
not among the last ones (`ShortenKeeps`, `DropKeeps`), because the loop takes no more than the sums
exceed the threshold by, which is where `SumsMatchEvents` is needed.

*Chains* (any number of them, of any length, any file numbers, any descriptors). `IoInv` says for each
chain what is left of it and what it has done: that the steps still to come are linked as
they should be (`LinksInv`), that its log is the intended one up to the current step (`LogInv`), that its
input is what that step expects (`InputInv`), that it has the file of that step open and no
other (`FdInv`), by the descriptor that its request was submitted with (`RingInv`), and that its buffers are
filled once it has read (`BuffersInv`). None of these is inductive alone: the input is right because the links
are, and a request is of the chain's own file because the file stays open until it is collected.
`ContentInv` is about the other chains too: a chain that has written finds a copy, or
else another one has just emptied the file and is about to write it.
That main links the steps like this is `BuiltLinks`: what `generateIoTaskChain` builds is
a recursive function of the turns of its loop, whose existence (`TurnsExist`) and links (`LinkedByTurns`) are
shown by induction on them. An action changes one chain; what it leaves of the others (`Same`) keeps their parts
(`OthersKeep`), so that each action has a lemma about its own chain and `ContentInv`, which `Together`
puts together. `ChainsAlwaysAsBuilt` is the invariant; `InputsAreAlwaysOfTheirTypes`,
`RequestsAreAlwaysOfOwnFiles`, `FilesAreAlwaysClosed`, `FilesAreAlwaysCopiedInOrder` and
`CopiesAreAlwaysComplete` follow.

**`ShutdownProofs`** (any number of schedulers, samples and signals). `SamplesInv`:
the flag of a scheduler is set before its samples are written (`FlagInv`); while they are written
nothing is recorded, unless that is a race (`DumpInv`); once they are, the file lacks
at most the sample of the step that was under way, and none before that step has
recorded it (`KeptInv`); and only a handler that has passed all schedulers exits
(`ExitInv`). `KeptInv` is inductive because a scheduler that finds its flag set leaves its
loop. `Typing` and `SamplesAreAlwaysKept` follow.

**`RunQueuesProofs`** (any number of tasks, queues and buckets, any advance of the clock).
`QueuesInv` adds to `QueuesAgree` that a queue holds its tasks in the order in which they
came (`Ordered`), that the sets counted are finite, and that during a search there is a batch
task and no interactive one (`SearchInv`). The sizes are the numbers of tasks in the
queues, and change by one because no task is twice in them: `PutInto` and `TakeFrom`
say so of both kinds of queues. `Typing`, `QueuesAlwaysAgree`,
`SearchAlwaysFinds` and `InteractiveAlwaysFirst` follow. For `PriorityOrderAtFirst`,
`CalendarInv` says that until the clock moves it, `insq` is right after
`runq`, that a task is inserted as far from `runq` as its priority says and comes nearer with each
bucket passed, and so stays nearer than any later one of a lower priority. The lowest
priority of all is excluded, as it is in the run: its bucket is
the one before `insq`, which is `runq` itself while `insq` is right after it, so that it
overtakes the others.

The assumptions are `CapacityAssumption` and `NoValueAssumption`, `SizesAssumption`, `WidthsAssumption`, `ShutdownAssumption`,
`TasksAssumption` (chains are forests, which is how `main.cc` builds them), `WidthAssumption` and
`BenchmarkAssumption` (positive sizes and counts), `InteractivityAssumption` (the threshold lies
within the lower half of the penalties), `HistoryAssumption` (a positive threshold, lengths in whole milliseconds) and
`ChainAssumption` (chains write at least once, and `NoFd` and `NoTask` stand for no descriptor and no task). TLC
evaluates each of them for the constants of every run of its module.

## 5. What is only model-checked

Liveness, everywhere: the proof system does not reason about fairness and
ENABLED. These properties are `OldestIsDelivered`, `RequestIsAnswered`,
`DonationIsAccepted`, `AllTasksAreExecuted`, `SufficientRoundsEnd`, `SearchEnds`,
`StarvesOnlyByJoiners`, `TrimEnds`, `ChainsFinish`, `MainReturns` and `SignalEndsProgram`. The proofs show their safe
part where there is one: a search has a task to find (`SearchAlwaysFinds`), a round asks once per pair.

Every other invariant and action property that a run checks is proved.

## 6. What the checks found

1. **The daemon may spin for ever** (`balance_hang`). `coordinator.cc:94` takes a
   donor out of the heap only when it has *fewer* tasks than the average. One with
   exactly the average stays on top and has nothing to give, so the loop of `:91` goes
   round unchanged while the recipient may still get tasks. Two schedulers with three
   tasks and none are enough: the average is rounded up (`:71`) to two, the donor gives
   one task and keeps exactly two, and the recipient still lacks one. Counts that changed
   between the readings of `:66-70` and `:75-82` have the same effect.
   `SufficientRoundsEnd` (run `balance`) says when a round does end: the donors
   have enough to spare and the recipients together lack no more than
   `MAX_TASKS_TO_STEAL`.
2. **A thread that ended brings the process down** (`balance_dead`). The handlers of
   `coordinator.cc:128-134` keep the other threads running, and the daemon goes
   on sending requests to the ended scheduler's lane, until `assert` at
   `producer_consumer_queue.cc:40` fails. As long as all threads run, it cannot fail
   there: they empty their lanes between two rounds, and a round adds at most N - 1
   requests to a lane (`EachPairIsAskedOnce`).
3. **High priority batch tasks may be overtaken** (`runqueues_clock`).
   `last_insq_update_time` is never updated, so `insq` moves by all the time since
   construction with every insertion, and insertions scatter over the ring.
   Within the first interval the order is what `Benchmarks.ipynb:276-278` says
   (`HigherPriorityFirstAtFirst` of run `runqueues`).
   For the same reason a batch task may starve, although the notebook says that it
   will not (`:278`). `insq` may come to lie such that another task is put into the bucket at `runq`
   each time that bucket was emptied, and `runq` moves on only when a search finds it empty. What the clock adds
   to `insq` is any number modulo the ring, as nothing bounds the time between two submissions;
   tasks of one priority that are each submitted a multiple of 880 ms (10 ms for each
   of the 88 buckets) after the construction can do it. A chain is finite, so in a
   benchmark of `main.cc` the task waits until such a chain ends; with tasks that keep coming, for ever.
   `StarvesOnlyByJoiners` (run `runqueues`) says that this is the only way, whatever the
   clock: as long as `runq` moves on, each task's turn comes. No run claims more: a property without
   that exception is violated. Within the first interval
   nothing but a task of the lowest priority of all can join that bucket.

The models also settle some things that look wrong and are not, or are so in
one case only. `in_process_steal_requests` may be -1 for a moment but never drifts;
`doner_scheduler`, which is declared uninitialised, is never used so; the branch
of `task.cc:94` that forgives an idle chain is never taken, because the time is cut to 32
bits before it is compared with ten seconds in nanoseconds; and `task.cc:98` divides by
zero for a chain whose account was never updated at a clock above 0 and whose scheduler's clock
reaches `SCHED_TICK_MAX` first. `WindowStaysOpen` says that after that only a
donation to a scheduler whose clock is behind the account can make it do so.

About the end of the program: the samples are kept although nobody waits for the
schedulers to stop, because `stop` sets a scheduler's flag before it writes its
samples and only the task that is being executed can add one. What is not safe
is a list read while that one is added, the handler run a second time by a second
SIGINT, which empties the files again, and the destruction of the schedulers by
`std::exit` under running threads. `SamplesAreKept` names the first two as exceptions;
that the program ends all the same is `SignalEndsProgram`, with the exception
of a thread interrupted where the handler then waits for its lock.

About the contents: a short read or write counts as success in `filescheduler.cc:56`
(io_uring may return fewer bytes than asked for), and the chain then finishes without a copy;
`CopiesAreComplete` says so. In the baselines a file of 2 GB or more would overflow the
array of iovecs, or leave it empty, since its size is narrowed to `int` (as in `main.cc:44`);
`IoVecsFit` holds for all smaller ones.

## 7. What is not modelled

* **Results** of CPU tasks (`generatePrimes` and its like), and the contents
  of files beyond which blocks are right.
* **Time** as such: the daemon's and the schedulers' relative speeds. That a
  completion lane with 999 records overflows needs about a hundred rounds of
  the daemon during one task, so whether it happens is a matter of time; here
  lanes are small, and the overflow is an action that every property is checked with.
* **`pending_requests`** of `FileScheduler`, a count that saves a look at the ring, and
  the overflow of the completion ring, which the kernel buffers.
* **Weak memory.** The atomics are sequentially consistent but for the lane's
  indices, whose acquire loads pair with release stores of the one thread that
  writes them. Interleaving the accesses loses no behaviour of either.
* **The length of a history.** Events shorter than a millisecond have no length, never
  make a history too long, and are never trimmed, so that the deque grows with each of them; `MaxEvents`
  bounds it instead.
* The logger, the choice of benchmarks in `main.cc`, `node_scheduler.js`, `sample.cc`,
  the scripts and the data: they change no state of the scheduler, or are other
  programs.

## 8. Plan

Done, in this order, by weight in the system: the lane and its proofs; the
schedulers and stealing and their proofs; the daemon and its proofs; the run
queues and their proofs; history and its proofs; priority and its proofs; chains and their proofs; the baselines and their proofs; shutdown and its proofs.

To come, modules:

1. The daemon and the schedulers in one module, with real counts: whether a round's
   requests leave the loads closer together than they were, and whether
   donor and recipient swap roles between rounds.
2. `RunQueues` with the priorities of `TaskPriority`: how long a batch task of niceness
   `MAX_NICENESS` can wait.

To come, proofs:

1. For the first of these modules, what holds between rounds: that donors and recipients keep
   their roles while the counts do not change.
2. For the second one, a bound on the tasks that may pass one waiting in the calendar while the
   clock leaves `insq` alone.

## Running the checks

    tlc -config MCWorkStealing.cfg MCWorkStealing.tla
    tlapm WorkStealingProofs.tla

Each TLC run takes from a second to about two minutes; the longest proof, that of
`WorkStealingProofs`, about five minutes, and `TaskProofs` about three.
