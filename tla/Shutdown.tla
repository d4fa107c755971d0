------------------------------- MODULE Shutdown -------------------------------
(***************************************************************************)
(* How the threads of the program start and end: main of main.cc, start,   *)
(* stop and the destructor of Coordinator, start and stop of Scheduler.    *)
(*                                                                         *)
(* Nothing but SIGINT ends the program: the daemon's loop has no exit, and *)
(* main waits for the daemon.  The handler runs on top of the thread that  *)
(* the kernel delivers the signal to, main if it is not in the handler     *)
(* already.  It sets the stop flags one after the other, writes what each  *)
(* scheduler recorded to files if the program is built with metrics, and   *)
(* calls std::exit, which destroys the coordinator.  The other threads go  *)
(* on meanwhile, and a second SIGINT starts the handler on one of them.    *)
(*                                                                         *)
(* A handler that allocates, or takes a lock of the C library, when its    *)
(* thread was interrupted doing so may wait for ever.  That is modelled by *)
(* fairness: once a thread was interrupted there, no handler has to go on. *)
(***************************************************************************)
EXTENDS Integers, FiniteSets

CONSTANTS
    N,           \* schedulers in the coordinator's vector
    Main,
    Daemon,
    MaxSamples,  \* bound on what a scheduler records
    MaxSignals   \* bound on the signals sent

ASSUME ShutdownAssumption ==
    /\ N \in Nat \ {0}
    /\ MaxSamples \in Nat
    /\ MaxSignals \in Nat

Schedulers == 0 .. N - 1
Threads == Schedulers \cup {Main, Daemon}

VARIABLES
    metrics,   \* whether ENABLE_METRICS or one of its like is defined
    at,        \* where each thread is
    doing,     \* what the handler does on a thread; "own": it does not run there
    index,     \* the scheduler that the handler on a thread has come to
    inside,    \* threads interrupted in the allocator or the C library
    exiting,   \* whether std::exit was called
    count,     \* schedulers.size()
    stopFlag,
    samples,   \* how many samples a scheduler has recorded
    file,      \* how many of them are in its file under results/
    racing,    \* schedulers whose samples were read while they changed or after
    signals,   \* how many signals were delivered
    process    \* the state of the process

handlers == <<doing, index, inside, exiting, signals>>
records == <<samples, file, racing>>
vars == <<metrics, at, handlers, count, stopFlag, records, process>>

TypeOK ==
    /\ metrics \in BOOLEAN
    /\ at \in [Threads -> {"unborn", "setup", "start", "join",
                           "loop", "work", "record", "sleep", "round", "ended"}]
    /\ doing \in [Threads -> {"own", "stop", "dump", "exit", "destroy"}]
    /\ index \in [Threads -> 0 .. N]
    /\ inside \subseteq Threads
    /\ exiting \in BOOLEAN
    /\ count \in 0 .. N
    /\ stopFlag \in [Schedulers -> BOOLEAN]
    /\ samples \in [Schedulers -> 0 .. MaxSamples]
    /\ file \in [Schedulers -> 0 .. MaxSamples]
    /\ racing \subseteq Schedulers
    /\ signals \in 0 .. MaxSignals
    /\ process \in {"running", "killed", "exited", "crashed"}

Init ==
    /\ metrics \in BOOLEAN
    /\ at = [t \in Threads |-> IF t = Main THEN "setup" ELSE "unborn"]
    /\ doing = [t \in Threads |-> "own"]
    /\ index = [t \in Threads |-> 0]
    /\ inside = {}
    /\ exiting = FALSE
    /\ count = N
    /\ stopFlag = [s \in Schedulers |-> FALSE]
    /\ samples = [s \in Schedulers |-> 0]
    /\ file = [s \in Schedulers |-> 0]
    /\ racing = {}
    /\ signals = 0
    /\ process = "running"

Moves(t, from, to) ==
    /\ process = "running"
    /\ doing[t] = "own"
    /\ at[t] = from
    /\ at' = [at EXCEPT ![t] = to]

InDump(s) == \E t \in Threads : doing[t] = "dump" /\ index[t] = s

------------------------------------------------------------------------------
(* The threads.                                                             *)

\* std::signal, after the tasks of the benchmark were submitted.
Register ==
    /\ Moves(Main, "setup", "start")
    /\ UNCHANGED <<metrics, handlers, count, stopFlag, records, process>>

\* Coordinator::start: the threads of the schedulers, and then the daemon's.
Spawn ==
    /\ process = "running"
    /\ doing[Main] = "own"
    /\ at[Main] = "start"
    /\ \/ \E s \in Schedulers :
            /\ at[s] = "unborn"
            /\ \A r \in 0 .. s - 1 : at[r] # "unborn"
            /\ at' = [at EXCEPT ![s] = "loop"]
       \/ /\ \A s \in Schedulers : at[s] # "unborn"
          /\ at' = [at EXCEPT ![Daemon] = "sleep", ![Main] = "join"]
    /\ UNCHANGED <<metrics, handlers, count, stopFlag, records, process>>

\* Scheduler::start looks at the flag; there may be anything in its place once
\* the scheduler is destroyed.
CheckFlag(s) ==
    /\ \E flag \in IF s < count THEN {stopFlag[s]} ELSE BOOLEAN :
          Moves(s, "loop", IF flag THEN "ended" ELSE "work")
    /\ UNCHANGED <<metrics, handlers, count, stopFlag, records, process>>

\* process_interactive_tasks returns without having run a task, or throws, and
\* that ends the thread.
RunNothing(s) ==
    /\ \E to \in {"loop", "ended"} : Moves(s, "work", to)
    /\ UNCHANGED <<metrics, handlers, count, stopFlag, records, process>>

\* It has run one and begins to record how long that took.
RunTask(s) ==
    /\ metrics
    /\ samples[s] < MaxSamples
    /\ Moves(s, "work", "record")
    /\ racing' = IF InDump(s) THEN racing \cup {s} ELSE racing
    /\ UNCHANGED <<metrics, handlers, count, stopFlag, samples, file, process>>

\* What is recorded in a scheduler that is destroyed is lost.
Record(s) ==
    /\ Moves(s, "record", "loop")
    /\ samples' = IF s < count THEN [samples EXCEPT ![s] = @ + 1] ELSE samples
    /\ UNCHANGED <<metrics, handlers, count, stopFlag, file, racing, process>>

\* The daemon begins and ends a round of balanceLoad.
DaemonMoves ==
    /\ \/ Moves(Daemon, "sleep", "round")
       \/ Moves(Daemon, "round", "sleep")
    /\ UNCHANGED <<metrics, handlers, count, stopFlag, records, process>>

------------------------------------------------------------------------------
(* SIGINT.                                                                  *)

\* Until main has registered the handler, the signal kills the process.
Killed ==
    /\ process = "running"
    /\ signals < MaxSignals
    /\ at[Main] = "setup"
    /\ signals' = signals + 1
    /\ process' = "killed"
    /\ UNCHANGED <<metrics, at, doing, index, inside, exiting, count, stopFlag, records>>

\* SIGINT is blocked on a thread while the handler runs there, and main is
\* preferred to the others.
Receives(t) ==
    /\ at[t] \notin {"unborn", "setup", "ended"}
    /\ doing[t] = "own"
    /\ t # Main => doing[Main] # "own"

Deliver(t) ==
    /\ process = "running"
    /\ signals < MaxSignals
    /\ Receives(t)
    /\ signals' = signals + 1
    /\ doing' = [doing EXCEPT ![t] = "stop"]
    /\ index' = [index EXCEPT ![t] = 0]
    /\ \/ inside' = inside
       \/ at[t] \in {"start", "work", "record", "round"} /\ inside' = inside \cup {t}
    /\ UNCHANGED <<metrics, at, exiting, count, stopFlag, records, process>>

Handles(t, what) == process = "running" /\ doing[t] = what

Advance(t) ==
    /\ doing' = [doing EXCEPT ![t] = "stop"]
    /\ index' = [index EXCEPT ![t] = @ + 1]

\* The file is opened, and emptied by that.
BeginDump(t) ==
    LET s == index[t] IN
    /\ file' = [file EXCEPT ![s] = 0]
    /\ racing' = IF at[s] = "record" \/ s >= count THEN racing \cup {s} ELSE racing
    /\ doing' = [doing EXCEPT ![t] = "dump"]
    /\ UNCHANGED <<index, samples>>

\* The samples are written, but the flag is left as it is.
FlagNotSet(t) ==
    LET s == index[t] IN
    /\ Handles(t, "stop")
    /\ s < N
    /\ IF metrics THEN BeginDump(t) ELSE Advance(t) /\ UNCHANGED records
    /\ UNCHANGED <<metrics, at, inside, exiting, signals, count, stopFlag, process>>

\* Coordinator::stop comes to the next scheduler: Scheduler::stop sets its flag
\* and begins to write what it recorded.
StopScheduler(t) ==
    LET s == index[t] IN
    /\ Handles(t, "stop")
    /\ s < N
    /\ stopFlag' = [stopFlag EXCEPT ![s] = TRUE]
    /\ IF metrics THEN BeginDump(t) ELSE Advance(t) /\ UNCHANGED records
    /\ UNCHANGED <<metrics, at, inside, exiting, signals, count, process>>

\* The file is closed.  What a list holds that changes meanwhile is undefined.
EndDump(t) ==
    LET s == index[t] IN
    /\ Handles(t, "dump")
    /\ \E written \in IF s \in racing THEN 0 .. samples[s] ELSE {samples[s]} :
          file' = [file EXCEPT ![s] = written]
    /\ Advance(t)
    /\ UNCHANGED <<metrics, at, inside, exiting, signals, count, stopFlag, samples, racing, process>>

\* The handler returns when it has set the flags.
ReturnFromHandler(t) ==
    /\ Handles(t, "stop")
    /\ index[t] = N
    /\ doing' = [doing EXCEPT ![t] = "own"]
    /\ UNCHANGED <<metrics, at, index, inside, exiting, signals, count, stopFlag, records, process>>

\* sigint_handler calls std::exit.
CallExit(t) ==
    /\ Handles(t, "stop")
    /\ index[t] = N
    /\ doing' = [doing EXCEPT ![t] = IF exiting THEN "exit" ELSE "destroy"]
    /\ exiting' = TRUE
    /\ UNCHANGED <<metrics, at, index, inside, signals, count, stopFlag, records, process>>

\* Coordinator::~Coordinator destroys the last scheduler of its vector.
Destroy(t) ==
    /\ Handles(t, "destroy")
    /\ count > 0
    /\ count' = count - 1
    /\ racing' = IF InDump(count') THEN racing \cup {count'} ELSE racing
    /\ UNCHANGED <<metrics, at, handlers, stopFlag, samples, file, process>>

EndsProcess == process' = "exited"

\* The first call of std::exit ends the process when all are destroyed.
Exit(t) ==
    /\ Handles(t, "destroy")
    /\ count = 0
    /\ EndsProcess
    /\ UNCHANGED <<metrics, at, handlers, count, stopFlag, records>>

\* A second call may wait for the first, for ever, or find the destructor begun
\* and nothing left to do, as different versions of the C library have it.
ExitAtOnce(t) ==
    /\ Handles(t, "exit")
    /\ EndsProcess
    /\ UNCHANGED <<metrics, at, handlers, count, stopFlag, records>>

\* A use of a list while it changes, of a scheduler that is destroyed, or of the
\* allocator within the allocator: each may also end the process.
Undefined ==
    \/ \E s \in racing : InDump(s)
    \/ count < N /\ \E t \in Threads :
          \/ doing[t] = "own" /\ at[t] \in {"loop", "work", "record", "round"}
          \/ doing[t] \in {"stop", "dump"}
    \/ \E t \in inside : doing[t] \in {"dump", "destroy"}

Crash ==
    /\ process = "running"
    /\ Undefined
    /\ process' = "crashed"
    /\ UNCHANGED <<metrics, at, handlers, count, stopFlag, records>>

HandlerStep(t) == StopScheduler(t) \/ EndDump(t) \/ CallExit(t) \/ Destroy(t) \/ Exit(t)

SchedulerStep(s) == CheckFlag(s) \/ RunNothing(s) \/ RunTask(s) \/ Record(s)

Next ==
    \/ Register
    \/ Spawn
    \/ \E s \in Schedulers : SchedulerStep(s)
    \/ DaemonMoves
    \/ Killed
    \/ \E t \in Threads : Deliver(t) \/ HandlerStep(t) \/ ExitAtOnce(t)
    \/ Crash

Spec == Init /\ [][Next]_vars

\* A handler goes on unless a thread was interrupted at a place where it may
\* hold a lock for ever; the other threads do as they like.
FairSpec == Spec /\ \A t \in Threads : WF_vars(inside = {} /\ HandlerStep(t))

------------------------------------------------------------------------------
(* Properties.                                                              *)

\* When the handler has ended the process, the files hold every sample but that
\* of the step each scheduler was in, though nobody waits for the schedulers to
\* see their flags (scheduler.cc:181-219, :176); unless a list was read while it
\* changed, or a second SIGINT had just emptied the file again (main.cc:157).
SamplesAreKept ==
    /\ TypeOK
    /\ metrics /\ process = "exited" =>
          \A s \in Schedulers :
              file[s] >= samples[s] - 1 \/ s \in racing \/ InDump(s)

\* SIGINT ends the program, wherever its threads are and whatever they go on to
\* do, destroyed schedulers included: the daemon would never end, and main never
\* return from joining it (coordinator.cc:142 and :155).  Unless a thread was
\* interrupted where the handler may wait for it (scheduler.cc:185-195).
SignalEndsProgram ==
    signals > 0 ~> (process # "running" \/ inside # {})
==============================================================================
