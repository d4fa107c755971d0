---------------------------- MODULE ThreadPerChain ----------------------------
(***************************************************************************)
(* The two baselines that the scheduler is compared with: one thread of    *)
(* the operating system for each chain, with pread and pwrite              *)
(* (multi-threaded.cc) or with an io_uring for each thread                 *)
(* (multi-threaded-iouring.cc).                                            *)
(*                                                                         *)
(* main starts the threads of one benchmark and joins them.  An I/O thread *)
(* reads a file into blocks, opens another one, which empties it, and      *)
(* writes the blocks there Length times with a computation after each.     *)
(* The threads share the process: its descriptors, its life (an exception  *)
(* of a thread ends the process, nobody catches it), and the output file   *)
(* of threads with the same number.                                        *)
(***************************************************************************)
EXTENDS FileBlocks, FiniteSets

CONSTANTS
    Copies,          \* threads of a kind in a benchmark (the code: 256)
    PreadMigrants,   \* threads of threadMigrationBenchmark with pread (16)
    Length,          \* how often the output is written (20)
    Sizes,           \* the sizes that input files may have
    Limits           \* how many descriptors the process may have left

ASSUME BenchmarkAssumption ==
    /\ Copies \in Nat \ {0}
    /\ PreadMigrants \in Nat \ {0}
    /\ Length \in Nat \ {0}
    /\ Sizes \subseteq Nat
    /\ Limits \subseteq Nat

VARIABLES
    program,     \* which of the two programs runs
    job,         \* the file number of each thread, or that it only computes
    size,        \* the size of each input file
    limit,       \* the limit on descriptors
    main,        \* what main is doing
    at,          \* the thread that main starts or joins next
    place,       \* where each thread is
    blocks,      \* blocks of its FileTaskInput
    current,     \* current_block
    remaining,   \* bytes_remaining
    good,        \* the blocks whose buffer holds what the file has there
    turn,        \* i of the loop that writes
    open,        \* the open descriptors
    content,     \* the blocks of each output file that are as in the input
    failed,      \* the files of which a read or a write failed
    process      \* "running", or how the process ended

inputs == <<program, job, size, limit>>
locals == <<blocks, current, remaining, good, turn>>
vars == <<inputs, main, at, place, locals, open, content, failed, process>>

------------------------------------------------------------------------------
(* The benchmarks.                                                          *)

Cpu == -1

CpuJobs == [i \in 0 .. Copies - 1 |-> Cpu]
IoJobs == [i \in 0 .. Copies - 1 |-> i]
OtherIoJobs == [i \in 0 .. Copies - 1 |-> i + Copies]

\* One loop that starts threads, and then another one.
Then(first, second) ==
    [i \in 0 .. 2 * Copies - 1 |-> IF i < Copies THEN first[i] ELSE second[i - Copies]]

\* threadMigrationBenchmark: every thread copies file 0.
Migrants(p) ==
    [i \in 0 .. (IF p = "pread" THEN PreadMigrants ELSE 2 * Copies) - 1 |-> 0]

\* What each thread of a benchmark does, in the order they are started in.
Benchmarks(p) ==
    {CpuJobs, IoJobs, Then(IoJobs, CpuJobs), Then(CpuJobs, CpuJobs),
     Then(IoJobs, OtherIoJobs), Migrants(p)}

Threads == DOMAIN job
Files == {job[t] : t \in Threads} \ {Cpu}

------------------------------------------------------------------------------

Places == {"unborn", "ring", "openIn", "fill", "readv", "closeIn", "openOut", "write",
           "compute", "exitRing", "ended"}

TypeOK ==
    /\ program \in {"pread", "io_uring"}
    /\ job \in [Threads -> Nat \cup {Cpu}]
    /\ size \in [Files -> Sizes]
    /\ limit \in Limits
    /\ main \in {"spawn", "join", "returned"}
    /\ at \in Nat
    /\ place \in [Threads -> Places]
    /\ blocks \in [Threads -> Int]
    /\ current \in [Threads -> Nat]
    /\ remaining \in [Threads -> Nat]
    /\ good \in [Threads -> SUBSET Nat]
    /\ turn \in [Threads -> Nat]
    /\ open \subseteq Threads \X {"ring", "in", "out"}
    /\ content \in [Files -> SUBSET Nat]
    /\ failed \subseteq Files
    /\ process \in {"running", "returned", "noDescriptor", "terminated", "crashed"}

\* What the output held before has no block in common with the input.
Init ==
    /\ program \in {"pread", "io_uring"}
    /\ job \in Benchmarks(program)
    /\ size \in [Files -> Sizes]
    /\ limit \in Limits
    /\ main = "spawn"
    /\ at = 0
    /\ place = [t \in Threads |-> "unborn"]
    /\ blocks = [t \in Threads |-> 0]
    /\ current = [t \in Threads |-> 0]
    /\ remaining = [t \in Threads |-> 0]
    /\ good = [t \in Threads |-> {}]
    /\ turn = [t \in Threads |-> 0]
    /\ open = {}
    /\ content = [f \in Files |-> {}]
    /\ failed = {}
    /\ process = "running"

------------------------------------------------------------------------------
(* main.                                                                    *)

MainAt(where) == process = "running" /\ main = where

\* The thread after that one, if there is one; else main goes on there.
AfterThread(where) ==
    IF at + 1 \in Threads
    THEN at' = at + 1 /\ UNCHANGED main
    ELSE at' = 0 /\ main' = where

FirstPlace(t) ==
    IF job[t] = Cpu THEN "compute" ELSE IF program = "io_uring" THEN "ring" ELSE "openIn"

Spawn ==
    /\ MainAt("spawn")
    /\ place' = [place EXCEPT ![at] = FirstPlace(at)]
    /\ AfterThread("join")
    /\ UNCHANGED <<inputs, locals, open, content, failed, process>>

\* std::thread throws, and main does not catch it.
SpawnFails ==
    /\ MainAt("spawn")
    /\ process' = "terminated"
    /\ UNCHANGED <<inputs, main, at, place, locals, open, content, failed>>

\* The threads are detached.
JoinWithoutWaiting ==
    /\ MainAt("join")
    /\ AfterThread("returned")
    /\ process' = IF main' = "returned" THEN "returned" ELSE process
    /\ UNCHANGED <<inputs, place, locals, open, content, failed>>

Join ==
    /\ MainAt("join")
    /\ place[at] = "ended"
    /\ AfterThread("returned")
    /\ process' = IF main' = "returned" THEN "returned" ELSE process
    /\ UNCHANGED <<inputs, place, locals, open, content, failed>>

------------------------------------------------------------------------------
(* The threads.                                                             *)

At(t, where) == process = "running" /\ place[t] = where
Goto(t, where) == place' = [place EXCEPT ![t] = where]
File(t) == job[t]

CanOpen == Cardinality(open) < limit

SetUpRing(t) ==
    /\ At(t, "ring")
    /\ CanOpen
    /\ open' = open \cup {<<t, "ring">>}
    /\ Goto(t, "openIn")
    /\ UNCHANGED <<inputs, main, at, locals, content, failed, process>>

\* The input is opened, and the array for its blocks allocated.
OpenInput(t) ==
    /\ At(t, "openIn")
    /\ CanOpen
    /\ open' = open \cup {<<t, "in">>}
    /\ blocks' = [blocks EXCEPT ![t] = IoVecs(size[File(t)])]
    /\ remaining' = [remaining EXCEPT ![t] = size[File(t)]]
    /\ Goto(t, "fill")
    /\ UNCHANGED <<inputs, main, at, current, good, turn, content, failed, process>>

\* A turn of the loop of readFile: one more iovec and buffer.
NextIoVec(t) ==
    /\ At(t, "fill")
    /\ remaining[t] # 0
    /\ current' = [current EXCEPT ![t] = @ + 1]
    /\ remaining' = [remaining EXCEPT ![t] = @ - BytesToRead(@)]

\* With pread the loop reads the block into the buffer.  Nobody looks at what
\* pread returns: if it fails the buffer holds what the allocator left there.
Fill(t) ==
    /\ NextIoVec(t)
    /\ current[t] < blocks[t]
    /\ \/ /\ program = "pread"
          /\ good' = [good EXCEPT ![t] = @ \cup {current[t]}]
          /\ UNCHANGED failed
       \/ /\ program = "pread"
          /\ failed' = failed \cup {File(t)}
          /\ UNCHANGED good
       \/ /\ program = "io_uring"
          /\ UNCHANGED <<good, failed>>
    /\ UNCHANGED <<inputs, main, at, place, blocks, turn, open, content, process>>

\* The array is too short, or was not allocated: the iovec is written somewhere
\* else.  The process crashes, or goes on with something overwritten.
FillBeyond(t) ==
    /\ NextIoVec(t)
    /\ current[t] >= blocks[t]
    /\ process' \in {"running", "crashed"}
    /\ UNCHANGED <<inputs, main, at, place, blocks, good, turn, open, content, failed>>

Filled(t) ==
    /\ At(t, "fill")
    /\ remaining[t] = 0
    /\ Goto(t, IF program = "io_uring" THEN "readv" ELSE "closeIn")
    /\ UNCHANGED <<inputs, main, at, locals, open, content, failed, process>>

\* The whole array in one request; nobody looks at its result, so that it may
\* have read less, or nothing.
ReadVector(t) ==
    \E n \in {0} \cup 0 .. blocks[t] :
        /\ At(t, "readv")
        /\ good' = [good EXCEPT ![t] = 0 .. n - 1]
        /\ failed' = IF n # blocks[t] THEN failed \cup {File(t)} ELSE failed
        /\ Goto(t, "closeIn")
        /\ UNCHANGED <<inputs, main, at, blocks, current, remaining, turn, open, content,
                       process>>

\* The input stays open.
CloseNothing(t) ==
    /\ At(t, "closeIn")
    /\ Goto(t, "openOut")
    /\ UNCHANGED <<inputs, main, at, locals, open, content, failed, process>>

CloseInput(t) ==
    /\ At(t, "closeIn")
    /\ open' = open \ {<<t, "in">>}
    /\ Goto(t, "openOut")
    /\ UNCHANGED <<inputs, main, at, locals, content, failed, process>>

\* O_TRUNC empties the output, whoever writes it at the moment.
OpenOutput(t) ==
    /\ At(t, "openOut")
    /\ CanOpen
    /\ open' = open \cup {<<t, "out">>}
    /\ content' = [content EXCEPT ![File(t)] = {}]
    /\ current' = [current EXCEPT ![t] = 0]
    /\ Goto(t, "write")
    /\ UNCHANGED <<inputs, main, at, blocks, remaining, good, turn, failed, process>>

\* Blocks from .. to of the output now hold what the buffers do.
Written(t, from, to) ==
    content' = [content EXCEPT ![File(t)] = (@ \ (from .. to)) \cup (good[t] \cap (from .. to))]

\* The loop does not go on to the next block.
WriteBlockAgain(t) ==
    /\ At(t, "write")
    /\ program = "pread"
    /\ current[t] < blocks[t]
    /\ \/ /\ Written(t, current[t], current[t])
          /\ UNCHANGED failed
       \/ /\ failed' = failed \cup {File(t)}
          /\ UNCHANGED content
    /\ UNCHANGED <<inputs, main, at, place, locals, open, process>>

\* writeFile, a turn of its loop.
WriteBlock(t) ==
    /\ At(t, "write")
    /\ program = "pread"
    /\ current[t] < blocks[t]
    /\ current' = [current EXCEPT ![t] = @ + 1]
    /\ \/ /\ Written(t, current[t], current[t])
          /\ UNCHANGED failed
       \/ /\ failed' = failed \cup {File(t)}
          /\ UNCHANGED content
    /\ UNCHANGED <<inputs, main, at, place, blocks, remaining, good, turn, open, process>>

BlocksWritten(t) ==
    /\ At(t, "write")
    /\ program = "pread"
    /\ current[t] >= blocks[t]
    /\ Goto(t, "compute")
    /\ UNCHANGED <<inputs, main, at, locals, open, content, failed, process>>

\* The whole array in one request, which may write less, or nothing.
WriteVector(t) ==
    \E n \in {0} \cup 0 .. blocks[t] :
        /\ At(t, "write")
        /\ program = "io_uring"
        /\ Written(t, 0, n - 1)
        /\ failed' = IF n # blocks[t] THEN failed \cup {File(t)} ELSE failed
        /\ Goto(t, "compute")
        /\ UNCHANGED <<inputs, main, at, locals, open, process>>

\* The locals go out of scope.
Leave(t, where) ==
    /\ Goto(t, where)
    /\ turn' = [turn EXCEPT ![t] = 0]
    /\ current' = [current EXCEPT ![t] = 0]
    /\ blocks' = [blocks EXCEPT ![t] = 0]
    /\ good' = [good EXCEPT ![t] = {}]

\* generatePrimes, and the end of a turn of the loop that writes.
ComputeAndWriteAgain(t) ==
    /\ At(t, "compute")
    /\ job[t] # Cpu
    /\ IF turn[t] + 1 < Length
       THEN /\ turn' = [turn EXCEPT ![t] = @ + 1]
            /\ current' = [current EXCEPT ![t] = 0]
            /\ Goto(t, "write")
            /\ UNCHANGED <<blocks, good>>
       ELSE Leave(t, IF program = "io_uring" THEN "exitRing" ELSE "ended")
    /\ UNCHANGED <<inputs, main, at, remaining, open, content, failed, process>>

\* generateCpuTaskChain, which doubles its length.
ComputeOnly(t) ==
    /\ At(t, "compute")
    /\ job[t] = Cpu
    /\ IF turn[t] + 1 < 2 * Length
       THEN turn' = [turn EXCEPT ![t] = @ + 1] /\ UNCHANGED <<place, current, blocks, good>>
       ELSE Leave(t, "ended")
    /\ UNCHANGED <<inputs, main, at, remaining, open, content, failed, process>>

\* io_uring_queue_exit.  The output stays open until the process ends.
ExitRing(t) ==
    /\ At(t, "exitRing")
    /\ open' = open \ {<<t, "ring">>}
    /\ Goto(t, "ended")
    /\ UNCHANGED <<inputs, main, at, locals, content, failed, process>>

Ends(how) ==
    /\ process' = how
    /\ UNCHANGED <<inputs, main, at, place, locals, open, content, failed>>

\* EMFILE; the exception is not caught.
NoDescriptor(t) ==
    /\ \E where \in {"ring", "openIn", "openOut"} : At(t, where)
    /\ ~CanOpen
    /\ Ends("noDescriptor")

\* No such file, no memory, or a request that is refused.
Throws(t) ==
    /\ \/ \E where \in {"ring", "openIn", "fill", "readv", "openOut"} : At(t, where)
       \/ program = "io_uring" /\ At(t, "write")
    /\ Ends("terminated")

Step(t) ==
    \/ SetUpRing(t)
    \/ OpenInput(t)
    \/ Fill(t)
    \/ FillBeyond(t)
    \/ Filled(t)
    \/ ReadVector(t)
    \/ CloseInput(t)
    \/ OpenOutput(t)
    \/ WriteBlock(t)
    \/ BlocksWritten(t)
    \/ WriteVector(t)
    \/ ComputeAndWriteAgain(t)
    \/ ComputeOnly(t)
    \/ ExitRing(t)
    \/ NoDescriptor(t)

Main == Spawn \/ Join

Next ==
    \/ Main
    \/ SpawnFails
    \/ \E t \in Threads : Step(t) \/ Throws(t)

Spec == Init /\ [][Next]_vars

\* The operating system runs every thread, and the disk answers.
Fairness ==
    /\ WF_vars(Main)
    /\ \A t \in 0 .. 2 * Copies + PreadMigrants : WF_vars(t \in Threads /\ Step(t))

FairSpec == Spec /\ Fairness

------------------------------------------------------------------------------
(* Properties.                                                              *)

\* No benchmark has a file that does not fit in an int.
Fits(f) == size[f] <= IntMax

\* The array is filled to its end and never beyond, for every file of less than
\* 2 GiB: the number of blocks computed from the size is the number of turns
\* that the loop makes (multi-threaded.cc:74-91, multi-threaded-iouring.cc:70-86,
\* main.cc:44-64).
IoVecsFit ==
    /\ TypeOK
    /\ \A t \in Threads :
          (job[t] # Cpu /\ Fits(File(t))) =>
              /\ place[t] = "fill" => current[t] <= blocks[t]
              /\ place[t] \in {"readv", "closeIn"} => current[t] = blocks[t]

\* When main returns, the output of every file is a complete copy, although all
\* the threads of a benchmark may empty and write the same one at any time
\* (multi-threaded-iouring.cc:129 and :262-269), unless a read or a write of
\* one of them failed.
CopiesAreComplete ==
    main = "returned" =>
        \A f \in Files \ failed :
            Fits(f) => content[f] = 0 .. IoVecs(size[f]) - 1

\* No thread ends the process for want of a descriptor, if there is one for each
\* chain with pread, two with io_uring, which has rings too: each thread closes
\* its input before it opens its output, which nobody ever closes
\* (multi-threaded.cc:94 and :118, multi-threaded-iouring.cc:105, :127 and :129).
DescriptorsSuffice ==
    process = "noDescriptor" =>
        limit < Cardinality({t \in Threads : job[t] # Cpu})
                * (IF program = "io_uring" THEN 2 ELSE 1)

\* main returns, unless the process ends before; its threads wait for nobody
\* (multi-threaded-iouring.cc:271-273).
MainReturns == <>(process # "running")
==============================================================================
