------------------------------- MODULE IoChain -------------------------------
(***************************************************************************)
(* The chains of file tasks: how main.cc builds them, what the tasks of    *)
(* filetasks.cc and cputask.cc do to their chain when they are executed,   *)
(* and how FileScheduler of filescheduler.cc takes them through the ring.  *)
(*                                                                         *)
(* A chain copies a file: it opens and reads one, closes it, opens another *)
(* one, writes it Length times with some computation in between, and       *)
(* closes that.  All its tasks work on one FileTaskInput; the chains share *)
(* the file descriptors of the process, and two chains with the same file  *)
(* number also the file they write (threadMigrationBenchmark gives all its *)
(* chains number 0).  Of what is in memory and in a file, the model keeps  *)
(* whether it is a copy of the file that is read; that the iovecs of a     *)
(* chain cover its file, if it fits in an int, is shown for FileBlocks.    *)
(* Which scheduler a task is on does not matter here, only that tasks of   *)
(* different chains are executed in any order: an action executes one task *)
(* and submits the next one, and makes at most one system call.            *)
(***************************************************************************)
EXTENDS Integers, Sequences, FiniteSets

CONSTANTS
    Chains,   \* the chains that main submits
    FileNo,   \* file_no of each chain
    Length,   \* length, how often the second file is written
    Fds,      \* the file descriptors that are free at the start
    NoFd,
    NoTask

ASSUME ChainAssumption ==
    /\ FileNo \in [Chains -> Nat]
    /\ Length \in Nat \ {0}
    /\ Fds \subseteq Nat
    /\ NoFd \notin Fds
    /\ NoTask \notin [step : Nat, async : BOOLEAN]

\* The tasks of a chain are numbered as main allocates them; FirstWrite + 2 * i
\* and FirstWrite + 2 * i + 1 are fww and cpu_task in turn i of its loop.
FirstWrite == 4
LastStep == FirstWrite + 2 * Length
Steps == 0 .. LastStep
LoopSteps == FirstWrite .. LastStep - 1

KindOf(i) ==
    CASE i = 0 -> "open"
      [] i = 1 -> "read"
      [] i = 2 -> "close"
      [] i = 3 -> "open"
      [] i \in LoopSteps /\ (i - FirstWrite) % 2 = 0 -> "write"
      [] i \in LoopSteps /\ (i - FirstWrite) % 2 = 1 -> "cpu"
      [] i = LastStep -> "close"

\* A task is a step of a chain, or the asynchronous task that a read or write
\* creates when it is executed.  Without the chain:
Task == [step : Steps, async : BOOLEAN]
Main(i) == [step |-> i, async |-> FALSE]
AsyncOf(i) == [step |-> i, async |-> TRUE]

VARIABLES
    next,     \* next_tasks of each task of a chain, which has one at most
    current,  \* the task of a chain that was submitted last
    place,    \* where that task is
    stopped,  \* the chains on schedulers whose thread has ended
    input,    \* its input: what the void pointer points to
    fileFd,   \* file_fd of the chain's FileTaskInput
    ringFd,   \* the descriptor in the chain's request to the kernel
    owner,    \* the file that a descriptor stands for
    log,      \* what was done to the files so far
    buffers,  \* whether the iovecs of a chain hold the file it reads
    copied,   \* whether an output file is a copy of the file that is read
    short     \* the file numbers with a read or write that transferred too little

data == <<buffers, copied, short>>
chainVars == <<next, current, place, stopped, input, fileFd, ringFd, owner, log, data>>

Inputs == {"null", "openInput", "openInputExtension", "fileInput"}
Numbers == {FileNo[c] : c \in Chains}
Files == Chains \X {"in", "out"}
Free == <<>>

ChainTypeOK ==
    /\ next \in [Chains -> [Task -> Task \cup {NoTask}]]
    /\ current \in [Chains -> Task]
    /\ place \in [Chains -> {"queued", "ring", "complete", "failed", "finished"}]
    /\ stopped \subseteq Chains
    /\ input \in [Chains -> Inputs]
    /\ fileFd \in [Chains -> Fds \cup {NoFd}]
    /\ ringFd \in [Chains -> Fds \cup {NoFd}]
    /\ owner \in [Fds -> Files \cup {Free}]
    /\ log \in [Chains -> Seq({"open", "read", "write", "cpu", "close"})]
    /\ buffers \in [Chains -> BOOLEAN]
    /\ copied \in [Numbers -> BOOLEAN]
    /\ short \subseteq Numbers

------------------------------------------------------------------------------
(* generateIoTaskChain.                                                     *)

\* fro -> frr -> frc -> fwo -> fww.
Head4 == [t \in Task |-> IF ~t.async /\ t.step < FirstWrite THEN Main(t.step + 1)
                                                            ELSE NoTask]

\* The write is linked to its fork, and the computation left out.
OneTurnWriteOnly(links, fww) ==
    [links EXCEPT ![Main(fww)] = Main(fww + 2),
                  ![Main(fww + 2)] = Main(fww + 2),
                  ![Main(fww + 3)] = links[Main(fww + 1)],
                  ![Main(fww + 1)] = Main(fww + 2)]

\* One turn of the loop; fork copies the next tasks a task has at that time.
OneTurn(links, fww) ==
    [links EXCEPT ![Main(fww)] = Main(fww + 1),
                  ![Main(fww + 2)] = Main(fww + 1),
                  ![Main(fww + 3)] = links[Main(fww + 1)],
                  ![Main(fww + 1)] = Main(fww + 2)]

Built ==
    LET loop[i \in 0 .. Length - 1] ==
          IF i = 0 THEN Head4
          ELSE OneTurn(loop[i - 1], FirstWrite + 2 * (i - 1))
    IN [loop[Length - 1] EXCEPT ![Main(FirstWrite + 2 * (Length - 1))] = Main(LastStep),
                                ![Main(LastStep)] = NoTask]

ChainInit ==
    /\ next = [c \in Chains |-> Built]
    /\ current = [c \in Chains |-> Main(0)]
    /\ place = [c \in Chains |-> "queued"]
    /\ stopped = {}
    /\ input = [c \in Chains |-> "openInput"]
    /\ fileFd = [c \in Chains |-> NoFd]
    /\ ringFd = [c \in Chains |-> NoFd]
    /\ owner = [f \in Fds |-> Free]
    /\ log = [c \in Chains |-> <<>>]
    /\ buffers = [c \in Chains |-> FALSE]
    /\ copied = [n \in Numbers |-> FALSE]
    /\ short = {}

------------------------------------------------------------------------------

Ready(c, kind) ==
    /\ place[c] = "queued"
    /\ c \notin stopped
    /\ ~current[c].async
    /\ KindOf(current[c].step) = kind

\* The task of chain c was executed with that result: its next task gets the
\* result as its input and is submitted.
Continue(c, result) ==
    LET n == next[c][current[c]] IN
    IF n = NoTask
    THEN /\ place' = [place EXCEPT ![c] = "finished"]
         /\ UNCHANGED <<current, input>>
    ELSE /\ current' = [current EXCEPT ![c] = n]
         /\ input' = [input EXCEPT ![c] = result]
         /\ UNCHANGED place

Logged(c, what) == log' = [log EXCEPT ![c] = Append(@, what)]

\* An exception ends the thread of the scheduler, and with it all the chains
\* that are there.
EndsThread(c) == \E others \in SUBSET Chains : stopped' = stopped \cup {c} \cup others

Throws(c) ==
    /\ place' = [place EXCEPT ![c] = "failed"]
    /\ EndsThread(c)
    /\ UNCHANGED <<next, current, input, fileFd, ringFd, owner, log, data>>

FreeFds == {f \in Fds : owner[f] = Free}

\* O_TRUNC.
Emptied(c) == [copied EXCEPT ![FileNo[c]] = FALSE]

\* The FileTaskInput keeps the descriptor of the first file.
OpenKeepsFd(c) ==
    \E f \in FreeFds :
        /\ Ready(c, "open")
        /\ \A g \in FreeFds : f <= g
        /\ owner' = [owner EXCEPT ![f] = <<c, IF current[c].step = 0 THEN "in" ELSE "out">>]
        /\ fileFd' = [fileFd EXCEPT ![c] = IF @ = NoFd THEN f ELSE @]
        /\ Continue(c, "fileInput")
        /\ Logged(c, "open")
        /\ copied' = IF current[c].step = 0 THEN copied ELSE Emptied(c)
        /\ UNCHANGED <<next, ringFd, buffers, short, stopped>>

\* FileOpenTask::process, with the functions that main gives to fro and fwo:
\* both leave the descriptor in the chain's FileTaskInput and return that.
Open(c) ==
    \E f \in FreeFds :
        /\ Ready(c, "open")
        /\ \A g \in FreeFds : f <= g
        /\ owner' = [owner EXCEPT ![f] = <<c, IF current[c].step = 0 THEN "in" ELSE "out">>]
        /\ fileFd' = [fileFd EXCEPT ![c] = f]
        /\ Continue(c, "fileInput")
        /\ Logged(c, "open")
        /\ copied' = IF current[c].step = 0 THEN copied ELSE Emptied(c)
        /\ UNCHANGED <<next, ringFd, buffers, short, stopped>>

\* There is no such file, or no descriptor left.
OpenFails(c) == Ready(c, "open") /\ Throws(c)

\* The file to read is open, but there is no memory for its contents.
BuffersFail(c) ==
    \E f \in FreeFds :
        /\ Ready(c, "open") /\ current[c].step = 0
        /\ \A g \in FreeFds : f <= g
        /\ owner' = [owner EXCEPT ![f] = <<c, "in">>]
        /\ place' = [place EXCEPT ![c] = "failed"]
        /\ EndsThread(c)
        /\ Logged(c, "open")
        /\ UNCHANGED <<next, current, input, fileFd, ringFd, data>>

\* The new asynchronous task is put in the place of the next tasks, which it
\* does not get.
StartIoCutsChain(c) ==
    LET t == current[c]
        a == AsyncOf(t.step) IN
    /\ Ready(c, "read") \/ Ready(c, "write")
    /\ next' = [next EXCEPT ![c][t] = a]
    /\ current' = [current EXCEPT ![c] = a]
    /\ ringFd' = [ringFd EXCEPT ![c] = fileFd[c]]
    /\ place' = [place EXCEPT ![c] = "ring"]
    /\ UNCHANGED <<input, fileFd, owner, log, data, stopped>>

\* FileReadTask::process and FileWriteTask::process put an asynchronous task
\* between themselves and their next tasks and return their own input; it is
\* submitted in mode ASYNC_FILE: FileScheduler::submit.
StartIo(c) ==
    LET t == current[c]
        a == AsyncOf(t.step) IN
    /\ Ready(c, "read") \/ Ready(c, "write")
    /\ next' = [next EXCEPT ![c][a] = next[c][t], ![c][t] = a]
    /\ current' = [current EXCEPT ![c] = a]
    /\ ringFd' = [ringFd EXCEPT ![c] = fileFd[c]]
    /\ place' = [place EXCEPT ![c] = "ring"]
    /\ UNCHANGED <<input, fileFd, owner, log, data, stopped>>

\* What a write from these buffers leaves of a file: nothing that is right is
\* overwritten from buffers that hold the same, and what is wrong may lie
\* beyond the end of a short write.
WriteOutcomes(full, right, was) ==
    IF right THEN {full \/ was} ELSE {FALSE, was /\ ~full}

\* The kernel transfers all the iovecs have room for, or less of it.
IoCompletes(c) ==
    \E full \in BOOLEAN :
        /\ place[c] = "ring"
        /\ place' = [place EXCEPT ![c] = "complete"]
        /\ Logged(c, KindOf(current[c].step))
        /\ IF KindOf(current[c].step) = "read"
           THEN buffers' = [buffers EXCEPT ![c] = full] /\ UNCHANGED copied
           ELSE /\ \E right \in WriteOutcomes(full, buffers[c], copied[FileNo[c]]) :
                      copied' = [copied EXCEPT ![FileNo[c]] = right]
                /\ UNCHANGED buffers
        /\ short' = IF full THEN short ELSE short \cup {FileNo[c]}
        /\ UNCHANGED <<next, current, input, fileFd, ringFd, owner, stopped>>

\* A request is refused, or its result negative.
IoFails(c) == place[c] = "ring" /\ c \notin stopped /\ Throws(c)

\* The kernel has not done it yet.
CollectEarly(c) ==
    /\ place[c] \in {"ring", "complete"} /\ c \notin stopped
    /\ place' = [place EXCEPT ![c] = "queued"]
    /\ ringFd' = [ringFd EXCEPT ![c] = NoFd]
    /\ UNCHANGED <<next, current, input, fileFd, owner, log, data, stopped>>

\* FileScheduler::process_completed: the task is submitted again, now in mode
\* SYNC.
CollectIo(c) ==
    /\ place[c] = "complete" /\ c \notin stopped
    /\ place' = [place EXCEPT ![c] = "queued"]
    /\ ringFd' = [ringFd EXCEPT ![c] = NoFd]
    /\ UNCHANGED <<next, current, input, fileFd, owner, log, data, stopped>>

\* AsyncFileReadTask::process and AsyncFileWriteTask::process: the function
\* returns the FileTaskInput it is given.
FinishIo(c) ==
    /\ place[c] = "queued" /\ c \notin stopped
    /\ current[c].async
    /\ Continue(c, input[c])
    /\ UNCHANGED <<next, fileFd, ringFd, owner, log, data, stopped>>

\* The descriptor is not closed.
CloseNothing(c) ==
    /\ Ready(c, "close")
    /\ Continue(c, "openInputExtension")
    /\ Logged(c, "close")
    /\ UNCHANGED <<next, fileFd, ringFd, owner, data, stopped>>

\* The function returns the input, not a new one for the next file.
CloseForwardsInput(c) ==
    /\ Ready(c, "close")
    /\ owner' = [owner EXCEPT ![fileFd[c]] = Free]
    /\ Continue(c, input[c])
    /\ Logged(c, "close")
    /\ UNCHANGED <<next, fileFd, ringFd, data, stopped>>

\* FileCloseTask::process, with the function of frc and its fork fwc.
Close(c) ==
    /\ Ready(c, "close")
    /\ owner' = [owner EXCEPT ![fileFd[c]] = Free]
    /\ Continue(c, "openInputExtension")
    /\ Logged(c, "close")
    /\ UNCHANGED <<next, fileFd, ringFd, data, stopped>>

\* The file could not be written back; its descriptor is free all the same.
CloseFails(c) ==
    /\ Ready(c, "close")
    /\ owner' = [owner EXCEPT ![fileFd[c]] = Free]
    /\ place' = [place EXCEPT ![c] = "failed"]
    /\ EndsThread(c)
    /\ UNCHANGED <<next, current, input, fileFd, ringFd, log, data>>

\* CpuTask::process; the function returns its input.
Compute(c) ==
    /\ Ready(c, "cpu")
    /\ Continue(c, input[c])
    /\ Logged(c, "cpu")
    /\ UNCHANGED <<next, fileFd, ringFd, owner, data, stopped>>

Step(c) ==
    \/ Open(c)
    \/ StartIo(c)
    \/ IoCompletes(c)
    \/ CollectIo(c)
    \/ FinishIo(c)
    \/ Close(c)
    \/ Compute(c)

Fails(c) == OpenFails(c) \/ BuffersFail(c) \/ IoFails(c) \/ CloseFails(c)

ChainNext == \E c \in Chains : Step(c) \/ Fails(c)

ChainSpec == ChainInit /\ [][ChainNext]_chainVars

\* The kernel answers and the schedulers execute what is queued.
FairChainSpec == ChainSpec /\ \A c \in Chains : WF_chainVars(Step(c))

------------------------------------------------------------------------------
(* Properties.                                                              *)

\* The input that each process casts its void pointer to.
Expected(t) ==
    CASE t.async                                     -> {"fileInput"}
      [] ~t.async /\ t.step = 0                      -> {"openInput"}
      [] ~t.async /\ t.step = 3                      -> {"openInputExtension"}
      [] ~t.async /\ KindOf(t.step) = "cpu"          -> Inputs
      [] ~t.async /\ KindOf(t.step) \in {"read", "write"} -> {"fileInput"}
      [] ~t.async /\ KindOf(t.step) = "close"        -> {"fileInput"}

\* No task is executed or sent to the kernel with an input of another type
\* than the one its process casts it to, through all the tasks that pass it on
\* unseen (the static_casts of filetasks.cc:44, :132, :159 and :177,
\* filescheduler.cc:25 and main.cc).
InputsAreOfTheirTypes ==
    /\ ChainTypeOK
    /\ \A c \in Chains :
          place[c] \in {"queued", "ring", "complete"} => input[c] \in Expected(current[c])

\* A read or write in the ring is of the file of its own chain: no descriptor
\* in a request is closed before the request is done, and taken over by
\* another chain (filescheduler.cc:27 and :40, filetasks.cc:132).
RequestsAreOfOwnFiles ==
    \A c \in Chains :
        place[c] \in {"ring", "complete"} =>
            /\ ringFd[c] # NoFd
            /\ owner[ringFd[c]] = <<c, IF current[c].step = 1 THEN "in" ELSE "out">>

\* A chain never has two files open, and one that finished has none: as many
\* descriptors as there are chains are enough (main.cc:112-126).
FilesAreClosed ==
    \A c \in Chains :
        LET open == {f \in Fds : owner[f] \in {<<c, "in">>, <<c, "out">>}} IN
        /\ Cardinality(open) <= 1
        /\ place[c] = "finished" => open = {}

\* What a chain of that length is for.
Intended ==
    <<"open", "read", "close", "open">>
    \o [i \in 1 .. 2 * Length - 1 |-> IF i % 2 = 1 THEN "write" ELSE "cpu"]
    \o <<"close">>

\* The tasks of a chain work on the files in that order, one after the other,
\* although half of the tasks are created, and linked into the chain, while it
\* is executed (filetasks.cc:72-81 and :101-110, main.cc:141-151).
FilesAreCopiedInOrder ==
    \A c \in Chains :
        /\ Len(log[c]) <= Len(Intended)
        /\ log[c] = SubSeq(Intended, 1, Len(log[c]))

\* When a chain finishes, the file it wrote is a copy of the one it read,
\* though other chains may write it too: every transfer is checked for an
\* error only, so it is one unless some transfer was short
\* (filescheduler.cc:56); and unless another chain with the same number has
\* just emptied the file and has yet to write it (main.cc:113 and :365).
CopiesAreComplete ==
    \A c \in Chains :
        place[c] = "finished" =>
            \/ copied[FileNo[c]]
            \/ FileNo[c] \in short
            \/ \E d \in Chains \ {c} :
                  /\ FileNo[d] = FileNo[c]
                  /\ Len(log[d]) = FirstWrite

\* A chain finishes, after all it is for was done, unless an exception of its
\* own or of a chain on the same scheduler stops it (scheduler.cc:163-171,
\* coordinator.cc:124-134).
ChainsFinish ==
    \A c \in Chains :
        <>(c \in stopped \/ (place[c] = "finished" /\ log[c] = Intended))
==============================================================================
