---------------------------- MODULE ShutdownProofs ----------------------------
(***************************************************************************)
(* Proof that the handler of SIGINT leaves every sample in the files, for  *)
(* any number of schedulers, samples and signals, and wherever the threads *)
(* are when the signals come.                                              *)
(***************************************************************************)
EXTENDS Shutdown, TLAPS

------------------------------------------------------------------------------
(* Types, and where the handler is.                                         *)

\* The handler is at a scheduler while it writes samples, and has passed them
\* all when it calls std::exit; a thread that records a sample has room for it.
PlacesInv ==
    /\ \A t \in Threads :
          /\ doing[t] = "own" => index[t] = 0
          /\ doing[t] = "dump" => index[t] < N /\ metrics
          /\ doing[t] \in {"exit", "destroy"} => index[t] = N
    /\ \A s \in Schedulers : at[s] = "record" => samples[s] < MaxSamples

TypeInv == TypeOK /\ PlacesInv

LEMMA Sets ==
  /\ N \in Nat \ {0} /\ MaxSamples \in Nat /\ MaxSignals \in Nat
  /\ Schedulers \subseteq Threads /\ Main \in Threads /\ Daemon \in Threads
BY ShutdownAssumption DEF Threads

\* A scheduler that the handler comes to, and the next one.
LEMMA IndexRange ==
  ASSUME NEW i \in 0 .. N, i < N
  PROVE  i \in Schedulers /\ i + 1 \in 0 .. N
BY ShutdownAssumption DEF Schedulers

LEMMA InitTypes == Init => TypeInv
<1> SUFFICES ASSUME Init PROVE TypeInv
  OBVIOUS
<1>1. /\ at \in [Threads -> {"unborn", "setup"}]
      /\ \A t \in Threads : doing[t] = "own" /\ index[t] = 0
  BY DEF Init
<1>2. metrics \in BOOLEAN /\ exiting \in BOOLEAN
  BY DEF Init
<1>3. stopFlag \in [Schedulers -> BOOLEAN]
  BY DEF Init
<1>4. count \in 0 .. N /\ index \in [Threads -> 0 .. N] /\ signals \in 0 .. MaxSignals
  BY Sets DEF Init
<1>5. samples \in [Schedulers -> 0 .. MaxSamples] /\ file \in [Schedulers -> 0 .. MaxSamples]
  BY Sets DEF Init
<1>6. TypeOK BY <1>1, <1>2, <1>3, <1>4, <1>5 DEF Init, TypeOK
<1>7. PlacesInv BY <1>1, Sets DEF PlacesInv
<1> QED BY <1>6, <1>7 DEF TypeInv

LEMMA NextTypes == TypeInv /\ [Next]_vars => TypeInv'
<1> SUFFICES ASSUME TypeInv, [Next]_vars PROVE TypeInv'
  OBVIOUS
<1> USE Sets DEF TypeInv, TypeOK, PlacesInv, handlers, records
<1>1. CASE UNCHANGED vars BY <1>1 DEF vars
<1>2. CASE Register BY <1>2 DEF Register, Moves
<1>3. CASE Spawn BY <1>3 DEF Spawn
<1>4. ASSUME NEW s \in Schedulers, SchedulerStep(s) PROVE TypeInv'
  <2>1. CASE CheckFlag(s) BY <2>1 DEF CheckFlag, Moves
  <2>2. CASE RunNothing(s) BY <2>2 DEF RunNothing, Moves
  <2>3. CASE RunTask(s) BY <2>3 DEF RunTask, Moves
  <2>4. CASE Record(s) BY <2>4 DEF Record, Moves
  <2> QED BY <1>4, <2>1, <2>2, <2>3, <2>4 DEF SchedulerStep
<1>5. CASE DaemonMoves BY <1>5 DEF DaemonMoves, Moves
<1>6. CASE Killed BY <1>6 DEF Killed
<1>7. ASSUME NEW t \in Threads, Deliver(t) \/ HandlerStep(t) \/ ExitAtOnce(t) PROVE TypeInv'
  <2>1. CASE Deliver(t) BY <2>1 DEF Deliver, Receives
  <2>2. CASE StopScheduler(t)
    <3>1. index[t] \in 0 .. N /\ index[t] < N BY <2>2 DEF StopScheduler
    <3>2. index[t] \in Schedulers /\ index[t] + 1 \in 0 .. N
      BY <3>1, IndexRange
    <3>3. CASE metrics BY <2>2, <3>2, <3>3 DEF StopScheduler, Handles, BeginDump
    <3>4. CASE ~metrics BY <2>2, <3>2, <3>4 DEF StopScheduler, Handles, Advance
    <3> QED BY <3>3, <3>4
  <2>3. CASE EndDump(t)
    <3>1. index[t] \in Schedulers /\ index[t] + 1 \in 0 .. N
      <4>1. index[t] \in 0 .. N /\ index[t] < N BY <2>3 DEF EndDump, Handles
      <4> QED BY <4>1, IndexRange
    <3>2. samples[index[t]] \in 0 .. MaxSamples BY <3>1
    <3>3. PICK written \in 0 .. samples[index[t]] : file' = [file EXCEPT ![index[t]] = written]
      <4>1. CASE index[t] \in racing BY <2>3, <4>1 DEF EndDump
      <4>2. CASE index[t] \notin racing
        <5>1. file' = [file EXCEPT ![index[t]] = samples[index[t]]]
          BY <2>3, <4>2 DEF EndDump
        <5>2. samples[index[t]] \in 0 .. samples[index[t]] BY <3>2
        <5> QED BY <5>1, <5>2
      <4> QED BY <4>1, <4>2
    <3>4. written \in 0 .. MaxSamples BY <3>2, <3>3
    <3> QED BY <2>3, <3>1, <3>3, <3>4 DEF EndDump, Handles, Advance
  <2>4. CASE CallExit(t) BY <2>4 DEF CallExit, Handles
  <2>5. CASE Destroy(t)
    <3>1. count' = count - 1 /\ count' \in 0 .. N /\ count' \in Schedulers
      BY <2>5 DEF Destroy, Schedulers
    <3>2. racing' \subseteq Schedulers BY <2>5, <3>1 DEF Destroy
    <3> QED BY <2>5, <3>1, <3>2 DEF Destroy, Handles
  <2>6. CASE Exit(t) BY <2>6 DEF Exit, EndsProcess
  <2>7. CASE ExitAtOnce(t) BY <2>7 DEF ExitAtOnce, EndsProcess
  <2> QED BY <1>7, <2>1, <2>2, <2>3, <2>4, <2>5, <2>6, <2>7 DEF HandlerStep
<1>8. CASE Crash BY <1>8 DEF Crash
<1> QED BY <1>1, <1>2, <1>3, <1>4, <1>5, <1>6, <1>7, <1>8 DEF Next

------------------------------------------------------------------------------
(* The samples.                                                             *)

\* The handler has passed a scheduler on some thread.
Passed(s) == \E t \in Threads : index[t] > s

\* The list is read by nobody, and was read whole.
Settled(s) == Passed(s) /\ s \notin racing /\ ~InDump(s)

\* A scheduler that was passed, or whose samples are being written, was told to
\* stop.
FlagInv == \A s \in Schedulers : Passed(s) \/ InDump(s) => stopFlag[s]

\* Nothing is recorded, and no scheduler destroyed, while its samples are
\* written, unless that counts as a race.
DumpInv ==
    \A s \in Schedulers :
        InDump(s) /\ s \notin racing => at[s] # "record" /\ s < count

\* After that, only the step that a scheduler was in can add a sample.
KeptInv ==
    \A s \in Schedulers :
        metrics /\ Settled(s) =>
            /\ file[s] >= samples[s] - 1
            /\ s < count /\ at[s] \in {"work", "record"} => file[s] >= samples[s]

\* The process exits from a handler that has passed all schedulers.
ExitInv == process = "exited" => \E t \in Threads : index[t] = N

SamplesInv == TypeInv /\ FlagInv /\ DumpInv /\ KeptInv /\ ExitInv

LEMMA InitSamples == Init => SamplesInv
<1> SUFFICES ASSUME Init PROVE SamplesInv
  OBVIOUS
<1>1. \A s \in Schedulers : ~Passed(s) /\ ~InDump(s)
  BY Sets DEF Init, Passed, InDump, Schedulers
<1> QED BY <1>1, InitTypes DEF Init, SamplesInv, FlagInv, DumpInv, KeptInv, ExitInv, Settled

\* Steps that leave the handler, the samples and the schedulers alone, but for
\* one that leaves its loop's body or does not exist yet.
Quiet ==
    /\ UNCHANGED <<metrics, handlers, count, stopFlag, records>>
    /\ \A s \in Schedulers : at'[s] # at[s] => at'[s] \notin {"work", "record"}

LEMMA QuietKeeps ==
  ASSUME SamplesInv, TypeInv', Quiet, ExitInv'
  PROVE  SamplesInv'
<1> USE DEF Quiet, handlers, records, InDump, Passed, Settled, SamplesInv
<1>1. FlagInv' BY DEF FlagInv
<1>2. DumpInv' BY DEF DumpInv
<1>3. KeptInv' BY DEF KeptInv
<1> QED BY <1>1, <1>2, <1>3

LEMMA SchedulersKeep ==
  ASSUME SamplesInv, TypeInv', NEW s \in Schedulers, SchedulerStep(s)
  PROVE  SamplesInv'
<1>1. UNCHANGED <<metrics, handlers, count, stopFlag, file, process>>
  BY DEF SchedulerStep, CheckFlag, RunNothing, RunTask, Record, records
<1>2. \A r \in Schedulers : (InDump(r) <=> InDump(r)') /\ (Passed(r) <=> Passed(r)')
  BY <1>1 DEF InDump, Passed, handlers
<1>3. FlagInv' /\ ExitInv'
  BY <1>1, <1>2 DEF SamplesInv, FlagInv, ExitInv, handlers
<1>4. at \in [Threads -> {"unborn", "setup", "start", "join", "loop", "work", "record",
                          "sleep", "round", "ended"}] /\ s \in Threads
  BY Sets DEF SamplesInv, TypeInv, TypeOK
<1>5. CASE CheckFlag(s)
  <2>1. UNCHANGED <<samples, racing>> /\ \A r \in Schedulers \ {s} : at'[r] = at[r]
    BY <1>4, <1>5 DEF CheckFlag, Moves, records
  <2>2. at[s] = "loop" /\ at'[s] \in {"ended", "work"}
        /\ (s < count /\ stopFlag[s] => at'[s] = "ended")
    BY <1>4, <1>5 DEF CheckFlag, Moves
  <2>3. DumpInv' BY <1>1, <1>2, <2>1, <2>2 DEF SamplesInv, DumpInv
  <2>4. KeptInv' BY <1>1, <1>2, <2>1, <2>2 DEF SamplesInv, KeptInv, Settled, FlagInv
  <2> QED BY <1>3, <2>3, <2>4 DEF SamplesInv
<1>6. CASE RunNothing(s)
  <2>1. Quiet BY <1>4, <1>6 DEF RunNothing, Moves, Quiet
  <2> QED BY <1>3, <2>1, QuietKeeps
<1>7. CASE RunTask(s)
  <2>1. UNCHANGED samples /\ \A r \in Schedulers \ {s} : at'[r] = at[r]
    BY <1>4, <1>7 DEF RunTask, Moves
  <2>2. at[s] = "work" /\ at'[s] = "record"
        /\ racing' = IF InDump(s) THEN racing \cup {s} ELSE racing
    BY <1>4, <1>7 DEF RunTask, Moves
  <2>3. DumpInv' BY <1>1, <1>2, <2>1, <2>2 DEF SamplesInv, DumpInv
  <2>4. KeptInv' BY <1>1, <1>2, <2>1, <2>2 DEF SamplesInv, KeptInv, Settled
  <2> QED BY <1>3, <2>3, <2>4 DEF SamplesInv
<1>8. CASE Record(s)
  <2>1. UNCHANGED racing /\ \A r \in Schedulers \ {s} : at'[r] = at[r]
    BY <1>4, <1>8 DEF Record, Moves
  <2>2. at[s] = "record" /\ at'[s] = "loop"
        /\ samples' = IF s < count THEN [samples EXCEPT ![s] = @ + 1] ELSE samples
    BY <1>4, <1>8 DEF Record, Moves
  <2>3. DumpInv' BY <1>1, <1>2, <2>1, <2>2 DEF SamplesInv, DumpInv
  <2>4. samples \in [Schedulers -> Nat] /\ file \in [Schedulers -> Nat]
    BY Sets DEF SamplesInv, TypeInv, TypeOK
  <2>5. KeptInv' BY <1>1, <1>2, <2>1, <2>2, <2>4 DEF SamplesInv, KeptInv, Settled
  <2> QED BY <1>3, <2>3, <2>5 DEF SamplesInv
<1> QED BY <1>5, <1>6, <1>7, <1>8 DEF SchedulerStep

\* The handler begins, or goes on to std::exit.
LEMMA HandlerKeeps ==
  ASSUME SamplesInv, TypeInv', UNCHANGED <<metrics, at, count, stopFlag, records, process>>,
         NEW t \in Threads, doing[t] \in {"own", "stop"}, doing'[t] # "dump",
         \A u \in Threads \ {t} : doing'[u] = doing[u],
         \A u \in Threads : index'[u] = index[u]
  PROVE  SamplesInv'
<1>1. \A s \in Schedulers : (InDump(s) <=> InDump(s)') /\ (Passed(s) <=> Passed(s)')
  BY DEF InDump, Passed
<1>2. UNCHANGED <<samples, file, racing>> BY DEF records
<1>3. FlagInv' BY <1>1 DEF SamplesInv, FlagInv
<1>4. DumpInv' BY <1>1, <1>2 DEF SamplesInv, DumpInv
<1>5. KeptInv' BY <1>1, <1>2 DEF SamplesInv, KeptInv, Settled
<1>6. ExitInv' BY DEF SamplesInv, ExitInv
<1> QED BY <1>3, <1>4, <1>5, <1>6 DEF SamplesInv

LEMMA StopKeeps ==
  ASSUME SamplesInv, TypeInv', NEW t \in Threads, StopScheduler(t)
  PROVE  SamplesInv'
<1> DEFINE s == index[t]
<1>1. /\ doing[t] = "stop" /\ s \in 0 .. N /\ s < N
      /\ UNCHANGED <<metrics, at, count, process>>
      /\ stopFlag' = [stopFlag EXCEPT ![s] = TRUE]
  BY DEF StopScheduler, Handles, SamplesInv, TypeInv, TypeOK
<1>2. s \in Schedulers BY <1>1, IndexRange
<1>3. /\ doing \in [Threads -> {"own", "stop", "dump", "exit", "destroy"}]
      /\ index \in [Threads -> 0 .. N]
      /\ stopFlag \in [Schedulers -> BOOLEAN]
      /\ file \in [Schedulers -> 0 .. MaxSamples]
  BY DEF SamplesInv, TypeInv, TypeOK
<1>4. stopFlag'[s] = TRUE /\ \A r \in Schedulers \ {s} : stopFlag'[r] = stopFlag[r]
  BY <1>1, <1>2, <1>3
<1>5. CASE metrics
  <2>1. /\ index' = index /\ samples' = samples
        /\ doing' = [doing EXCEPT ![t] = "dump"]
        /\ file' = [file EXCEPT ![s] = 0]
        /\ racing' = IF at[s] = "record" \/ s >= count THEN racing \cup {s} ELSE racing
    BY <1>5 DEF StopScheduler, BeginDump
  <2>2. \A r \in Schedulers :
          /\ Passed(r)' <=> Passed(r)
          /\ InDump(r)' <=> InDump(r) \/ r = s
    BY <1>1, <1>3, <2>1 DEF Passed, InDump
  <2>3. FlagInv' BY <1>4, <2>2 DEF SamplesInv, FlagInv
  <2>4. count \in Nat BY Sets DEF SamplesInv, TypeInv, TypeOK
  <2>5. DumpInv' BY <1>1, <1>2, <2>1, <2>2, <2>4 DEF SamplesInv, DumpInv
  <2>6. \A r \in Schedulers : Settled(r)' => r # s /\ Settled(r) /\ file'[r] = file[r]
    BY <1>2, <1>3, <2>1, <2>2 DEF Settled
  <2>7. KeptInv' BY <1>1, <2>1, <2>6 DEF SamplesInv, KeptInv
  <2>8. ExitInv' BY <1>1, <2>1 DEF SamplesInv, ExitInv
  <2> QED BY <2>3, <2>5, <2>7, <2>8 DEF SamplesInv
<1>6. CASE ~metrics
  <2>1. /\ doing' = [doing EXCEPT ![t] = "stop"]
        /\ index' = [index EXCEPT ![t] = s + 1]
    BY <1>6 DEF StopScheduler, Advance
  <2>2. \A u \in Threads : doing[u] # "dump" /\ doing'[u] # "dump"
    BY <1>1, <1>3, <1>6, <2>1 DEF SamplesInv, TypeInv, PlacesInv
  <2>3. \A r \in Schedulers : ~InDump(r)' /\ (Passed(r)' => Passed(r) \/ r = s)
    BY <1>1, <1>3, <2>1, <2>2 DEF InDump, Passed, Schedulers
  <2>4. FlagInv' BY <1>4, <2>3 DEF SamplesInv, FlagInv
  <2>5. DumpInv' BY <2>3 DEF DumpInv
  <2>6. KeptInv' BY <1>1, <1>6 DEF KeptInv
  <2>7. ExitInv'
    BY <1>1 DEF ExitInv, StopScheduler, Handles
  <2> QED BY <2>4, <2>5, <2>6, <2>7 DEF SamplesInv
<1> QED BY <1>5, <1>6

LEMMA EndDumpKeeps ==
  ASSUME SamplesInv, TypeInv', NEW t \in Threads, EndDump(t)
  PROVE  SamplesInv'
<1> DEFINE s == index[t]
<1>1. /\ doing[t] = "dump" /\ s \in 0 .. N /\ s < N /\ process = "running"
      /\ UNCHANGED <<metrics, at, count, stopFlag, samples, racing, process>>
      /\ doing' = [doing EXCEPT ![t] = "stop"]
      /\ index' = [index EXCEPT ![t] = s + 1]
  BY DEF EndDump, Handles, Advance, SamplesInv, TypeInv, TypeOK, PlacesInv
<1>2. s \in Schedulers BY <1>1, IndexRange
<1>3. /\ doing \in [Threads -> {"own", "stop", "dump", "exit", "destroy"}]
      /\ index \in [Threads -> 0 .. N]
      /\ file \in [Schedulers -> 0 .. MaxSamples]
      /\ samples \in [Schedulers -> 0 .. MaxSamples]
  BY DEF SamplesInv, TypeInv, TypeOK
<1>4. /\ \A r \in Schedulers \ {s} : file'[r] = file[r]
      /\ s \notin racing => file'[s] = samples[s]
  BY <1>2, <1>3 DEF EndDump
<1>5. /\ \A r \in Schedulers : InDump(r)' => InDump(r)
      /\ \A r \in Schedulers \ {s} : InDump(r) => InDump(r)'
      /\ InDump(s)
  BY <1>1, <1>3 DEF InDump
<1>6. \A r \in Schedulers : Passed(r)' => Passed(r) \/ r = s
  BY <1>1, <1>3 DEF Passed, Schedulers
<1>7. FlagInv' BY <1>1, <1>5, <1>6 DEF SamplesInv, FlagInv
<1>8. DumpInv' BY <1>1, <1>5 DEF SamplesInv, DumpInv
<1>9. KeptInv'
  <2> SUFFICES ASSUME NEW r \in Schedulers, metrics, Settled(r)'
               PROVE  /\ file'[r] >= samples[r] - 1
                      /\ r < count /\ at[r] \in {"work", "record"} => file'[r] >= samples[r]
    BY <1>1 DEF KeptInv
  <2>1. CASE r = s
    <3>1. file'[r] = samples[r] /\ samples[r] \in 0 .. MaxSamples
      BY <1>1, <1>3, <1>4, <2>1 DEF Settled
    <3> QED BY <3>1, Sets
  <2>2. CASE r # s
    <3>1. Settled(r) BY <1>1, <1>5, <1>6, <2>2 DEF Settled
    <3> QED BY <1>4, <2>2, <3>1 DEF SamplesInv, KeptInv
  <2> QED BY <2>1, <2>2
<1>10. ExitInv' BY <1>1 DEF ExitInv
<1> QED BY <1>7, <1>8, <1>9, <1>10 DEF SamplesInv

LEMMA DestroyKeeps ==
  ASSUME SamplesInv, TypeInv', NEW t \in Threads, Destroy(t)
  PROVE  SamplesInv'
<1>1. UNCHANGED <<metrics, at, doing, index, stopFlag, samples, file, process>>
  BY DEF Destroy, handlers
<1>2. /\ count' = count - 1 /\ count \in 0 .. N
      /\ racing' = IF InDump(count') THEN racing \cup {count'} ELSE racing
  BY DEF Destroy, SamplesInv, TypeInv, TypeOK
<1>3. \A s \in Schedulers : (InDump(s) <=> InDump(s)') /\ (Passed(s) <=> Passed(s)')
  BY <1>1 DEF InDump, Passed
<1>4. FlagInv' BY <1>1, <1>3 DEF SamplesInv, FlagInv
<1>5. DumpInv'
  <2> SUFFICES ASSUME NEW s \in Schedulers, InDump(s), s \notin racing'
               PROVE  at[s] # "record" /\ s < count'
    BY <1>1, <1>3 DEF DumpInv
  <2>1. s \notin racing /\ s # count' BY <1>2
  <2>2. s \in Int /\ N \in Nat BY Sets DEF Schedulers
  <2> QED BY <1>2, <2>1, <2>2 DEF SamplesInv, DumpInv
<1>6. \A s \in Schedulers : Settled(s)' => Settled(s) BY <1>2, <1>3 DEF Settled
<1>7. \A s \in Schedulers : s < count' => s < count
  BY <1>2, Sets DEF Schedulers
<1>8. KeptInv' BY <1>1, <1>6, <1>7 DEF SamplesInv, KeptInv
<1>9. ExitInv' BY <1>1 DEF SamplesInv, ExitInv
<1> QED BY <1>4, <1>5, <1>8, <1>9 DEF SamplesInv

LEMMA NextSamples == SamplesInv /\ [Next]_vars => SamplesInv'
<1> SUFFICES ASSUME SamplesInv, [Next]_vars PROVE SamplesInv'
  OBVIOUS
<1>1. TypeInv' BY NextTypes DEF SamplesInv
<1>2. at \in [Threads -> {"unborn", "setup", "start", "join", "loop", "work", "record",
                          "sleep", "round", "ended"}]
  BY DEF SamplesInv, TypeInv, TypeOK
<1>3. CASE UNCHANGED vars
  <2>1. Quiet /\ ExitInv' BY <1>3 DEF vars, Quiet, SamplesInv, ExitInv, handlers
  <2> QED BY <1>1, <2>1, QuietKeeps
<1>4. CASE Register \/ Spawn \/ DaemonMoves
  <2>1. Quiet
    <3>1. UNCHANGED <<metrics, handlers, count, stopFlag, records>>
      BY <1>4 DEF Register, Spawn, DaemonMoves
    <3>2. ASSUME NEW s \in Schedulers, at'[s] # at[s] PROVE at'[s] \notin {"work", "record"}
      <4>1. CASE Register BY <1>2, <3>2, <4>1, Sets DEF Register, Moves
      <4>2. CASE Spawn BY <1>2, <3>2, <4>2, Sets DEF Spawn
      <4>3. CASE DaemonMoves BY <1>2, <3>2, <4>3, Sets DEF DaemonMoves, Moves
      <4> QED BY <1>4, <4>1, <4>2, <4>3
    <3> QED BY <3>1, <3>2 DEF Quiet
  <2>2. ExitInv'
    BY <1>4 DEF Register, Spawn, DaemonMoves, SamplesInv, ExitInv, handlers
  <2> QED BY <1>1, <2>1, <2>2, QuietKeeps
<1>5. ASSUME NEW s \in Schedulers, SchedulerStep(s) PROVE SamplesInv'
  BY <1>1, <1>5, SchedulersKeep
<1>6. CASE Killed
  <2>1. /\ UNCHANGED <<metrics, at, doing, index, count, stopFlag, records>>
        /\ process' = "killed"
    BY <1>6 DEF Killed
  <2> QED BY <1>1, <2>1 DEF SamplesInv, FlagInv, DumpInv, KeptInv, ExitInv, Settled, Passed,
             InDump, records
<1>7. ASSUME NEW t \in Threads, Deliver(t) \/ HandlerStep(t) \/ ExitAtOnce(t)
      PROVE  SamplesInv'
  <2>1. /\ doing \in [Threads -> {"own", "stop", "dump", "exit", "destroy"}]
        /\ index \in [Threads -> 0 .. N]
        /\ doing[t] = "own" => index[t] = 0
        /\ doing[t] \in {"exit", "destroy"} => index[t] = N
    BY DEF SamplesInv, TypeInv, TypeOK, PlacesInv
  <2>2. CASE Deliver(t)
    <3>1. /\ UNCHANGED <<metrics, at, count, stopFlag, records, process>>
          /\ doing[t] = "own" /\ doing'[t] # "dump"
          /\ \A u \in Threads \ {t} : doing'[u] = doing[u]
          /\ \A u \in Threads : index'[u] = index[u]
      BY <2>1, <2>2 DEF Deliver, Receives
    <3> QED BY <1>1, <3>1, HandlerKeeps
  <2>3. CASE StopScheduler(t) BY <1>1, <2>3, StopKeeps
  <2>4. CASE EndDump(t) BY <1>1, <2>4, EndDumpKeeps
  <2>5. CASE CallExit(t)
    <3>1. /\ UNCHANGED <<metrics, at, count, stopFlag, records, process>>
          /\ doing[t] = "stop" /\ doing'[t] # "dump"
          /\ \A u \in Threads \ {t} : doing'[u] = doing[u]
          /\ \A u \in Threads : index'[u] = index[u]
      BY <2>1, <2>5 DEF CallExit, Handles
    <3> QED BY <1>1, <3>1, HandlerKeeps
  <2>6. CASE Destroy(t) BY <1>1, <2>6, DestroyKeeps
  <2>7. CASE Exit(t) \/ ExitAtOnce(t)
    <3>1. UNCHANGED <<metrics, at, handlers, count, stopFlag, records>> /\ index[t] = N
      BY <2>1, <2>7 DEF Exit, ExitAtOnce, Handles
    <3>2. Quiet /\ ExitInv' BY <3>1 DEF Quiet, ExitInv, handlers
    <3> QED BY <1>1, <3>2, QuietKeeps
  <2> QED BY <1>7, <2>2, <2>3, <2>4, <2>5, <2>6, <2>7 DEF HandlerStep
<1>8. CASE Crash
  <2>1. Quiet /\ ExitInv' BY <1>8 DEF Crash, Quiet, ExitInv
  <2> QED BY <1>1, <2>1, QuietKeeps
<1> QED BY <1>3, <1>4, <1>5, <1>6, <1>7, <1>8 DEF Next

\* When the process has exited, a handler had passed every scheduler.
LEMMA KeptAtExit == SamplesInv => SamplesAreKept
<1> SUFFICES ASSUME SamplesInv, metrics, process = "exited", NEW s \in Schedulers,
                    s \notin racing, ~InDump(s)
             PROVE  file[s] >= samples[s] - 1
  BY DEF SamplesAreKept, SamplesInv, TypeInv
<1>1. PICK t \in Threads : index[t] = N BY DEF SamplesInv, ExitInv
<1>2. Passed(s) BY <1>1, Sets DEF Passed, Schedulers
<1> QED BY <1>2 DEF SamplesInv, KeptInv, Settled

\* The state keeps its type; the handler never goes beyond the last scheduler.
THEOREM Typing == Spec => []TypeInv
<1>1. Init => TypeInv BY InitTypes
<1>2. TypeInv /\ [Next]_vars => TypeInv' BY NextTypes
<1> QED BY <1>1, <1>2, PTL DEF Spec

\* SIGINT loses at most the sample of the step a scheduler is in, unless its list
\* was read while that was added or a second signal had just emptied its file.
THEOREM SamplesAreAlwaysKept == Spec => []SamplesAreKept
<1>1. Init => SamplesInv BY InitSamples
<1>2. SamplesInv /\ [Next]_vars => SamplesInv' BY NextSamples
<1>3. SamplesInv => SamplesAreKept BY KeptAtExit
<1> QED BY <1>1, <1>2, <1>3, PTL DEF Spec
===============================================================================
