------------------------- MODULE ThreadPerChainProofs -------------------------
(***************************************************************************)
(* Proofs about ThreadPerChain, for any number of threads, any sizes of    *)
(* files, blocks and ints, and any limit on descriptors: the iovecs of a   *)
(* file that fits in an int fit its blocks, when main returns every output *)
(* is a complete copy unless a read or write of it failed, and descriptors *)
(* suffice if there is one for each I/O thread, or two with io_uring.      *)
(***************************************************************************)
EXTENDS ThreadPerChain, Numbers, FiniteSetTheorems

------------------------------------------------------------------------------
(* Arithmetic.                                                              *)

LEMMA ToIntLemma ==
  ASSUME NEW n \in 0 .. IntMax
  PROVE  ToInt(n) = n
<1>1. n + IntMax + 1 \in Nat /\ 2 * IntMax + 2 \in Nat \ {0} /\ n + IntMax + 1 < 2 * IntMax + 2
  BY WidthAssumption
<1>2. (n + IntMax + 1) % (2 * IntMax + 2) = n + IntMax + 1
  BY <1>1, SmallMod
<1> QED BY <1>2, WidthAssumption DEF ToInt

\* A number of blocks for any size, though perhaps a negative one.
LEMMA IoVecsType ==
  ASSUME NEW n \in Nat
  PROVE  IoVecs(n) \in Int
<1>1. n + IntMax + 1 \in Nat /\ 2 * IntMax + 2 \in Nat \ {0}
  BY WidthAssumption
<1>2. ToInt(n) \in Int
  BY <1>1, DivisionLemma, WidthAssumption DEF ToInt
<1>3. ASSUME NEW k \in Int PROVE Quotient(k) \in Int
  <2>1. CASE k >= 0 BY <2>1, DivisionLemma, WidthAssumption DEF Quotient
  <2>2. CASE k < 0
    <3>1. -k \in Nat BY <2>2
    <3> QED BY <2>2, <3>1, DivisionLemma, WidthAssumption DEF Quotient
  <2> QED BY <2>1, <2>2
<1> QED BY <1>2, <1>3 DEF IoVecs

\* For a file that fits in an int, the blocks cover it, and all but the last
\* one do not.
LEMMA IoVecsCover ==
  ASSUME NEW n \in 0 .. IntMax
  PROVE  /\ IoVecs(n) \in Nat
         /\ n <= IoVecs(n) * BlockSize
         /\ (IoVecs(n) - 1) * BlockSize < n \/ IoVecs(n) = 0
<1> DEFINE q == n \div BlockSize
           r == n % BlockSize
<1>1. BlockSize \in Nat \ {0} /\ n \in Nat
  BY WidthAssumption
<1>2. q \in Nat /\ r \in 0 .. BlockSize - 1 /\ n = q * BlockSize + r
  BY <1>1, DivisionLemma
<1>3. IoVecs(n) = q + (IF r = 0 THEN 0 ELSE 1)
  BY <1>1, ToIntLemma DEF IoVecs, Quotient
<1> HIDE DEF q, r
<1>4. CASE r = 0
  <2>1. IoVecs(n) = q BY <1>2, <1>3, <1>4
  <2>2. q * BlockSize \in Int /\ (q - 1) * BlockSize = q * BlockSize - BlockSize
    BY <1>1, <1>2, Distribute
  <2> QED BY <2>1, <2>2, <1>1, <1>2, <1>4
<1>5. CASE r # 0
  <2>1. IoVecs(n) = q + 1 /\ IoVecs(n) - 1 = q BY <1>3, <1>5, <1>2
  <2>2. q * BlockSize \in Int /\ (q + 1) * BlockSize = q * BlockSize + BlockSize
    BY <1>1, <1>2, Distribute
  <2> QED BY <2>1, <2>2, <1>1, <1>2, <1>5
<1> QED BY <1>4, <1>5

\* One turn of the loop of readFile, after c blocks.
LEMMA NextBlock ==
  ASSUME NEW n \in 0 .. IntMax, NEW c \in Nat, c < IoVecs(n), n - c * BlockSize > 0
  PROVE  LET left == n - c * BlockSize
             after == left - BytesToRead(left) IN
         \/ c + 1 = IoVecs(n) /\ after = 0
         \/ c + 1 < IoVecs(n) /\ after = n - (c + 1) * BlockSize /\ after > 0
<1> DEFINE left == n - c * BlockSize
           after == left - BytesToRead(left)
<1>1. BlockSize \in Nat \ {0} /\ IoVecs(n) \in Nat
  BY WidthAssumption, IoVecsCover
<1>2. (c + 1) * BlockSize = c * BlockSize + BlockSize /\ c * BlockSize \in Nat
  BY <1>1, Distribute
<1>3. CASE left > BlockSize
  <2>1. after = n - (c + 1) * BlockSize /\ after > 0
    BY <1>1, <1>2, <1>3 DEF BytesToRead
  <2>2. (c + 1) * BlockSize < IoVecs(n) * BlockSize
    <3>1. (c + 1) * BlockSize \in Int /\ IoVecs(n) * BlockSize \in Int BY <1>1
    <3>2. n <= IoVecs(n) * BlockSize BY IoVecsCover
    <3>3. (c + 1) * BlockSize < n BY <1>1, <1>2, <1>3
    <3> QED BY <3>1, <3>2, <3>3
  <2>3. c + 1 < IoVecs(n)
    BY <2>2, <1>1, ProductLess
  <2> QED BY <2>1, <2>3
<1>4. CASE ~(left > BlockSize)
  <2>1. after = 0
    BY <1>1, <1>2, <1>4 DEF BytesToRead
  <2>2. (IoVecs(n) - 1) * BlockSize < (c + 1) * BlockSize
    <3>1. (c + 1) * BlockSize \in Int /\ (IoVecs(n) - 1) * BlockSize \in Int BY <1>1
    <3> QED BY <3>1, <1>1, <1>2, <1>4, IoVecsCover
  <2>3. IoVecs(n) - 1 < c + 1
    BY <2>2, <1>1, ProductLess
  <2> QED BY <2>1, <2>3, <1>1
<1> QED BY <1>3, <1>4

LEMMA BytesToReadType ==
  ASSUME NEW r \in Nat
  PROVE  r - BytesToRead(r) \in Nat
BY WidthAssumption DEF BytesToRead

------------------------------------------------------------------------------
(* Types.                                                                   *)

\* A thread that only computes is at no other place.
CpuOnlyComputes ==
    \A t \in Threads : job[t] = Cpu => place[t] \in {"unborn", "compute", "ended"}

TypeInv == TypeOK /\ CpuOnlyComputes

\* The threads are numbered from 0.
Numbered == \E n \in Nat \ {0} : Threads = 0 .. n - 1

LEMMA InitNumbered == Init => Numbered /\ job \in [Threads -> Nat \cup {Cpu}]
<1> SUFFICES ASSUME Init PROVE Numbered /\ job \in [Threads -> Nat \cup {Cpu}]
  OBVIOUS
<1>1. Copies \in Nat \ {0} /\ PreadMigrants \in Nat \ {0}
  BY BenchmarkAssumption
<1>2. job \in Benchmarks(program)
  BY DEF Init
<1>3. CASE job \in {CpuJobs, IoJobs}
  <2>1. Threads = 0 .. Copies - 1 BY <1>3 DEF Threads, CpuJobs, IoJobs
  <2>2. \A t \in Threads : job[t] \in Nat \cup {Cpu} BY <1>1, <1>3, <2>1 DEF CpuJobs, IoJobs
  <2> QED BY <1>1, <1>3, <2>1, <2>2 DEF Numbered, Threads, CpuJobs, IoJobs
<1>4. ASSUME NEW p \in {CpuJobs, IoJobs}, NEW q \in {CpuJobs, OtherIoJobs}, job = Then(p, q)
      PROVE  Numbered /\ job \in [Threads -> Nat \cup {Cpu}]
  <2>1. Threads = 0 .. 2 * Copies - 1 BY <1>4 DEF Threads, Then
  <2>2. ASSUME NEW t \in Threads PROVE job[t] \in Nat \cup {Cpu}
    <3>1. CASE t < Copies
      <4>1. t \in 0 .. Copies - 1 /\ job[t] = p[t] BY <1>1, <1>4, <2>1, <3>1 DEF Then
      <4> QED BY <1>1, <4>1 DEF CpuJobs, IoJobs
    <3>2. CASE ~(t < Copies)
      <4>1. t - Copies \in 0 .. Copies - 1 /\ job[t] = q[t - Copies]
        BY <1>1, <1>4, <2>1, <3>2 DEF Then
      <4> QED BY <1>1, <4>1 DEF CpuJobs, OtherIoJobs
    <3> QED BY <3>1, <3>2
  <2> QED BY <1>1, <1>4, <2>1, <2>2 DEF Numbered, Threads, Then
<1>5. CASE job = Migrants(program)
  <2> DEFINE n == IF program = "pread" THEN PreadMigrants ELSE 2 * Copies
  <2>1. n \in Nat \ {0} /\ Threads = 0 .. n - 1 BY <1>1, <1>5 DEF Threads, Migrants
  <2>2. \A t \in Threads : job[t] = 0 BY <1>5, <2>1 DEF Migrants
  <2> QED BY <1>5, <2>1, <2>2 DEF Numbered, Threads, Migrants
<1> QED BY <1>2, <1>3, <1>4, <1>5 DEF Benchmarks

LEMMA InitTypes == Init => TypeInv
<1> SUFFICES ASSUME Init PROVE TypeInv
  OBVIOUS
<1>1. job \in [Threads -> Nat \cup {Cpu}]
  BY InitNumbered
<1> QED BY <1>1 DEF Init, TypeInv, TypeOK, CpuOnlyComputes, Places

\* A thread that is not a CPU thread has a file.
LEMMA FileOf ==
  ASSUME TypeOK, NEW t \in Threads, job[t] # Cpu
  PROVE  File(t) \in Files /\ size[File(t)] \in Nat
BY BenchmarkAssumption DEF TypeOK, File, Files

\* The benchmark stays the same, and so do the sets of its threads and files.
LEMMA TypesAfterStep ==
  ASSUME TypeInv, UNCHANGED <<inputs, main, at>>,
         place' \in [Threads -> Places],
         \A t \in Threads : job[t] = Cpu => place'[t] \in {"unborn", "compute", "ended"},
         blocks' \in [Threads -> Int], current' \in [Threads -> Nat],
         remaining' \in [Threads -> Nat], good' \in [Threads -> SUBSET Nat],
         turn' \in [Threads -> Nat], open' \subseteq Threads \X {"ring", "in", "out"},
         content' \in [Files -> SUBSET Nat], failed' \subseteq Files,
         process' \in {"running", "returned", "noDescriptor", "terminated", "crashed"}
  PROVE  TypeInv'
<1>1. UNCHANGED <<program, job, size, limit>> BY DEF inputs
<1>2. Threads' = Threads /\ Files' = Files BY <1>1 DEF Threads, Files
<1> QED BY <1>1, <1>2 DEF TypeInv, TypeOK, CpuOnlyComputes

LEMMA NextTypes == TypeInv /\ [Next]_vars => TypeInv'
<1> SUFFICES ASSUME TypeInv, [Next]_vars PROVE TypeInv'
  OBVIOUS
<1> USE DEF TypeInv, TypeOK, CpuOnlyComputes, Places, inputs, locals, Threads, Files
<1>1. CASE Spawn
  <2>1. at' \in Nat /\ main' \in {"spawn", "join", "returned"}
    BY <1>1 DEF Spawn, AfterThread, MainAt
  <2>2. FirstPlace(at) \in Places /\ (job[at] = Cpu => FirstPlace(at) = "compute")
    BY DEF FirstPlace
  <2>3. place' = [place EXCEPT ![at] = FirstPlace(at)] BY <1>1 DEF Spawn
  <2>4. place' \in [Threads -> Places] BY <2>2, <2>3
  <2>5. \A t \in Threads : job[t] = Cpu => place'[t] \in {"unborn", "compute", "ended"}
    BY <2>2, <2>3
  <2> QED BY <1>1, <2>1, <2>4, <2>5 DEF Spawn
<1>2. CASE SpawnFails BY <1>2 DEF SpawnFails
<1>3. CASE Join BY <1>3 DEF Join, AfterThread
<1>4. ASSUME NEW t \in Threads, SetUpRing(t) PROVE TypeInv'
  BY <1>4 DEF SetUpRing, At, Goto
<1>5. ASSUME NEW t \in Threads, OpenInput(t) PROVE TypeInv'
  <2>1. job[t] # Cpu BY <1>5 DEF OpenInput, At
  <2>2. size[File(t)] \in Nat /\ IoVecs(size[File(t)]) \in Int BY <2>1, FileOf, IoVecsType
  <2> QED BY <1>5, <2>2, <2>1 DEF OpenInput, At, Goto
<1>6. ASSUME NEW t \in Threads, Fill(t) PROVE TypeInv'
  <2>1. job[t] # Cpu BY <1>6 DEF Fill, NextIoVec, At
  <2>2. File(t) \in Files BY <2>1, FileOf
  <2>3. remaining[t] - BytesToRead(remaining[t]) \in Nat BY BytesToReadType
  <2> QED BY <1>6, <2>2, <2>3 DEF Fill, NextIoVec, At
<1>7. ASSUME NEW t \in Threads, FillBeyond(t) PROVE TypeInv'
  <2>3. remaining[t] - BytesToRead(remaining[t]) \in Nat BY BytesToReadType
  <2> QED BY <1>7, <2>3 DEF FillBeyond, NextIoVec, At
<1>8. ASSUME NEW t \in Threads, Filled(t) PROVE TypeInv'
  BY <1>8 DEF Filled, At, Goto
<1>9. ASSUME NEW t \in Threads, ReadVector(t) PROVE TypeInv'
  <2>1. job[t] # Cpu BY <1>9 DEF ReadVector, At
  <2>2. File(t) \in Files BY <2>1, FileOf
  <2>3. PICK n \in {0} \cup 0 .. blocks[t] : good' = [good EXCEPT ![t] = 0 .. n - 1]
    BY <1>9 DEF ReadVector
  <2>4. good' \in [Threads -> SUBSET Nat]
    <3>1. 0 .. n - 1 \in SUBSET Nat BY DEF TypeOK
    <3> QED BY <2>3, <3>1
  <2>5. failed' \subseteq Files BY <1>9, <2>2 DEF ReadVector
  <2>6. place' = [place EXCEPT ![t] = "closeIn"] /\ UNCHANGED <<inputs, main, at, blocks,
             current, remaining, turn, open, content, process>>
    BY <1>9 DEF ReadVector, Goto
  <2> QED BY <2>1, <2>4, <2>5, <2>6
<1>10. ASSUME NEW t \in Threads, CloseInput(t) PROVE TypeInv'
  BY <1>10 DEF CloseInput, At, Goto
<1>11. ASSUME NEW t \in Threads, OpenOutput(t) PROVE TypeInv'
  <2>1. job[t] # Cpu BY <1>11 DEF OpenOutput, At
  <2>2. content' \in [Files -> SUBSET Nat] BY <1>11 DEF OpenOutput
  <2>3. place' \in [Threads -> Places] /\ current' \in [Threads -> Nat]
    BY <1>11 DEF OpenOutput, Goto
  <2>4. open' \subseteq Threads \X {"ring", "in", "out"} BY <1>11 DEF OpenOutput
  <2> QED BY <1>11, <2>1, <2>2, <2>3, <2>4 DEF OpenOutput, Goto
<1>12. ASSUME NEW t \in Threads, WriteBlock(t) PROVE TypeInv'
  <2>1. job[t] # Cpu BY <1>12 DEF WriteBlock, At
  <2>2. File(t) \in Files BY <2>1, FileOf
  <2> QED BY <1>12, <2>1, <2>2 DEF WriteBlock, Written, At
<1>13. ASSUME NEW t \in Threads, BlocksWritten(t) PROVE TypeInv'
  BY <1>13 DEF BlocksWritten, At, Goto
<1>14. ASSUME NEW t \in Threads, WriteVector(t) PROVE TypeInv'
  <2>1. job[t] # Cpu BY <1>14 DEF WriteVector, At
  <2>2. File(t) \in Files BY <2>1, FileOf
  <2>3. /\ place' = [place EXCEPT ![t] = "compute"]
        /\ UNCHANGED <<inputs, main, at, locals, open, process>>
    BY <1>14 DEF WriteVector, Goto
  <2>4. content' \in [Files -> SUBSET Nat] BY <1>14, <2>2 DEF WriteVector, Written
  <2>5. failed' \subseteq Files BY <1>14, <2>2 DEF WriteVector
  <2>6. place' \in [Threads -> Places] /\ process \in {"running", "returned", "noDescriptor",
             "terminated", "crashed"} BY <2>3
  <2>7. \A u \in Threads : job[u] = Cpu => place'[u] \in {"unborn", "compute", "ended"}
    BY <2>1, <2>3
  <2> QED BY <2>3, <2>4, <2>5, <2>6, <2>7, TypesAfterStep
<1>15. ASSUME NEW t \in Threads, ComputeAndWriteAgain(t) PROVE TypeInv'
  <2>1. /\ place' \in [Threads -> Places] /\ current' \in [Threads -> Nat]
        /\ turn' \in [Threads -> Nat]
    BY <1>15 DEF ComputeAndWriteAgain, Leave, Goto
  <2>2. blocks' \in [Threads -> Int] /\ good' \in [Threads -> SUBSET Nat]
    BY <1>15 DEF ComputeAndWriteAgain, Leave
  <2>3. \A u \in Threads : job[u] = Cpu => place'[u] \in {"unborn", "compute", "ended"}
    BY <1>15 DEF ComputeAndWriteAgain, Leave, Goto
  <2>4. UNCHANGED <<inputs, main, at, remaining, open, content, failed, process>>
    BY <1>15 DEF ComputeAndWriteAgain
  <2> QED BY <2>1, <2>2, <2>3, <2>4, TypesAfterStep
<1>16. ASSUME NEW t \in Threads, ComputeOnly(t) PROVE TypeInv'
  <2>1. /\ place' \in [Threads -> Places] /\ current' \in [Threads -> Nat]
        /\ turn' \in [Threads -> Nat]
    BY <1>16 DEF ComputeOnly, Leave, Goto
  <2>2. blocks' \in [Threads -> Int] /\ good' \in [Threads -> SUBSET Nat]
    BY <1>16 DEF ComputeOnly, Leave
  <2>3. \A u \in Threads : job[u] = Cpu => place'[u] \in {"unborn", "compute", "ended"}
    BY <1>16 DEF ComputeOnly, Leave, Goto
  <2>4. UNCHANGED <<inputs, main, at, remaining, open, content, failed, process>>
    BY <1>16 DEF ComputeOnly
  <2> QED BY <2>1, <2>2, <2>3, <2>4, TypesAfterStep
<1>17. ASSUME NEW t \in Threads, ExitRing(t) PROVE TypeInv'
  BY <1>17 DEF ExitRing, At, Goto
<1>18. ASSUME NEW t \in Threads, NoDescriptor(t) PROVE TypeInv'
  BY <1>18 DEF NoDescriptor, Ends
<1>19. ASSUME NEW t \in Threads, Throws(t) PROVE TypeInv'
  BY <1>19 DEF Throws, Ends
<1>20. CASE UNCHANGED vars BY <1>20 DEF vars
<1> QED
  BY <1>1, <1>2, <1>3, <1>4, <1>5, <1>6, <1>7, <1>8, <1>9, <1>10, <1>11, <1>12, <1>13,
     <1>14, <1>15, <1>16, <1>17, <1>18, <1>19, <1>20 DEF Next, Main, Step

\* The variables of ThreadPerChain have their types.
THEOREM Typing == Spec => []TypeInv
BY InitTypes, NextTypes, PTL DEF Spec

------------------------------------------------------------------------------
(* main starts the threads in order, joins them in order, and returns when  *)
(* all have ended.                                                          *)

MainInv ==
    /\ Numbered
    /\ main # "returned" => at \in Threads
    /\ main = "spawn" => \A t \in Threads : t >= at => place[t] = "unborn"
    /\ main = "join" => \A t \in Threads : t < at => place[t] = "ended"
    /\ main = "returned" => \A t \in Threads : place[t] = "ended"

LEMMA InitMain == Init => MainInv
<1> SUFFICES ASSUME Init PROVE MainInv
  OBVIOUS
<1>1. Numbered BY InitNumbered
<1> QED BY <1>1 DEF Init, MainInv, Numbered

\* What a step of a thread does to the places.
LEMMA StepMoves ==
  ASSUME TypeInv, NEW t \in Threads, Step(t)
  PROVE  /\ place[t] \notin {"unborn", "ended"} \/ UNCHANGED place
         /\ \A u \in Threads \ {t} : place'[u] = place[u]
         /\ UNCHANGED <<inputs, main, at>>
         /\ failed \subseteq failed'
<1> USE DEF TypeInv, TypeOK, At, Goto, Ends, NextIoVec, Leave
<1>1. CASE SetUpRing(t) BY <1>1 DEF SetUpRing
<1>2. CASE OpenInput(t) BY <1>2 DEF OpenInput
<1>3. CASE Fill(t) BY <1>3 DEF Fill
<1>4. CASE FillBeyond(t) BY <1>4 DEF FillBeyond
<1>5. CASE Filled(t) BY <1>5 DEF Filled
<1>6. CASE ReadVector(t) BY <1>6 DEF ReadVector
<1>7. CASE CloseInput(t) BY <1>7 DEF CloseInput
<1>8. CASE OpenOutput(t) BY <1>8 DEF OpenOutput
<1>9. CASE WriteBlock(t) BY <1>9 DEF WriteBlock
<1>10. CASE BlocksWritten(t) BY <1>10 DEF BlocksWritten
<1>11. CASE WriteVector(t) BY <1>11 DEF WriteVector
<1>12. CASE ComputeAndWriteAgain(t) BY <1>12 DEF ComputeAndWriteAgain
<1>13. CASE ComputeOnly(t) BY <1>13 DEF ComputeOnly
<1>14. CASE ExitRing(t) BY <1>14 DEF ExitRing
<1>15. CASE NoDescriptor(t) BY <1>15 DEF NoDescriptor
<1> QED BY <1>1, <1>2, <1>3, <1>4, <1>5, <1>6, <1>7, <1>8, <1>9, <1>10, <1>11, <1>12,
           <1>13, <1>14, <1>15 DEF Step

LEMMA NextMain == TypeInv /\ MainInv /\ [Next]_vars => MainInv'
<1> SUFFICES ASSUME TypeInv, MainInv, [Next]_vars PROVE MainInv'
  OBVIOUS
<1> USE DEF TypeInv, TypeOK, inputs
<1>0. PICK n \in Nat \ {0} : Threads = 0 .. n - 1 BY DEF MainInv, Numbered
<1>1. CASE Spawn
  <2>1. at \in 0 .. n - 1 /\ \A t \in 0 .. n - 1 : t >= at => place[t] = "unborn"
    BY <1>0, <1>1 DEF Spawn, MainAt, MainInv
  <2>2. UNCHANGED job /\ Threads' = Threads /\ Numbered' BY <1>1 DEF Spawn, Threads, Numbered, MainInv
  <2>3. CASE at + 1 \in Threads
    <3>1. at' = at + 1 /\ main' = "spawn" BY <1>1, <2>3 DEF Spawn, AfterThread, MainAt
    <3>2. \A t \in 0 .. n - 1 : t >= at + 1 => place'[t] = "unborn"
      <4>1. \A t \in 0 .. n - 1 : t # at => place'[t] = place[t] BY <1>0, <1>1 DEF Spawn
      <4>2. \A t \in 0 .. n - 1 : t >= at + 1 => t >= at /\ t # at BY <2>1
      <4> QED BY <2>1, <4>1, <4>2
    <3> QED BY <1>0, <2>2, <2>3, <3>1, <3>2 DEF MainInv
  <2>4. CASE at + 1 \notin Threads
    <3>1. at' = 0 /\ main' = "join" BY <1>1, <2>4 DEF Spawn, AfterThread
    <3> QED BY <1>0, <2>2, <3>1 DEF MainInv
  <2> QED BY <2>3, <2>4
<1>2. CASE Join
  <2>1. at \in 0 .. n - 1 /\ \A t \in 0 .. n - 1 : t < at + 1 => place[t] = "ended"
    BY <1>0, <1>2 DEF Join, MainAt, MainInv
  <2>2. UNCHANGED <<job, place>> /\ Threads' = Threads /\ Numbered'
    BY <1>2 DEF Join, Threads, Numbered, MainInv
  <2>3. CASE at + 1 \in Threads
    <3>1. at' = at + 1 /\ main' = "join" BY <1>2, <2>3 DEF Join, AfterThread, MainAt
    <3> QED BY <1>0, <2>1, <2>2, <2>3, <3>1 DEF MainInv
  <2>4. CASE at + 1 \notin Threads
    <3>1. at' = 0 /\ main' = "returned" BY <1>2, <2>4 DEF Join, AfterThread
    <3>2. \A t \in Threads : t < at + 1 BY <1>0, <2>1, <2>4
    <3> QED BY <1>0, <2>1, <2>2, <3>1, <3>2 DEF MainInv
  <2> QED BY <2>3, <2>4
<1>3. ASSUME NEW t \in Threads, Step(t) PROVE MainInv'
  <2>1. place[t] \notin {"unborn", "ended"} \/ UNCHANGED place BY <1>3, StepMoves
  <2>2. \A u \in Threads \ {t} : place'[u] = place[u] BY <1>3, StepMoves
  <2>3. UNCHANGED <<inputs, main, at>> BY <1>3, StepMoves
  <2>4. Threads' = Threads /\ Numbered' BY <2>3 DEF Threads, Numbered, MainInv
  <2> QED BY <2>1, <2>2, <2>3, <2>4 DEF MainInv
<1>4. CASE SpawnFails \/ \E t \in Threads : Throws(t)
  BY <1>4 DEF SpawnFails, Throws, Ends, MainInv, Numbered, Threads
<1>5. CASE UNCHANGED vars BY <1>5 DEF vars, MainInv, Numbered, Threads
<1> QED BY <1>1, <1>2, <1>3, <1>4, <1>5 DEF Next, Main

------------------------------------------------------------------------------
(* The array of iovecs.                                                     *)

\* The loop of readFile has filled as many iovecs as bytes are accounted for.
ArrayOf(t) ==
    LET n == size[File(t)] IN
    /\ place[t] \in {"unborn", "ring", "openIn"} => current[t] = 0
    /\ place[t] = "fill" =>
          \/ current[t] = IoVecs(n) /\ remaining[t] = 0
          \/ current[t] < IoVecs(n) /\ remaining[t] = n - current[t] * BlockSize
                                    /\ remaining[t] > 0
    /\ place[t] \in {"readv", "closeIn"} => current[t] = IoVecs(n)
    /\ place[t] \in {"fill", "readv", "closeIn", "openOut", "write", "compute"} =>
          blocks[t] = IoVecs(n)

Copier(t) == job[t] # Cpu /\ Fits(File(t))

ArrayInv == \A t \in Threads : Copier(t) => ArrayOf(t)

LEMMA CopierSize ==
  ASSUME TypeInv, NEW t \in Threads, Copier(t)
  PROVE  size[File(t)] \in 0 .. IntMax
<1>1. size[File(t)] \in Nat BY FileOf DEF TypeInv, Copier
<1> QED BY <1>1, WidthAssumption DEF Copier, Fits

LEMMA FirstBlock ==
  ASSUME NEW n \in 0 .. IntMax
  PROVE  \/ 0 = IoVecs(n) /\ n = 0
         \/ 0 < IoVecs(n) /\ n = n - 0 * BlockSize /\ n > 0
<1>1. BlockSize \in Nat \ {0} /\ IoVecs(n) \in Nat /\ n \in Nat BY WidthAssumption, IoVecsCover
<1>2. CASE n = 0
  <2>1. CASE IoVecs(n) = 0 BY <1>2, <2>1
  <2>2. CASE IoVecs(n) # 0
    <3>1. (IoVecs(n) - 1) * BlockSize < 0 * BlockSize BY <1>1, <1>2, <2>2, IoVecsCover
    <3>2. IoVecs(n) - 1 < 0 BY <1>1, <3>1, ProductLess
    <3> QED BY <1>1, <2>2, <3>2
  <2> QED BY <2>1, <2>2
<1>3. CASE n # 0
  <2>1. IoVecs(n) # 0
    <3>1. SUFFICES ASSUME IoVecs(n) = 0 PROVE FALSE OBVIOUS
    <3>2. n <= 0 * BlockSize BY <3>1, IoVecsCover
    <3> QED BY <1>1, <1>3, <3>2
  <2> QED BY <1>1, <1>3, <2>1
<1> QED BY <1>2, <1>3

LEMMA InitArray == Init => ArrayInv
BY DEF Init, ArrayInv, ArrayOf

\* A step that leaves the locals of all threads but t alone.
LEMMA ArrayFrame ==
  ASSUME ArrayInv, UNCHANGED inputs, NEW t \in Threads, (Copier(t) => ArrayOf(t))',
         \A u \in Threads \ {t} :
            /\ place'[u] = place[u] /\ blocks'[u] = blocks[u]
            /\ current'[u] = current[u] /\ remaining'[u] = remaining[u]
  PROVE  ArrayInv'
BY DEF ArrayInv, ArrayOf, Copier, Fits, File, inputs, Threads

LEMMA NextArray == TypeInv /\ MainInv /\ ArrayInv /\ [Next]_vars => ArrayInv'
<1> SUFFICES ASSUME TypeInv, MainInv, ArrayInv, [Next]_vars PROVE ArrayInv'
  OBVIOUS
<1> DEFINE V(t) == IoVecs(size[File(t)])
<1>1. CASE Spawn
  <2>1. at \in Threads /\ place[at] = "unborn"
    <3>1. at \in Threads /\ at >= at BY <1>1 DEF Spawn, MainAt, MainInv, Numbered
    <3> QED BY <1>1, <3>1 DEF Spawn, MainAt, MainInv
  <2>2. PICK t \in Threads : t = at BY <2>1
  <2>3. job[t] # Cpu => FirstPlace(t) \in {"ring", "openIn"} BY DEF FirstPlace
  <2>4. place' = [place EXCEPT ![t] = FirstPlace(t)] /\ UNCHANGED <<inputs, locals>>
    BY <1>1, <2>2 DEF Spawn
  <2>5. (Copier(t) => ArrayOf(t))'
    <3>1. SUFFICES ASSUME Copier(t) PROVE ArrayOf(t)'
      BY <2>4 DEF Copier, Fits, File, inputs
    <3>2. place'[t] \in {"ring", "openIn"} BY <2>3, <2>4, <3>1 DEF Copier, TypeInv, TypeOK
    <3>3. current'[t] = 0 BY <2>1, <2>2, <2>4, <3>1 DEF ArrayInv, ArrayOf, locals
    <3> QED BY <3>2, <3>3 DEF ArrayOf
  <2>6. \A u \in Threads \ {t} :
            /\ place'[u] = place[u] /\ blocks'[u] = blocks[u]
            /\ current'[u] = current[u] /\ remaining'[u] = remaining[u]
    BY <2>4 DEF TypeInv, TypeOK, locals
  <2> QED BY <2>4, <2>5, <2>6, ArrayFrame
<1>2. CASE Join \/ SpawnFails \/ UNCHANGED vars
  BY <1>2 DEF Join, SpawnFails, vars, ArrayInv, ArrayOf, Copier, Fits, File, inputs, locals, Threads
<1>3. ASSUME NEW t \in Threads, Step(t) \/ Throws(t) PROVE ArrayInv'
  <2> USE DEF TypeInv, TypeOK, At, Goto, Leave, Ends, inputs, locals
  <2>0. ASSUME Copier(t) PROVE size[File(t)] \in 0 .. IntMax /\ V(t) \in Nat
    BY <2>0, CopierSize, IoVecsCover
  <2>1. CASE SetUpRing(t)
    <3>1. (Copier(t) => ArrayOf(t))'
      BY <2>1 DEF SetUpRing, ArrayInv, ArrayOf, Copier, Fits, File
    <3> QED BY <2>1, <3>1, ArrayFrame DEF SetUpRing
  <2>2. CASE OpenInput(t)
    <3>1. (Copier(t) => ArrayOf(t))'
      BY <2>2, <2>0, FirstBlock DEF OpenInput, ArrayInv, ArrayOf, Copier, Fits, File
    <3> QED BY <2>2, <3>1, ArrayFrame DEF OpenInput
  <2>3. CASE Fill(t) \/ FillBeyond(t)
    <3>1. (Copier(t) => ArrayOf(t))'
      <4>1. SUFFICES ASSUME Copier(t) PROVE ArrayOf(t)'
        BY <2>3 DEF Fill, FillBeyond, Copier, Fits, File
      <4>2. /\ place[t] = "fill" /\ remaining[t] # 0
            /\ place' = place /\ blocks' = blocks /\ size' = size /\ job' = job
            /\ current'[t] = current[t] + 1
            /\ remaining'[t] = remaining[t] - BytesToRead(remaining[t])
        BY <2>3 DEF Fill, FillBeyond, NextIoVec
      <4>3. /\ current[t] < V(t) /\ blocks[t] = V(t)
            /\ remaining[t] = size[File(t)] - current[t] * BlockSize /\ remaining[t] > 0
        BY <4>1, <4>2 DEF ArrayInv, ArrayOf
      <4>4. \/ current'[t] = V(t) /\ remaining'[t] = 0
            \/ /\ current'[t] < V(t) /\ remaining'[t] > 0
               /\ remaining'[t] = size[File(t)] - current'[t] * BlockSize
        BY <4>1, <4>2, <4>3, <2>0, NextBlock
      <4> QED BY <4>2, <4>3, <4>4 DEF ArrayOf, File
    <3> QED BY <2>3, <3>1, ArrayFrame DEF Fill, FillBeyond, NextIoVec
  <2>4. CASE Filled(t)
    <3>1. (Copier(t) => ArrayOf(t))'
      BY <2>4 DEF Filled, ArrayInv, ArrayOf, Copier, Fits, File
    <3> QED BY <2>4, <3>1, ArrayFrame DEF Filled
  <2>5. CASE ReadVector(t)
    <3>1. (Copier(t) => ArrayOf(t))'
      BY <2>5 DEF ReadVector, ArrayInv, ArrayOf, Copier, Fits, File
    <3> QED BY <2>5, <3>1, ArrayFrame DEF ReadVector
  <2>6. CASE CloseInput(t)
    <3>1. (Copier(t) => ArrayOf(t))'
      BY <2>6 DEF CloseInput, ArrayInv, ArrayOf, Copier, Fits, File
    <3> QED BY <2>6, <3>1, ArrayFrame DEF CloseInput
  <2>7. CASE OpenOutput(t)
    <3>1. (Copier(t) => ArrayOf(t))'
      BY <2>7 DEF OpenOutput, ArrayInv, ArrayOf, Copier, Fits, File
    <3> QED BY <2>7, <3>1, ArrayFrame DEF OpenOutput
  <2>8. CASE WriteBlock(t) \/ BlocksWritten(t) \/ WriteVector(t)
    <3>1. (Copier(t) => ArrayOf(t))'
      BY <2>8 DEF WriteBlock, BlocksWritten, WriteVector, ArrayInv, ArrayOf, Copier, Fits, File
    <3> QED BY <2>8, <3>1, ArrayFrame DEF WriteBlock, BlocksWritten, WriteVector
  <2>9. CASE ComputeAndWriteAgain(t)
    <3>1. (Copier(t) => ArrayOf(t))'
      BY <2>9 DEF ComputeAndWriteAgain, ArrayInv, ArrayOf, Copier, Fits, File
    <3> QED BY <2>9, <3>1, ArrayFrame DEF ComputeAndWriteAgain
  <2>10. CASE ComputeOnly(t)
    <3>1. (Copier(t) => ArrayOf(t))' BY <2>10 DEF ComputeOnly, Copier
    <3> QED BY <2>10, <3>1, ArrayFrame DEF ComputeOnly
  <2>11. CASE ExitRing(t)
    <3>1. (Copier(t) => ArrayOf(t))'
      BY <2>11 DEF ExitRing, ArrayInv, ArrayOf, Copier, Fits, File
    <3> QED BY <2>11, <3>1, ArrayFrame DEF ExitRing
  <2>12. CASE NoDescriptor(t) \/ Throws(t)
    BY <2>12 DEF NoDescriptor, Throws, ArrayInv, ArrayOf, Copier, Fits, File, Threads
  <2> QED BY <1>3, <2>1, <2>2, <2>3, <2>4, <2>5, <2>6, <2>7, <2>8, <2>9, <2>10, <2>11,
             <2>12 DEF Step
<1> QED BY <1>1, <1>2, <1>3 DEF Next, Main

LEMMA ArrayFits == TypeInv /\ ArrayInv => IoVecsFit
<1> SUFFICES ASSUME TypeInv, ArrayInv, NEW t \in Threads, job[t] # Cpu, Fits(File(t))
             PROVE  /\ place[t] = "fill" => current[t] <= blocks[t]
                    /\ place[t] \in {"readv", "closeIn"} => current[t] = blocks[t]
  BY DEF IoVecsFit, TypeInv
<1>1. ArrayOf(t) BY DEF ArrayInv, Copier
<1> QED BY <1>1 DEF ArrayOf, TypeInv, TypeOK

\* The array of iovecs is filled to its end and never beyond, for any file whose
\* size fits in an int.
THEOREM IoVecsAlwaysFit == Spec => []IoVecsFit
<1>1. Init => TypeInv /\ MainInv /\ ArrayInv
  BY InitTypes, InitMain, InitArray
<1>2. TypeInv /\ MainInv /\ ArrayInv /\ [Next]_vars => (TypeInv /\ MainInv /\ ArrayInv)'
  BY NextTypes, NextMain, NextArray
<1> QED BY <1>1, <1>2, ArrayFits, PTL DEF Spec

------------------------------------------------------------------------------
(* The buffers of a thread.                                                 *)

\* As long as no read or write of its file has failed, the buffers of a thread
\* hold the blocks that it has read.
BuffersOf(t) ==
    LET n == IoVecs(size[File(t)]) IN
    /\ place[t] \in {"unborn", "ring", "openIn"} => good[t] = {}
    /\ place[t] \in {"unborn", "ring", "openIn", "fill", "readv", "closeIn", "openOut"} =>
          turn[t] = 0
    /\ place[t] = "fill" => good[t] = IF program = "pread" THEN 0 .. current[t] - 1 ELSE {}
    /\ place[t] \in {"closeIn", "openOut", "write", "compute"} => good[t] = 0 .. n - 1
    /\ place[t] = "write" /\ turn[t] = 0 /\ program = "io_uring" => current[t] = 0

Faultless(t) == Copier(t) /\ File(t) \notin failed

BuffersInv == \A t \in Threads : Faultless(t) => BuffersOf(t)

LEMMA InitBuffers == Init => BuffersInv
BY DEF Init, BuffersInv, BuffersOf

LEMMA BuffersFrame ==
  ASSUME BuffersInv, UNCHANGED inputs, failed \subseteq failed',
         NEW t \in Threads, (Faultless(t) => BuffersOf(t))',
         \A u \in Threads \ {t} :
            /\ place'[u] = place[u] /\ good'[u] = good[u]
            /\ current'[u] = current[u] /\ turn'[u] = turn[u]
  PROVE  BuffersInv'
<1> SUFFICES ASSUME NEW u \in Threads, u # t, Faultless(u)' PROVE BuffersOf(u)'
  BY DEF BuffersInv, inputs, Threads
<1>1. Faultless(u) BY DEF Faultless, Copier, Fits, File, inputs
<1>2. BuffersOf(u) BY <1>1 DEF BuffersInv
<1> QED BY <1>2 DEF BuffersOf, File, inputs

LEMMA NextBuffers ==
  TypeInv /\ MainInv /\ ArrayInv /\ BuffersInv /\ [Next]_vars => BuffersInv'
<1> SUFFICES ASSUME TypeInv, MainInv, ArrayInv, BuffersInv, [Next]_vars PROVE BuffersInv'
  OBVIOUS
<1> DEFINE V(t) == IoVecs(size[File(t)])
<1>1. CASE Spawn
  <2>1. at \in Threads /\ place[at] = "unborn"
    <3>1. at \in Threads /\ at >= at BY <1>1 DEF Spawn, MainAt, MainInv, Numbered
    <3> QED BY <1>1, <3>1 DEF Spawn, MainAt, MainInv
  <2>2. PICK t \in Threads : t = at BY <2>1
  <2>3. job[t] # Cpu => FirstPlace(t) \in {"ring", "openIn"} BY DEF FirstPlace
  <2>4. place' = [place EXCEPT ![t] = FirstPlace(t)] /\ UNCHANGED <<inputs, locals, failed>>
    BY <1>1, <2>2 DEF Spawn
  <2>5. (Faultless(t) => BuffersOf(t))'
    <3>1. SUFFICES ASSUME Faultless(t) PROVE BuffersOf(t)'
      BY <2>4 DEF Faultless, Copier, Fits, File, inputs
    <3>2. place'[t] \in {"ring", "openIn"}
      BY <2>3, <2>4, <3>1 DEF Faultless, Copier, TypeInv, TypeOK
    <3>3. good'[t] = {} /\ turn'[t] = 0
      BY <2>1, <2>2, <2>4, <3>1 DEF BuffersInv, BuffersOf, locals
    <3> QED BY <3>2, <3>3 DEF BuffersOf
  <2>6. \A u \in Threads \ {t} :
            /\ place'[u] = place[u] /\ good'[u] = good[u]
            /\ current'[u] = current[u] /\ turn'[u] = turn[u]
    BY <2>4 DEF TypeInv, TypeOK, locals
  <2> QED BY <2>4, <2>5, <2>6, BuffersFrame
<1>2. CASE Join \/ SpawnFails \/ UNCHANGED vars
  BY <1>2 DEF Join, SpawnFails, vars, BuffersInv, BuffersOf, Faultless, Copier, Fits, File,
              inputs, locals, Threads
<1>3. ASSUME NEW t \in Threads, Step(t) \/ Throws(t) PROVE BuffersInv'
  <2> USE DEF TypeInv, TypeOK, At, Goto, Leave, Ends, inputs, locals
  <2>1. CASE SetUpRing(t)
    <3>1. (Faultless(t) => BuffersOf(t))'
      BY <2>1 DEF SetUpRing, BuffersInv, BuffersOf, Faultless, Copier, Fits, File
    <3> QED BY <2>1, <3>1, BuffersFrame DEF SetUpRing
  <2>2. CASE OpenInput(t)
    <3>1. (Faultless(t) => BuffersOf(t))'
      <4>1. SUFFICES ASSUME Faultless(t) PROVE BuffersOf(t)'
        BY <2>2 DEF OpenInput, Faultless, Copier, Fits, File
      <4>2. good'[t] = {} /\ turn'[t] = 0 /\ current'[t] = 0
        BY <2>2, <4>1 DEF OpenInput, BuffersInv, BuffersOf, ArrayInv, ArrayOf, Faultless
      <4>3. place'[t] = "fill" BY <2>2 DEF OpenInput
      <4>4. 0 .. 0 - 1 = {} OBVIOUS
      <4> QED BY <4>2, <4>3, <4>4 DEF BuffersOf
    <3> QED BY <2>2, <3>1, BuffersFrame DEF OpenInput
  <2>3. CASE Fill(t)
    <3>1. (Faultless(t) => BuffersOf(t))'
      <4>1. SUFFICES ASSUME Faultless(t)' PROVE BuffersOf(t)'
        OBVIOUS
      <4>2. Faultless(t) /\ failed' = failed
        BY <2>3, <4>1 DEF Fill, Faultless, Copier, Fits, File
      <4>3. /\ place[t] = "fill" /\ place' = place /\ turn' = turn
            /\ program' = program /\ job' = job /\ size' = size
            /\ current'[t] = current[t] + 1
        BY <2>3 DEF Fill, NextIoVec
      <4>4. IF program = "pread" THEN good'[t] = good[t] \cup {current[t]} ELSE good' = good
        BY <2>3, <4>1, <4>2 DEF Fill, Faultless, File
      <4>5. turn[t] = 0 /\ good[t] = IF program = "pread" THEN 0 .. current[t] - 1 ELSE {}
        BY <4>2, <4>3 DEF BuffersInv, BuffersOf
      <4>6. 0 .. current'[t] - 1 = (0 .. current[t] - 1) \cup {current[t]}
        BY <4>3
      <4>7. good'[t] = IF program = "pread" THEN 0 .. current'[t] - 1 ELSE {}
        BY <4>4, <4>5, <4>6
      <4> QED BY <4>3, <4>5, <4>7 DEF BuffersOf
    <3> QED BY <2>3, <3>1, BuffersFrame DEF Fill, NextIoVec
  <2>4. CASE FillBeyond(t)
    <3>1. (Faultless(t) => BuffersOf(t))'
      <4>1. ~Copier(t)
        BY <2>4 DEF FillBeyond, NextIoVec, ArrayInv, ArrayOf
      <4> QED BY <2>4, <4>1 DEF FillBeyond, Faultless, Copier, Fits, File
    <3> QED BY <2>4, <3>1, BuffersFrame DEF FillBeyond, NextIoVec
  <2>5. CASE Filled(t)
    <3>1. (Faultless(t) => BuffersOf(t))'
      <4>1. SUFFICES ASSUME Faultless(t) PROVE BuffersOf(t)'
        BY <2>5 DEF Filled, Faultless, Copier, Fits, File
      <4>2. current[t] = V(t)
        BY <2>5, <4>1 DEF Filled, ArrayInv, ArrayOf, Faultless
      <4> QED BY <2>5, <4>1, <4>2 DEF Filled, BuffersInv, BuffersOf, File
    <3> QED BY <2>5, <3>1, BuffersFrame DEF Filled
  <2>6. CASE ReadVector(t)
    <3>1. PICK n \in {0} \cup 0 .. blocks[t] :
            /\ good' = [good EXCEPT ![t] = 0 .. n - 1]
            /\ failed' = IF n # blocks[t] THEN failed \cup {File(t)} ELSE failed
      BY <2>6 DEF ReadVector
    <3>2. /\ place[t] = "readv" /\ place' = [place EXCEPT ![t] = "closeIn"]
          /\ UNCHANGED <<inputs, current, turn>>
      BY <2>6 DEF ReadVector
    <3>3. (Faultless(t) => BuffersOf(t))'
      <4>1. SUFFICES ASSUME Faultless(t)' PROVE BuffersOf(t)'
        OBVIOUS
      <4>2. Faultless(t) /\ n = blocks[t]
        BY <3>1, <3>2, <4>1 DEF Faultless, Copier, Fits, File
      <4>3. blocks[t] = V(t)
        BY <3>2, <4>2 DEF Faultless, ArrayInv, ArrayOf
      <4>4. good'[t] = 0 .. V(t) - 1 /\ place'[t] = "closeIn" /\ turn'[t] = 0
        BY <3>1, <3>2, <4>2, <4>3 DEF BuffersInv, BuffersOf
      <4> QED BY <3>2, <4>4 DEF BuffersOf, File
    <3>4. \A u \in Threads \ {t} :
            /\ place'[u] = place[u] /\ good'[u] = good[u]
            /\ current'[u] = current[u] /\ turn'[u] = turn[u]
      BY <3>1, <3>2
    <3>5. failed \subseteq failed' BY <3>1
    <3> QED BY <3>2, <3>3, <3>4, <3>5, BuffersFrame
  <2>7. CASE CloseInput(t)
    <3>1. (Faultless(t) => BuffersOf(t))'
      BY <2>7 DEF CloseInput, BuffersInv, BuffersOf, Faultless, Copier, Fits, File
    <3> QED BY <2>7, <3>1, BuffersFrame DEF CloseInput
  <2>8. CASE OpenOutput(t)
    <3>1. (Faultless(t) => BuffersOf(t))'
      BY <2>8 DEF OpenOutput, BuffersInv, BuffersOf, Faultless, Copier, Fits, File
    <3> QED BY <2>8, <3>1, BuffersFrame DEF OpenOutput
  <2>9. CASE WriteBlock(t)
    <3>1. (Faultless(t) => BuffersOf(t))'
      BY <2>9 DEF WriteBlock, BuffersInv, BuffersOf, Faultless, Copier, Fits, File
    <3> QED BY <2>9, <3>1, BuffersFrame DEF WriteBlock
  <2>10. CASE BlocksWritten(t) \/ WriteVector(t)
    <3>1. (Faultless(t) => BuffersOf(t))'
      BY <2>10 DEF BlocksWritten, WriteVector, BuffersInv, BuffersOf, Faultless, Copier, Fits, File
    <3> QED BY <2>10, <3>1, BuffersFrame DEF BlocksWritten, WriteVector
  <2>11. CASE ComputeAndWriteAgain(t)
    <3>1. (Faultless(t) => BuffersOf(t))'
      BY <2>11 DEF ComputeAndWriteAgain, BuffersInv, BuffersOf, Faultless, Copier, Fits, File
    <3> QED BY <2>11, <3>1, BuffersFrame DEF ComputeAndWriteAgain
  <2>12. CASE ComputeOnly(t)
    <3>1. (Faultless(t) => BuffersOf(t))' BY <2>12 DEF ComputeOnly, Faultless, Copier
    <3> QED BY <2>12, <3>1, BuffersFrame DEF ComputeOnly
  <2>13. CASE ExitRing(t)
    <3>1. (Faultless(t) => BuffersOf(t))'
      BY <2>13 DEF ExitRing, BuffersInv, BuffersOf, Faultless, Copier, Fits, File
    <3> QED BY <2>13, <3>1, BuffersFrame DEF ExitRing
  <2>14. CASE NoDescriptor(t) \/ Throws(t)
    <3>1. UNCHANGED <<inputs, place, locals, failed>> BY <2>14 DEF NoDescriptor, Throws
    <3> QED BY <3>1 DEF BuffersInv, BuffersOf, Faultless, Copier, Fits, File, Threads, inputs, locals
  <2> QED BY <1>3, <2>1, <2>2, <2>3, <2>4, <2>5, <2>6, <2>7, <2>8, <2>9, <2>10, <2>11,
             <2>12, <2>13, <2>14 DEF Step
<1> QED BY <1>1, <1>2, <1>3 DEF Next, Main

------------------------------------------------------------------------------
(* The output files.                                                        *)

\* Thread t has written block b once, or has yet to do it for the first time.
Covered(t, b) ==
    \/ place[t] \in {"compute", "exitRing", "ended"}
    \/ place[t] = "write" /\ (turn[t] > 0 \/ b < current[t])

Writing(t, b) == place[t] = "write" /\ turn[t] = 0 /\ current[t] <= b

\* A block that some thread has written is in the output, unless a thread that
\* emptied the output since then is on its way to write the block again.
ContentOf(f) ==
    LET n == IoVecs(size[f]) IN
    /\ content[f] \subseteq 0 .. n - 1
    /\ \A b \in 0 .. n - 1 :
          (\E t \in Threads : job[t] = f /\ Covered(t, b)) =>
              b \in content[f] \/ \E t \in Threads : job[t] = f /\ Writing(t, b)

ContentInv == \A f \in Files \ failed : Fits(f) => ContentOf(f)

LEMMA InitContent == Init => ContentInv
<1> SUFFICES ASSUME Init, NEW f \in Files PROVE ContentOf(f)
  BY DEF ContentInv
<1> QED BY DEF Init, ContentOf, Covered

\* What is written is there after a step in which nothing is written, nothing
\* disappears, and the threads on their way to write go on.
LEMMA KeptContent ==
  ASSUME NEW f \in Files, ContentOf(f), UNCHANGED inputs, content'[f] = content[f],
         \A u \in Threads : job[u] = f => \A b \in 0 .. IoVecs(size[f]) - 1 :
            (Covered(u, b)' => Covered(u, b)) /\ (Writing(u, b) => Writing(u, b)')
  PROVE  ContentOf(f)'
<1>1. size' = size /\ job' = job /\ Threads' = Threads
  BY DEF inputs, Threads
<1>2. content[f] \subseteq 0 .. IoVecs(size[f]) - 1 BY DEF ContentOf
<1>3. ASSUME NEW b \in 0 .. IoVecs(size[f]) - 1, NEW u \in Threads, job[u] = f, Covered(u, b)'
      PROVE  b \in content[f] \/ \E v \in Threads : job[v] = f /\ Writing(v, b)'
  <2>1. Covered(u, b) BY <1>3
  <2>2. b \in content[f] \/ \E v \in Threads : job[v] = f /\ Writing(v, b)
    BY <1>3, <2>1 DEF ContentOf
  <2> QED BY <2>2
<1> QED BY <1>1, <1>2, <1>3 DEF ContentOf

\* A step of t leaves the files of other threads alone.
LEMMA OtherContent ==
  ASSUME ContentInv, UNCHANGED inputs, failed \subseteq failed',
         NEW t \in Threads, NEW f, f = job[t],
         \A u \in Threads \ {t} :
            place'[u] = place[u] /\ current'[u] = current[u] /\ turn'[u] = turn[u],
         \A g \in Files \ {f} : content'[g] = content[g],
         f \in Files \ failed' /\ Fits(f) => ContentOf(f)'
  PROVE  ContentInv'
<1> SUFFICES ASSUME NEW g \in Files \ failed', Fits(g) PROVE ContentOf(g)'
  BY DEF ContentInv, inputs, Files, Threads, Fits
<1>1. CASE g = f BY <1>1
<1>2. CASE g # f
  <2>1. ContentOf(g) BY DEF ContentInv
  <2>2. \A u \in Threads : job[u] = g => \A b \in 0 .. IoVecs(size[g]) - 1 :
            (Covered(u, b)' => Covered(u, b)) /\ (Writing(u, b) => Writing(u, b)')
    BY <1>2 DEF Covered, Writing
  <2> QED BY <1>2, <2>1, <2>2, KeptContent
<1> QED BY <1>1, <1>2

\* A step of t that leaves the files alone, and in which t writes nothing and
\* does not stop being on its way to write.
LEMMA SameContent ==
  ASSUME TypeInv, ContentInv, UNCHANGED <<inputs, content>>, failed \subseteq failed',
         NEW t \in Threads,
         \A u \in Threads \ {t} :
            place'[u] = place[u] /\ current'[u] = current[u] /\ turn'[u] = turn[u],
         Faultless(t) => \A b \in 0 .. IoVecs(size[File(t)]) - 1 :
            (Covered(t, b)' => Covered(t, b)) /\ (Writing(t, b) => Writing(t, b)')
  PROVE  ContentInv'
<1>1. PICK f : f = job[t] OBVIOUS
<1>2. ASSUME f \in Files \ failed', Fits(f) PROVE ContentOf(f)'
  <2>1. ContentOf(f) BY <1>2 DEF ContentInv
  <2>2. Faultless(t) BY <1>1, <1>2 DEF Faultless, Copier, File, Files
  <2>3. ASSUME NEW u \in Threads, job[u] = f, NEW b \in 0 .. IoVecs(size[f]) - 1
        PROVE  (Covered(u, b)' => Covered(u, b)) /\ (Writing(u, b) => Writing(u, b)')
    <3>1. CASE u = t BY <1>1, <2>2, <2>3, <3>1 DEF File
    <3>2. CASE u # t BY <3>2 DEF Covered, Writing
    <3> QED BY <3>1, <3>2
  <2> QED BY <1>2, <2>1, <2>3, KeptContent
<1> QED BY <1>1, <1>2, OtherContent

LEMMA NextContent ==
  TypeInv /\ MainInv /\ ArrayInv /\ BuffersInv /\ ContentInv /\ [Next]_vars => ContentInv'
<1> SUFFICES ASSUME TypeInv, MainInv, ArrayInv, BuffersInv, ContentInv, [Next]_vars
             PROVE  ContentInv'
  OBVIOUS
<1>1. CASE Spawn
  <2>1. at \in Threads /\ place[at] = "unborn"
    <3>1. at \in Threads /\ at >= at BY <1>1 DEF Spawn, MainAt, MainInv, Numbered
    <3> QED BY <1>1, <3>1 DEF Spawn, MainAt, MainInv
  <2>2. PICK t \in Threads : t = at BY <2>1
  <2>3. job[t] # Cpu => FirstPlace(t) \in {"ring", "openIn"} BY DEF FirstPlace
  <2>4. place' = [place EXCEPT ![t] = FirstPlace(t)]
        /\ UNCHANGED <<inputs, locals, content, failed>>
    BY <1>1, <2>2 DEF Spawn
  <2>5. \A u \in Threads \ {t} :
            place'[u] = place[u] /\ current'[u] = current[u] /\ turn'[u] = turn[u]
    BY <2>4 DEF TypeInv, TypeOK, locals
  <2>6. Faultless(t) => \A b \in 0 .. IoVecs(size[File(t)]) - 1 :
            (Covered(t, b)' => Covered(t, b)) /\ (Writing(t, b) => Writing(t, b)')
    BY <2>1, <2>2, <2>3, <2>4 DEF Faultless, Copier, Covered, Writing, TypeInv, TypeOK
  <2> QED BY <2>4, <2>5, <2>6, SameContent
<1>2. CASE Join \/ SpawnFails \/ UNCHANGED vars
  <2>1. UNCHANGED <<inputs, place, locals, content, failed>>
    BY <1>2 DEF Join, SpawnFails, vars
  <2> QED BY <2>1 DEF ContentInv, ContentOf, Covered, Writing, Fits, Files, Threads, inputs, locals
<1>3. ASSUME NEW t \in Threads, Step(t) \/ Throws(t) PROVE ContentInv'
  <2> USE DEF TypeInv, TypeOK, At, Goto, Leave, Ends, inputs, locals
  <2> DEFINE Kept == \A b \in 0 .. IoVecs(size[File(t)]) - 1 :
                (Covered(t, b)' => Covered(t, b)) /\ (Writing(t, b) => Writing(t, b)')
  <2>1. CASE SetUpRing(t) \/ OpenInput(t) \/ Filled(t) \/ CloseInput(t) \/ ExitRing(t)
    <3>1. Kept
      BY <2>1 DEF SetUpRing, OpenInput, Filled, CloseInput, ExitRing, Covered, Writing
    <3> QED BY <2>1, <3>1, SameContent DEF SetUpRing, OpenInput, Filled, CloseInput, ExitRing
  <2>2. CASE Fill(t) \/ FillBeyond(t)
    <3>1. Kept BY <2>2 DEF Fill, FillBeyond, NextIoVec, Covered, Writing
    <3> QED BY <2>2, <3>1, SameContent DEF Fill, FillBeyond, NextIoVec
  <2>3. CASE ReadVector(t)
    <3>1. Kept BY <2>3 DEF ReadVector, Covered, Writing
    <3>2. UNCHANGED <<inputs, content, current, turn>> /\ failed \subseteq failed'
          /\ place' = [place EXCEPT ![t] = "closeIn"]
      BY <2>3 DEF ReadVector
    <3> QED BY <3>1, <3>2, SameContent
  <2>4. CASE OpenOutput(t)
    <3>1. PICK f : f = job[t] OBVIOUS
    <3>2. /\ content' = [content EXCEPT ![f] = {}] /\ place' = [place EXCEPT ![t] = "write"]
          /\ current' = [current EXCEPT ![t] = 0] /\ place[t] = "openOut"
          /\ UNCHANGED <<inputs, turn, failed>>
      BY <2>4, <3>1 DEF OpenOutput, File
    <3>3. ASSUME f \in Files \ failed', Fits(f) PROVE ContentOf(f)'
      <4>1. Faultless(t) BY <3>1, <3>2, <3>3 DEF Faultless, Copier, File, Files
      <4>2. turn'[t] = 0 BY <3>2, <4>1 DEF BuffersInv, BuffersOf
      <4>3. \A b \in 0 .. IoVecs(size[f]) - 1 : Writing(t, b)' BY <3>2, <4>2 DEF Writing
      <4>4. content'[f] = {} BY <3>2, <3>3
      <4>5. job' = job /\ size' = size /\ Threads' = Threads BY <3>2 DEF Threads
      <4> QED BY <3>1, <4>3, <4>4, <4>5 DEF ContentOf
    <3> QED BY <3>1, <3>2, <3>3, OtherContent
  <2>5. CASE WriteBlock(t)
    <3> DEFINE c == current[t]
    <3>1. PICK f : f = job[t] OBVIOUS
    <3>2. /\ place[t] = "write" /\ c < blocks[t] /\ current' = [current EXCEPT ![t] = c + 1]
          /\ UNCHANGED <<inputs, place, turn>> /\ failed \subseteq failed'
      BY <2>5 DEF WriteBlock
    <3>3. /\ \A g \in Files \ {f} : content'[g] = content[g]
          /\ f \notin failed' => Written(t, c, c)
      BY <2>5, <3>1 DEF WriteBlock, Written, File
    <3>4. ASSUME f \in Files \ failed', Fits(f) PROVE ContentOf(f)'
      <4> DEFINE n == IoVecs(size[f])
      <4>1. Faultless(t) BY <3>1, <3>2, <3>4 DEF Faultless, Copier, File, Files
      <4>2. blocks[t] = n /\ good[t] = 0 .. n - 1
        BY <3>1, <3>2, <4>1 DEF BuffersInv, BuffersOf, ArrayInv, ArrayOf, Faultless, File
      <4>3. c \in 0 .. n - 1 BY <3>2, <4>2
      <4>4. ContentOf(f) BY <3>2, <3>4 DEF ContentInv
      <4>5. content'[f] = content[f] \cup {c}
        <5>1. content'[f] = (content[f] \ (c .. c)) \cup (good[t] \cap (c .. c))
          BY <3>1, <3>3, <3>4 DEF Written, File
        <5>2. c .. c = {c} OBVIOUS
        <5> QED BY <4>2, <4>3, <5>1, <5>2
      <4>6. content[f] \subseteq 0 .. n - 1 BY <4>4 DEF ContentOf
      <4>7. job' = job /\ size' = size /\ Threads' = Threads BY <3>2 DEF Threads
      <4>8. ASSUME NEW b \in 0 .. n - 1, NEW u \in Threads, job[u] = f, Covered(u, b)', b # c
            PROVE  b \in content[f] \/ \E v \in Threads : job[v] = f /\ Writing(v, b)'
        <5>1. Covered(u, b)
          BY <3>2, <4>8 DEF Covered
        <5>2. b \in content[f] \/ \E v \in Threads : job[v] = f /\ Writing(v, b)
          BY <4>4, <4>8, <5>1 DEF ContentOf
        <5>3. ASSUME NEW v \in Threads, Writing(v, b) PROVE Writing(v, b)'
          BY <3>2, <4>8, <5>3 DEF Writing
        <5> QED BY <5>2, <5>3
      <4> HIDE DEF c, n
      <4> QED BY <4>3, <4>5, <4>6, <4>7, <4>8 DEF ContentOf, n
    <3>5. \A u \in Threads \ {t} :
            place'[u] = place[u] /\ current'[u] = current[u] /\ turn'[u] = turn[u]
      BY <3>2
    <3> QED BY <3>1, <3>2, <3>3, <3>4, <3>5, OtherContent
  <2>6. CASE BlocksWritten(t)
    <3>1. Faultless(t) => Kept
      <4>1. SUFFICES ASSUME Faultless(t), NEW b \in 0 .. IoVecs(size[File(t)]) - 1
                     PROVE  Covered(t, b) /\ ~Writing(t, b)
        OBVIOUS
      <4>2. place[t] = "write" /\ current[t] >= blocks[t] BY <2>6 DEF BlocksWritten
      <4>3. blocks[t] = IoVecs(size[File(t)])
        BY <4>1, <4>2 DEF ArrayInv, ArrayOf, Faultless
      <4> QED BY <4>2, <4>3 DEF Covered, Writing
    <3> QED BY <2>6, <3>1, SameContent DEF BlocksWritten
  <2>7. CASE WriteVector(t)
    <3>1. PICK f : f = job[t] OBVIOUS
    <3>2. PICK n \in {0} \cup 0 .. blocks[t] :
            /\ Written(t, 0, n - 1)
            /\ failed' = IF n # blocks[t] THEN failed \cup {File(t)} ELSE failed
      BY <2>7 DEF WriteVector
    <3>3. /\ place[t] = "write" /\ place' = [place EXCEPT ![t] = "compute"]
          /\ UNCHANGED <<inputs, current, turn>>
      BY <2>7 DEF WriteVector
    <3>4. ASSUME f \in Files \ failed', Fits(f) PROVE ContentOf(f)'
      <4>1. f \notin failed /\ n = blocks[t] BY <3>1, <3>2, <3>4 DEF File
      <4>2. Faultless(t) BY <3>1, <3>4, <4>1 DEF Faultless, Copier, File, Files
      <4>3. n = IoVecs(size[f]) /\ good[t] = 0 .. n - 1
        BY <3>1, <3>3, <4>1, <4>2 DEF BuffersInv, BuffersOf, ArrayInv, ArrayOf, Faultless, File
      <4>4. content[f] \subseteq 0 .. n - 1 BY <3>4, <4>1, <4>3 DEF ContentInv, ContentOf
      <4>5. content'[f] = (content[f] \ (0 .. n - 1)) \cup (good[t] \cap (0 .. n - 1))
        BY <3>1, <3>2, <3>4 DEF Written, File
      <4>6. content'[f] = 0 .. n - 1 BY <4>3, <4>4, <4>5
      <4>7. job' = job /\ size' = size /\ Threads' = Threads BY <3>3 DEF Threads
      <4> QED BY <4>3, <4>6, <4>7 DEF ContentOf
    <3>5. \A g \in Files \ {f} : content'[g] = content[g]
      BY <3>1, <3>2 DEF Written, File
    <3>6. failed \subseteq failed' BY <3>2
    <3> QED BY <3>1, <3>3, <3>4, <3>5, <3>6, OtherContent
  <2>8. CASE ComputeAndWriteAgain(t)
    <3>1. Kept BY <2>8 DEF ComputeAndWriteAgain, Covered, Writing
    <3> QED BY <2>8, <3>1, SameContent DEF ComputeAndWriteAgain
  <2>9. CASE ComputeOnly(t)
    <3>1. Kept BY <2>9 DEF ComputeOnly, Covered, Writing
    <3> QED BY <2>9, <3>1, SameContent DEF ComputeOnly
  <2>10. CASE NoDescriptor(t) \/ Throws(t)
    <3>1. UNCHANGED <<inputs, place, locals, content, failed>>
      BY <2>10 DEF NoDescriptor, Throws
    <3> QED BY <3>1 DEF ContentInv, ContentOf, Covered, Writing, Fits, Files, Threads
  <2> QED BY <1>3, <2>1, <2>2, <2>3, <2>4, <2>5, <2>6, <2>7, <2>8, <2>9, <2>10 DEF Step
<1> QED BY <1>1, <1>2, <1>3 DEF Next, Main

\* When all threads have ended, each has written all the blocks of its file, and
\* none is about to.
LEMMA ContentIsComplete == TypeInv /\ MainInv /\ ContentInv => CopiesAreComplete
<1> SUFFICES ASSUME TypeInv, MainInv, ContentInv, main = "returned",
                    NEW f \in Files \ failed, Fits(f)
             PROVE  content[f] = 0 .. IoVecs(size[f]) - 1
  BY DEF CopiesAreComplete
<1>1. ContentOf(f) BY DEF ContentInv
<1>2. PICK t \in Threads : job[t] = f BY DEF Files
<1>3. \A u \in Threads : place[u] = "ended" BY DEF MainInv
<1>4. \A b : Covered(t, b) /\ \A u \in Threads : ~Writing(u, b)
  BY <1>3 DEF Covered, Writing
<1> QED BY <1>1, <1>2, <1>4 DEF ContentOf

\* When main returns, every output is a complete copy of its input, however many
\* threads have emptied and written it in whatever order, unless one of their
\* reads or writes failed.
THEOREM CopiesAreAlwaysComplete == Spec => []CopiesAreComplete
<1> DEFINE IInv == TypeInv /\ MainInv /\ ArrayInv /\ BuffersInv /\ ContentInv
<1>1. Init => IInv
  BY InitTypes, InitMain, InitArray, InitBuffers, InitContent
<1>2. IInv /\ [Next]_vars => IInv'
  BY NextTypes, NextMain, NextArray, NextBuffers, NextContent
<1>3. IInv => CopiesAreComplete
  BY ContentIsComplete
<1> QED BY <1>1, <1>2, <1>3, PTL DEF Spec

------------------------------------------------------------------------------
(* Descriptors.                                                             *)

HasRing(t) ==
    /\ program = "io_uring" /\ job[t] # Cpu
    /\ place[t] \notin {"unborn", "ring", "ended"}

HasInput(t) == place[t] \in {"fill", "readv", "closeIn"}

HasOutput(t) ==
    job[t] # Cpu /\ place[t] \in {"write", "compute", "exitRing", "ended"}

\* Which descriptors a thread has open says where it is.
DescriptorsOf(t) ==
    /\ <<t, "ring">> \in open <=> HasRing(t)
    /\ <<t, "in">> \in open <=> HasInput(t)
    /\ <<t, "out">> \in open <=> HasOutput(t)
    /\ program = "pread" => place[t] \notin {"ring", "readv", "exitRing"}

DescriptorsInv == \A t \in Threads : DescriptorsOf(t)

LEMMA InitDescriptors == Init => DescriptorsInv
BY DEF Init, DescriptorsInv, DescriptorsOf, HasRing, HasInput, HasOutput

LEMMA DescriptorsFrame ==
  ASSUME DescriptorsInv, UNCHANGED inputs, NEW t \in Threads, DescriptorsOf(t)',
         \A u \in Threads \ {t} :
            /\ place'[u] = place[u]
            /\ \A d : <<u, d>> \in open' <=> <<u, d>> \in open
  PROVE  DescriptorsInv'
<1> SUFFICES ASSUME NEW u \in Threads, u # t PROVE DescriptorsOf(u)'
  BY DEF inputs, DescriptorsInv, Threads
<1> QED BY DEF inputs, DescriptorsInv, DescriptorsOf, HasRing, HasInput, HasOutput

LEMMA StepDescriptors ==
  ASSUME TypeInv, DescriptorsInv, NEW t \in Threads, Step(t)
  PROVE  DescriptorsInv'
<1>0. /\ place \in [Threads -> Places] /\ DescriptorsOf(t) /\ program \in {"pread", "io_uring"}
      /\ job[t] = Cpu => place[t] \in {"unborn", "compute", "ended"}
  BY DEF TypeInv, TypeOK, CpuOnlyComputes, DescriptorsInv
<1>f. UNCHANGED inputs /\ \A u \in Threads \ {t} : place'[u] = place[u]
  BY StepMoves DEF inputs
<1> SUFFICES DescriptorsOf(t)' /\ \A u \in Threads \ {t} : \A d : <<u, d>> \in open' <=> <<u, d>> \in open
  BY <1>f, DescriptorsFrame
<1> USE <1>0, <1>f DEF inputs, At, Goto, DescriptorsOf, HasRing, HasInput, HasOutput
<1>1. CASE SetUpRing(t) BY <1>1 DEF SetUpRing
<1>2. CASE OpenInput(t) BY <1>2 DEF OpenInput
<1>3. CASE Fill(t) BY <1>3 DEF Fill
<1>4. CASE FillBeyond(t) BY <1>4 DEF FillBeyond
<1>5. CASE Filled(t) BY <1>5 DEF Filled
<1>6. CASE ReadVector(t) BY <1>6 DEF ReadVector
<1>7. CASE CloseInput(t) BY <1>7 DEF CloseInput
<1>8. CASE OpenOutput(t) BY <1>8 DEF OpenOutput
<1>9. CASE WriteBlock(t) BY <1>9 DEF WriteBlock
<1>10. CASE BlocksWritten(t) BY <1>10 DEF BlocksWritten
<1>11. CASE WriteVector(t) BY <1>11 DEF WriteVector
<1>12. CASE ComputeAndWriteAgain(t) BY <1>12 DEF ComputeAndWriteAgain, Leave
<1>13. CASE ComputeOnly(t) BY <1>13 DEF ComputeOnly, Leave
<1>14. CASE ExitRing(t) BY <1>14 DEF ExitRing
<1>15. CASE NoDescriptor(t) BY <1>15 DEF NoDescriptor, Ends
<1> QED BY <1>1, <1>2, <1>3, <1>4, <1>5, <1>6, <1>7, <1>8, <1>9, <1>10, <1>11, <1>12,
           <1>13, <1>14, <1>15 DEF Step

LEMMA NextDescriptors == TypeInv /\ MainInv /\ DescriptorsInv /\ [Next]_vars => DescriptorsInv'
<1> SUFFICES ASSUME TypeInv, MainInv, DescriptorsInv, [Next]_vars PROVE DescriptorsInv'
  OBVIOUS
<1>1. CASE Spawn
  <2>1. PICK t \in Threads : t = at BY <1>1 DEF Spawn, MainAt, MainInv
  <2>2. place[t] = "unborn" /\ DescriptorsOf(t)
    BY <1>1, <2>1 DEF Spawn, MainAt, MainInv, Numbered, DescriptorsInv
  <2>3. /\ place \in [Threads -> Places] /\ place' = [place EXCEPT ![t] = FirstPlace(t)]
        /\ UNCHANGED <<inputs, open>>
    BY <1>1, <2>1 DEF Spawn, TypeInv, TypeOK
  <2>4. DescriptorsOf(t)'
    BY <2>2, <2>3 DEF FirstPlace, inputs, DescriptorsOf, HasRing, HasInput, HasOutput
  <2> QED BY <2>3, <2>4, DescriptorsFrame
<1>2. ASSUME UNCHANGED <<inputs, place, open>> PROVE DescriptorsInv'
  BY <1>2 DEF inputs, Threads, DescriptorsInv, DescriptorsOf, HasRing, HasInput, HasOutput
<1>3. CASE Join \/ SpawnFails \/ (\E t \in Threads : Throws(t)) \/ UNCHANGED vars
  BY <1>2, <1>3 DEF Join, SpawnFails, Throws, Ends, vars
<1> QED BY <1>1, <1>3, StepDescriptors DEF Next, Main

Copiers == {t \in Threads : job[t] # Cpu}

\* A thread that is about to open a descriptor has one less than it may have.
LEMMA OneIsMissing ==
  ASSUME TypeInv, MainInv, DescriptorsInv, NEW t \in Threads,
         place[t] \in {"ring", "openIn", "openOut"}
  PROVE  /\ IsFiniteSet(open)
         /\ Cardinality(open) < Cardinality(Copiers) * (IF program = "io_uring" THEN 2 ELSE 1)
<1>1. open \subseteq Threads \X {"ring", "in", "out"} /\ program \in {"pread", "io_uring"}
  BY DEF TypeInv, TypeOK
<1>2. t \in Copiers BY DEF TypeInv, CpuOnlyComputes, Copiers
<1>3. IsFiniteSet(Copiers) /\ Cardinality(Copiers) \in Nat
  <2>1. PICK n \in Nat \ {0} : Threads = 0 .. n - 1 BY DEF MainInv, Numbered
  <2>2. IsFiniteSet(Threads) BY <2>1, FS_Interval
  <2>3. Copiers \in SUBSET Threads BY DEF Copiers
  <2> QED BY <2>2, <2>3, FS_Subset, FS_CardinalityType
<1>4. ASSUME NEW u \in Threads, NEW d, <<u, d>> \in open
      PROVE  /\ u \in Copiers
             /\ d \in {"ring", "in", "out"} /\ (d = "ring" => program = "io_uring")
             /\ d # "ring" => u # t
             /\ ~(<<u, "in">> \in open /\ <<u, "out">> \in open)
  BY <1>1, <1>4 DEF DescriptorsInv, DescriptorsOf, HasRing, HasInput, HasOutput, Copiers, TypeInv,
     CpuOnlyComputes
<1>5. CASE program = "pread"
  <2> DEFINE T == Copiers \ {t}
             f == [x \in open |-> x[1]]
  <2>1. ASSUME NEW x \in open PROVE x[1] \in T
    <3>1. PICK u \in Threads, d \in {"ring", "in", "out"} : x = <<u, d>> BY <1>1
    <3> QED BY <1>4, <1>5, <3>1
  <2>2. ASSUME NEW x \in open, NEW y \in open, x[1] = y[1] PROVE x = y
    <3>1. PICK u \in Threads, d \in {"ring", "in", "out"} : x = <<u, d>> BY <1>1
    <3>2. PICK v \in Threads, e \in {"ring", "in", "out"} : y = <<v, e>> BY <1>1
    <3>3. u = v BY <2>2, <3>1, <3>2
    <3>4. d \in {"in", "out"} /\ e \in {"in", "out"} BY <1>4, <1>5, <3>1, <3>2
    <3>5. d = e BY <1>4, <3>1, <3>2, <3>3, <3>4
    <3> QED BY <3>1, <3>2, <3>3, <3>5
  <2>3. f \in Injection(open, T)
    BY <2>1, <2>2 DEF Injection, IsInjective
  <2>4. IsFiniteSet(T) /\ Cardinality(T) = Cardinality(Copiers) - 1
    BY <1>2, <1>3, FS_RemoveElement
  <2> HIDE DEF T, f
  <2>5. IsFiniteSet(open) /\ Cardinality(open) <= Cardinality(T)
    BY <2>3, <2>4, FS_Injection
  <2>6. Cardinality(open) \in Nat BY <2>5, FS_CardinalityType
  <2> QED BY <1>3, <1>5, <2>4, <2>5, <2>6
<1>6. CASE program = "io_uring"
  <2> DEFINE P == Copiers \X (1 .. 2)
             T == P \ {<<t, 2>>}
             f == [x \in open |-> <<x[1], IF x[2] = "ring" THEN 1 ELSE 2>>]
  <2>1. ASSUME NEW x \in open PROVE f[x] \in T
    <3>1. PICK u \in Threads, d \in {"ring", "in", "out"} : x = <<u, d>> BY <1>1
    <3>2. u \in Copiers /\ (d # "ring" => u # t) BY <1>4, <3>1
    <3> QED BY <3>1, <3>2
  <2>2. ASSUME NEW x \in open, NEW y \in open, f[x] = f[y] PROVE x = y
    <3>1. PICK u \in Threads, d \in {"ring", "in", "out"} : x = <<u, d>> BY <1>1
    <3>2. PICK v \in Threads, e \in {"ring", "in", "out"} : y = <<v, e>> BY <1>1
    <3>3. u = v /\ (d = "ring" <=> e = "ring") BY <2>2, <3>1, <3>2
    <3>4. d = e BY <1>4, <3>1, <3>2, <3>3
    <3> QED BY <3>1, <3>2, <3>3, <3>4
  <2>3. f \in Injection(open, T)
    <3>1. f \in [open -> T] BY <2>1
    <3> HIDE DEF T, f
    <3> QED BY <2>2, <3>1 DEF Injection, IsInjective
  <2>4. IsFiniteSet(P) /\ Cardinality(P) = Cardinality(Copiers) * 2
    <3>1. IsFiniteSet(1 .. 2) /\ Cardinality(1 .. 2) = 2
      <4>1. PICK a \in Int, b \in Int : a = 1 /\ b = 2 OBVIOUS
      <4>2. IsFiniteSet(a .. b) /\ Cardinality(a .. b) = IF a > b THEN 0 ELSE b - a + 1
        BY FS_Interval
      <4> QED BY <4>1, <4>2
    <3> QED BY <1>3, <3>1, FS_Product
  <2>5. IsFiniteSet(T) /\ Cardinality(T) = Cardinality(Copiers) * 2 - 1
    <3>1. <<t, 2>> \in P BY <1>2
    <3> HIDE DEF P
    <3> QED BY <2>4, <3>1, FS_RemoveElement
  <2> HIDE DEF T, P, f
  <2>6. IsFiniteSet(open) /\ Cardinality(open) <= Cardinality(T)
    BY <2>3, <2>5, FS_Injection
  <2>7. Cardinality(open) \in Nat BY <2>6, FS_CardinalityType
  <2> QED BY <1>3, <1>6, <2>5, <2>6, <2>7
<1> QED BY <1>1, <1>5, <1>6

LEMMA NextSuffices ==
  TypeInv /\ MainInv /\ DescriptorsInv /\ DescriptorsSuffice /\ [Next]_vars => DescriptorsSuffice'
<1> SUFFICES ASSUME TypeInv, MainInv, DescriptorsInv, DescriptorsSuffice, [Next]_vars,
                    process' = "noDescriptor"
             PROVE  (limit < Cardinality(Copiers) * (IF program = "io_uring" THEN 2 ELSE 1))'
  BY DEF DescriptorsSuffice, Copiers
<1>1. CASE process = "noDescriptor"
  <2>1. UNCHANGED inputs
    BY <1>1 DEF Next, Main, Spawn, Join, MainAt, SpawnFails, Throws, Ends, vars, Step, At,
       SetUpRing, OpenInput, Fill, FillBeyond, NextIoVec, Filled, ReadVector, CloseInput, OpenOutput, WriteBlock,
       BlocksWritten, WriteVector, ComputeAndWriteAgain, ComputeOnly, ExitRing, NoDescriptor
  <2> QED BY <1>1, <2>1 DEF DescriptorsSuffice, Copiers, inputs, Threads
<1>2. CASE process # "noDescriptor"
  <2>1. PICK t \in Threads : NoDescriptor(t)
    BY <1>2 DEF Next, Main, Spawn, Join, MainAt, SpawnFails, Throws, Ends, vars, Step, At,
       SetUpRing, OpenInput, Fill, FillBeyond, NextIoVec, Filled, ReadVector, CloseInput, OpenOutput, WriteBlock,
       BlocksWritten, WriteVector, ComputeAndWriteAgain, ComputeOnly, ExitRing
  <2>2. place[t] \in {"ring", "openIn", "openOut"} /\ ~(Cardinality(open) < limit) /\ UNCHANGED inputs
    BY <2>1 DEF NoDescriptor, At, CanOpen, Ends
  <2>3. limit \in Nat BY BenchmarkAssumption DEF TypeInv, TypeOK
  <2>4. limit < Cardinality(Copiers) * (IF program = "io_uring" THEN 2 ELSE 1)
    <3> DEFINE k == Cardinality(Copiers) * (IF program = "io_uring" THEN 2 ELSE 1)
               c == Cardinality(open)
    <3>1. IsFiniteSet(open) /\ c < k BY <2>2, OneIsMissing
    <3>2. c \in Nat BY <3>1, FS_CardinalityType
    <3>3. k \in Int
      <4>1. Cardinality(Copiers) \in Nat
        <5>1. PICK n \in Nat \ {0} : Threads = 0 .. n - 1 BY DEF MainInv, Numbered
        <5>2. IsFiniteSet(Threads) BY <5>1, FS_Interval
        <5>3. Copiers \in SUBSET Threads BY DEF Copiers
        <5> QED BY <5>2, <5>3, FS_Subset, FS_CardinalityType
      <4> QED BY <4>1
    <3> HIDE DEF k
    <3>4. limit < k BY <2>2, <2>3, <3>1, <3>2, <3>3
    <3> QED BY <3>4 DEF k
  <2> QED BY <2>2, <2>4 DEF Copiers, inputs, Threads
<1> QED BY <1>1, <1>2

\* A process that may have a descriptor open for each thread that does I/O, and
\* two with io_uring, never lacks one: whatever the order of the threads, each
\* closes its input before it opens its output (multi-threaded.cc:94 and :118,
\* multi-threaded-iouring.cc:105, :127 and :129).
THEOREM DescriptorsAlwaysSuffice == Spec => []DescriptorsSuffice
<1> DEFINE I == TypeInv /\ MainInv /\ DescriptorsInv /\ DescriptorsSuffice
<1>1. Init => I
  <2>1. Init => DescriptorsSuffice BY DEF Init, DescriptorsSuffice
  <2> QED BY <2>1, InitTypes, InitMain, InitDescriptors
<1>2. I /\ [Next]_vars => I'
  BY NextTypes, NextMain, NextDescriptors, NextSuffices
<1> QED BY <1>1, <1>2, PTL DEF Spec

===============================================================================
