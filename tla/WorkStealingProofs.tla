------------------------- MODULE WorkStealingProofs -------------------------
(***************************************************************************)
(* WorkStealing, for every number of schedulers, every set of chains and   *)
(* every size of the lanes: typing, the protocol of the steal requests     *)
(* (one request at a time, counted without drift, in the right lane), the  *)
(* one place of every task and the life cycle that follows from it, and    *)
(* the counters of the lanes.                                              *)
(***************************************************************************)
EXTENDS WorkStealing, Numbers, FiniteSetTheorems, SequenceTheorems, TLAPS

------------------------------------------------------------------------------
(* Typing.                                                                  *)

\* A thread that is about to use the task in its hand has one.
HandHeld ==
    \A s \in Sched :
        pc[s] \in {"handoff", "acceptSubmit", "process", "spawn"} => hand[s] \in Tasks

TypeInv == TypeOK /\ HandHeld

LEMMA InitTypeInv == Init => TypeInv
  <1> SUFFICES ASSUME Init
               PROVE  TypeInv
    OBVIOUS
  <1>1. FirstSet \subseteq Tasks
    BY TasksAssumption DEF FirstSet
  <1>2. /\ \A s \in Sched : ready[s] \subseteq Tasks
        /\ ready \in [Sched -> SUBSET Tasks]
    BY TasksAssumption DEF Init
  <1>3. taskCount \in [Sched -> Int]
    <2>1. IsFiniteSet(Tasks) /\ \A s \in Sched : ready[s] \subseteq Tasks
      BY <1>2, TasksAssumption
    <2>2. ASSUME NEW s \in Sched PROVE Cardinality(ready[s]) \in Int
      <3>1. IsFiniteSet(ready[s])
        BY <2>1, FS_Subset
      <3>2. Cardinality(ready[s]) \in Nat
        BY <3>1, FS_CardinalityType
      <3> QED
        BY <3>2
    <2>3. taskCount = [s \in Sched |-> Cardinality(ready[s])]
      BY DEF Init
    <2> QED
      BY <2>2, <2>3
  <1>4. 0 \in Sched /\ \A s \in Sched : FromPeer(s, 0) \in 0 .. N
    BY SizesAssumption DEF Sched, FromPeer
  <1>5. /\ ev \in [Sched -> Request]
        /\ scan \in [Sched -> [next : 0 .. N, total : Int, donor : Sched,
                               donorCount : Int, ask : Int]]
        /\ daemon \in [sending : BOOLEAN, donor : Sched]
    BY <1>4 DEF Init, Request, NoRequest, NoScan
  <1>6. /\ subq \in [Sched -> [Sched -> Seq(Request)]]
        /\ compq \in [Sched -> [Sched -> Seq(Tasks)]]
    BY DEF Init
  <1>7. /\ inProcess \in [Sched -> Int]
        /\ submitted \in [Sched -> Int]
        /\ completed \in [Sched -> Int]
        /\ ring \in [Sched -> SUBSET Tasks]
        /\ cq \in [Sched -> SUBSET Tasks]
        /\ pc \in [Sched -> Places]
        /\ idx \in [Sched -> Sched]
        /\ moved \in [Sched -> Nat]
        /\ hand \in [Sched -> Tasks \cup {NoTask}]
        /\ todo \in [Sched -> SUBSET Tasks]
        /\ budget \in 0 .. DaemonRequests
    BY <1>4, SizesAssumption DEF Init, Places
  <1>8. born \subseteq Tasks /\ done \subseteq Tasks /\ aborted \in BOOLEAN
    BY <1>1 DEF Init
  <1>9. HandHeld
    BY DEF Init, HandHeld
  <1> QED
    BY <1>2, <1>3, <1>5, <1>6, <1>7, <1>8, <1>9 DEF TypeInv, TypeOK

\* The types of the helpers' results.
LEMMA UpdateType ==
    ASSUME NEW S, NEW T, NEW f \in [S -> T], NEW x \in S, NEW e \in T
    PROVE  [f EXCEPT ![x] = e] \in [S -> T]
  OBVIOUS

LEMMA AddType ==
    ASSUME NEW counter \in [Sched -> Int], NEW s \in Sched, NEW n \in Int
    PROVE  Add(counter, s, n) \in [Sched -> Int]
  BY DEF Add

LEMMA AppendType ==
    ASSUME NEW V, NEW lane \in [Sched -> [Sched -> Seq(V)]],
           NEW s \in Sched, NEW i \in Sched, NEW v \in V
    PROVE  [lane EXCEPT ![s][i] = Append(@, v)] \in [Sched -> [Sched -> Seq(V)]]
  <1>1. Append(lane[s][i], v) \in Seq(V)
    OBVIOUS
  <1> QED
    BY <1>1

LEMMA TailType ==
    ASSUME NEW V, NEW lane \in [Sched -> [Sched -> Seq(V)]],
           NEW s \in Sched, NEW i \in Sched, lane[s][i] # <<>>
    PROVE  /\ Head(lane[s][i]) \in V
           /\ [lane EXCEPT ![s][i] = Tail(@)] \in [Sched -> [Sched -> Seq(V)]]
  <1>1. Head(lane[s][i]) \in V /\ Tail(lane[s][i]) \in Seq(V)
    <2>1. lane[s][i] \in Seq(V)
      OBVIOUS
    <2> QED
      BY <2>1
  <1> QED
    BY <1>1

LEMMA GotoType ==
    ASSUME pc \in [Sched -> Places], NEW s \in Sched, NEW place \in Places,
           Goto(s, place)
    PROVE  pc' \in [Sched -> Places]
  BY DEF Goto

LEMMA IndexType ==
    /\ 0 \in Sched
    /\ \A i \in Sched : i + 1 < N => i + 1 \in Sched
  BY SizesAssumption DEF Sched

LEMMA NextLaneType ==
    ASSUME pc \in [Sched -> Places], idx \in [Sched -> Sched], NEW s \in Sched,
           NEW here \in Places, NEW after \in Places, NextLane(s, here, after)
    PROVE  idx' \in [Sched -> Sched] /\ pc' \in [Sched -> Places]
  <1>1. pc' \in [Sched -> Places]
    BY DEF NextLane, Goto
  <1>2. 0 \in Sched /\ (idx[s] + 1 < N => idx[s] + 1 \in Sched)
    BY IndexType
  <1> QED
    BY <1>1, <1>2 DEF NextLane

LEMMA SubmitSyncType ==
    ASSUME ready \in [Sched -> SUBSET Tasks], taskCount \in [Sched -> Int],
           NEW s \in Sched, NEW t \in Tasks, SubmitSync(s, t)
    PROVE  ready' \in [Sched -> SUBSET Tasks] /\ taskCount' \in [Sched -> Int]
  <1>1. ready' \in [Sched -> SUBSET Tasks]
    BY DEF SubmitSync
  <1> QED
    BY <1>1, AddType DEF SubmitSync

LEMMA TakeReadyType ==
    ASSUME TypeOK, NEW s \in Sched, NEW t \in Tasks, TakeReady(s, t)
    PROVE  /\ ready' \in [Sched -> SUBSET Tasks]
           /\ taskCount' \in [Sched -> Int]
           /\ hand' \in [Sched -> Tasks \cup {NoTask}]
           /\ hand'[s] = t
           /\ \A x \in Sched \ {s} : hand'[x] = hand[x]
  <1>1. ready' \in [Sched -> SUBSET Tasks]
    BY DEF TypeOK, TakeReady
  <1>2. taskCount' \in [Sched -> Int]
    <2>1. taskCount \in [Sched -> Int] /\ taskCount' = Add(taskCount, s, -1)
      BY DEF TypeOK, TakeReady
    <2> QED
      BY <2>1 DEF Add
  <1>3. /\ hand \in [Sched -> Tasks \cup {NoTask}]
        /\ hand' = [hand EXCEPT ![s] = t]
    BY DEF TypeOK, TakeReady
  <1> QED
    BY <1>1, <1>2, <1>3

\* The typing that the provers find hard to read off an EXCEPT.
LEMMA NoScanType ==
    ASSUME NEW s \in Sched
    PROVE  NoScan(s) \in [next : 0 .. N, total : Int, donor : Sched,
                          donorCount : Int, ask : Int]
  BY SizesAssumption DEF NoScan, FromPeer, Sched

\* A step after which its thread does not use the task in its hand.
LEMMA HandUnused ==
    ASSUME HandHeld, NEW s \in Sched, hand' = hand,
           pc'[s] \notin {"handoff", "acceptSubmit", "process", "spawn"},
           \A x \in Sched \ {s} : pc'[x] = pc[x]
    PROVE  HandHeld'
  BY DEF HandHeld

LEMMA StepTypeInv == TypeInv /\ [Next]_vars => TypeInv'
  <1> SUFFICES ASSUME TypeInv, [Next]_vars
               PROVE  TypeInv'
    OBVIOUS
  <1>t. TypeOK /\ HandHeld
    BY DEF TypeInv
  <1> USE DEF queues, counters, lanes, io, locals, environment, history
  <1>1. ASSUME NEW s \in Sched, NEW t \in Tasks, CollectIo(s, t)
        PROVE  TypeInv'
    <2>1. /\ ready' \in [Sched -> SUBSET Tasks]
         /\ taskCount' \in [Sched -> Int]
      BY <1>1, <1>t, SubmitSyncType DEF TypeOK, CollectIo
    <2>2. cq' \in [Sched -> SUBSET Tasks]
      <3>1. cq \in [Sched -> SUBSET Tasks] /\ cq' = [cq EXCEPT ![s] = @ \ {t}]
        BY <1>1, <1>t DEF TypeOK, CollectIo
      <3> QED
        BY <3>1
    <2>t. TypeOK'
      BY <1>1, <1>t, <2>1, <2>2 DEF TypeOK, CollectIo
    <2>h. HandHeld'
      BY <1>1, <1>t DEF TypeOK, HandHeld, CollectIo, At, Goto, SubmitSync
    <2> QED
      BY <2>t, <2>h DEF TypeInv
  <1>2. ASSUME NEW s \in Sched, CheckSubmitted(s)
        PROVE  TypeInv'
    <2>1. pc' \in [Sched -> Places]
      BY <1>2, <1>t, GotoType DEF TypeOK, CheckSubmitted, Places
    <2>t. TypeOK'
      BY <1>2, <1>t, <2>1 DEF TypeOK, CheckSubmitted
    <2>h. HandHeld'
      BY <1>2, <1>t DEF TypeOK, HandHeld, CheckSubmitted, At, Goto
    <2> QED
      BY <2>t, <2>h DEF TypeInv
  <1>3. ASSUME NEW s \in Sched, SubmissionLaneEmpty(s)
        PROVE  TypeInv'
    <2>1. /\ idx' \in [Sched -> Sched]
         /\ pc' \in [Sched -> Places]
      BY <1>3, <1>t, NextLaneType DEF TypeOK, SubmissionLaneEmpty, Places
    <2>t. TypeOK'
      BY <1>3, <1>t, <2>1 DEF TypeOK, SubmissionLaneEmpty
    <2>h. HandHeld'
      <3>1. pc \in [Sched -> Places] /\ hand' = hand
        BY <1>3, <1>t DEF TypeOK, SubmissionLaneEmpty
      <3>2. /\ pc'[s] \notin {"handoff", "acceptSubmit", "process", "spawn"}
            /\ \A x \in Sched \ {s} : pc'[x] = pc[x]
        BY <1>3, <3>1 DEF SubmissionLaneEmpty, At, Goto, NextLane
      <3> QED
        BY <1>t, <3>1, <3>2, HandUnused
    <2> QED
      BY <2>t, <2>h DEF TypeInv
  <1>4. ASSUME NEW s \in Sched, TakeRequest(s)
        PROVE  TypeInv'
    <2>1. pc' \in [Sched -> Places]
      BY <1>4, <1>t, GotoType DEF TypeOK, TakeRequest, Places
    <2>2. /\ Head(subq[s][idx[s]]) \in Request
         /\ subq' \in [Sched -> [Sched -> Seq(Request)]]
      BY <1>4, <1>t, TailType DEF TypeOK, TakeRequest
    <2>3. ev' \in [Sched -> Request]
      BY <1>4, <1>t, <2>2, UpdateType DEF TypeOK, TakeRequest
    <2>t. TypeOK'
      BY <1>4, <1>t, <2>1, <2>2, <2>3 DEF TypeOK, TakeRequest
    <2>h. HandHeld'
      BY <1>4, <1>t DEF TypeOK, HandHeld, TakeRequest, At, Goto
    <2> QED
      BY <2>t, <2>h DEF TypeInv
  <1>5. ASSUME NEW s \in Sched, NEW t \in Tasks, DonateTask(s, t)
        PROVE  TypeInv'
    <2>1. pc' \in [Sched -> Places]
      BY <1>5, <1>t, GotoType DEF TypeOK, DonateTask, Places
    <2>2. /\ ready' \in [Sched -> SUBSET Tasks]
         /\ taskCount' \in [Sched -> Int]
         /\ hand' \in [Sched -> Tasks \cup {NoTask}]
      BY <1>5, <1>t, TakeReadyType DEF DonateTask
    <2>t. TypeOK'
      BY <1>5, <1>t, <2>1, <2>2 DEF TypeOK, DonateTask
    <2>h. HandHeld'
      <3>1. /\ hand'[s] = t
            /\ \A x \in Sched \ {s} : hand'[x] = hand[x] /\ pc'[x] = pc[x]
        BY <1>5, <1>t, TakeReadyType DEF DonateTask, Goto, TypeOK
      <3> QED
        BY <1>5, <1>t, <3>1 DEF HandHeld
    <2> QED
      BY <2>t, <2>h DEF TypeInv
  <1>6. ASSUME NEW s \in Sched, Handoff(s)
        PROVE  TypeInv'
    <2>1. pc' \in [Sched -> Places]
      BY <1>6, <1>t, GotoType DEF TypeOK, Handoff, Places
    <2>2. /\ hand[s] \in Tasks
         /\ ev[s].to \in Sched
      BY <1>6, <1>t DEF TypeOK, HandHeld, Handoff, At, Request
    <2>3. compq' \in [Sched -> [Sched -> Seq(Tasks)]]
      BY <1>6, <1>t, <2>2, AppendType DEF TypeOK, Handoff
    <2>4. hand' \in [Sched -> Tasks \cup {NoTask}]
      BY <1>6, <1>t, UpdateType DEF TypeOK, Handoff
    <2>t. TypeOK'
      BY <1>6, <1>t, <2>1, <2>2, <2>3, <2>4 DEF TypeOK, Handoff
    <2>h. HandHeld'
      BY <1>6, <1>t DEF TypeOK, HandHeld, Handoff, At, Goto
    <2> QED
      BY <2>t, <2>h DEF TypeInv
  <1>7. ASSUME NEW s \in Sched, HandoffCount(s)
        PROVE  TypeInv'
    <2>1. pc' \in [Sched -> Places]
      BY <1>7, <1>t, GotoType DEF TypeOK, HandoffCount, Places
    <2>2. completed' \in [Sched -> Int]
      <3>1. /\ completed \in [Sched -> Int]
            /\ completed' = Add(completed, ev[s].to, 1)
            /\ ev[s].to \in Sched
        BY <1>7, <1>t DEF TypeOK, HandoffCount, Request
      <3> QED
        BY <3>1 DEF Add
    <2>3. moved' \in [Sched -> Nat]
      <3>1. moved \in [Sched -> Nat] /\ moved' = [moved EXCEPT ![s] = @ + 1]
        BY <1>7, <1>t DEF TypeOK, HandoffCount
      <3> QED
        BY <3>1
    <2>t. TypeOK'
      BY <1>7, <1>t, <2>1, <2>2, <2>3 DEF TypeOK, HandoffCount
    <2>h. HandHeld'
      BY <1>7, <1>t DEF TypeOK, HandHeld, HandoffCount, At, Goto
    <2> QED
      BY <2>t, <2>h DEF TypeInv
  <1>8. ASSUME NEW s \in Sched, RequestServed(s)
        PROVE  TypeInv'
    <2>1. pc' \in [Sched -> Places]
      BY <1>8, <1>t, GotoType DEF TypeOK, RequestServed, Places
    <2>2. submitted' \in [Sched -> Int]
      <3>1. /\ submitted \in [Sched -> Int]
            /\ submitted' = Add(submitted, s, -1)
            /\ s \in Sched
        BY <1>8, <1>t DEF TypeOK, RequestServed, Request
      <3> QED
        BY <3>1 DEF Add
    <2>3. moved' \in [Sched -> Nat]
      BY <1>8, <1>t, UpdateType DEF TypeOK, RequestServed
    <2>4. NoRequest(s) \in Request
      BY <1>8, <1>t DEF NoRequest, Request
    <2>5. ev' \in [Sched -> Request]
      <3>1. /\ ev \in [Sched -> Request]
            /\ ev' = ev \/ ev' = [ev EXCEPT ![s] = NoRequest(s)]
        BY <1>8, <1>t DEF TypeOK, RequestServed
      <3> QED
        BY <2>4, <3>1
    <2>t. TypeOK'
      BY <1>8, <1>t, <2>1, <2>2, <2>3, <2>4, <2>5 DEF TypeOK, RequestServed
    <2>h. HandHeld'
      <3>1. pc \in [Sched -> Places] /\ hand' = hand
        BY <1>8, <1>t DEF TypeOK, RequestServed
      <3>2. /\ pc'[s] \notin {"handoff", "acceptSubmit", "process", "spawn"}
            /\ \A x \in Sched \ {s} : pc'[x] = pc[x]
        BY <1>8, <3>1 DEF RequestServed, At, Goto
      <3> QED
        BY <1>t, <3>1, <3>2, HandUnused
    <2> QED
      BY <2>t, <2>h DEF TypeInv
  <1>9. ASSUME NEW s \in Sched, MarkCompletion(s)
        PROVE  TypeInv'
    <2>1. pc' \in [Sched -> Places]
      BY <1>9, <1>t, GotoType DEF TypeOK, MarkCompletion, Places
    <2>2. inProcess' \in [Sched -> Int]
      <3>1. /\ inProcess \in [Sched -> Int]
            /\ inProcess' = Add(inProcess, ev[s].to, -1)
            /\ ev[s].to \in Sched
        BY <1>9, <1>t DEF TypeOK, MarkCompletion, Request
      <3> QED
        BY <3>1 DEF Add
    <2>3. NoRequest(s) \in Request
      BY <1>9, <1>t DEF NoRequest, Request
    <2>4. ev' \in [Sched -> Request]
      BY <1>9, <1>t, <2>3, UpdateType DEF TypeOK, MarkCompletion
    <2>t. TypeOK'
      BY <1>9, <1>t, <2>1, <2>2, <2>3, <2>4 DEF TypeOK, MarkCompletion
    <2>h. HandHeld'
      BY <1>9, <1>t DEF TypeOK, HandHeld, MarkCompletion, At, Goto
    <2> QED
      BY <2>t, <2>h DEF TypeInv
  <1>10. ASSUME NEW s \in Sched, CheckCompleted(s)
        PROVE  TypeInv'
    <2>1. pc' \in [Sched -> Places]
      BY <1>10, <1>t, GotoType DEF TypeOK, CheckCompleted, Places
    <2>t. TypeOK'
      BY <1>10, <1>t, <2>1 DEF TypeOK, CheckCompleted
    <2>h. HandHeld'
      BY <1>10, <1>t DEF TypeOK, HandHeld, CheckCompleted, At, Goto
    <2> QED
      BY <2>t, <2>h DEF TypeInv
  <1>11. ASSUME NEW s \in Sched, CompletionLaneEmpty(s)
        PROVE  TypeInv'
    <2>1. /\ idx' \in [Sched -> Sched]
         /\ pc' \in [Sched -> Places]
      BY <1>11, <1>t, NextLaneType DEF TypeOK, CompletionLaneEmpty, Places
    <2>t. TypeOK'
      BY <1>11, <1>t, <2>1 DEF TypeOK, CompletionLaneEmpty
    <2>h. HandHeld'
      <3>1. pc \in [Sched -> Places] /\ hand' = hand
        BY <1>11, <1>t DEF TypeOK, CompletionLaneEmpty
      <3>2. /\ pc'[s] \notin {"handoff", "acceptSubmit", "process", "spawn"}
            /\ \A x \in Sched \ {s} : pc'[x] = pc[x]
        BY <1>11, <3>1 DEF CompletionLaneEmpty, At, Goto, NextLane
      <3> QED
        BY <1>t, <3>1, <3>2, HandUnused
    <2> QED
      BY <2>t, <2>h DEF TypeInv
  <1>12. ASSUME NEW s \in Sched, TakeDonated(s)
        PROVE  TypeInv'
    <2>1. pc' \in [Sched -> Places]
      BY <1>12, <1>t, GotoType DEF TypeOK, TakeDonated, Places
    <2>2. /\ Head(compq[s][idx[s]]) \in Tasks
         /\ compq' \in [Sched -> [Sched -> Seq(Tasks)]]
      BY <1>12, <1>t, TailType DEF TypeOK, TakeDonated
    <2>3. hand' \in [Sched -> Tasks \cup {NoTask}]
      BY <1>12, <1>t, <2>2, UpdateType DEF TypeOK, TakeDonated
    <2>t. TypeOK'
      BY <1>12, <1>t, <2>1, <2>2, <2>3 DEF TypeOK, TakeDonated
    <2>h. HandHeld'
      BY <1>12, <1>t, <2>2 DEF TypeOK, HandHeld, TakeDonated, At, Goto
    <2> QED
      BY <2>t, <2>h DEF TypeInv
  <1>13. ASSUME NEW s \in Sched, SubmitDonated(s)
        PROVE  TypeInv'
    <2>1. pc' \in [Sched -> Places]
      BY <1>13, <1>t, GotoType DEF TypeOK, SubmitDonated, Places
    <2>2. hand[s] \in Tasks
      BY <1>13, <1>t DEF HandHeld, SubmitDonated, At
    <2>3. /\ ready' \in [Sched -> SUBSET Tasks]
         /\ taskCount' \in [Sched -> Int]
      BY <1>13, <1>t, <2>2, SubmitSyncType DEF TypeOK, SubmitDonated
    <2>4. hand' \in [Sched -> Tasks \cup {NoTask}]
      BY <1>13, <1>t, UpdateType DEF TypeOK, SubmitDonated
    <2>t. TypeOK'
      BY <1>13, <1>t, <2>1, <2>2, <2>3, <2>4 DEF TypeOK, SubmitDonated
    <2>h. HandHeld'
      BY <1>13, <1>t DEF TypeOK, HandHeld, SubmitDonated, At, Goto, SubmitSync
    <2> QED
      BY <2>t, <2>h DEF TypeInv
  <1>14. ASSUME NEW s \in Sched, DonatedAccepted(s)
        PROVE  TypeInv'
    <2>1. pc' \in [Sched -> Places]
      BY <1>14, <1>t, GotoType DEF TypeOK, DonatedAccepted, Places
    <2>2. completed' \in [Sched -> Int]
      <3>1. /\ completed \in [Sched -> Int]
            /\ completed' = Add(completed, s, -1)
            /\ s \in Sched
        BY <1>14, <1>t DEF TypeOK, DonatedAccepted, Request
      <3> QED
        BY <3>1 DEF Add
    <2>t. TypeOK'
      BY <1>14, <1>t, <2>1, <2>2 DEF TypeOK, DonatedAccepted
    <2>h. HandHeld'
      BY <1>14, <1>t DEF TypeOK, HandHeld, DonatedAccepted, At, Goto
    <2> QED
      BY <2>t, <2>h DEF TypeInv
  <1>15. ASSUME NEW s \in Sched, CheckInProcess(s)
        PROVE  TypeInv'
    <2>1. pc' \in [Sched -> Places]
      BY <1>15, <1>t, GotoType DEF TypeOK, CheckInProcess, Places
    <2>t. TypeOK'
      BY <1>15, <1>t, <2>1 DEF TypeOK, CheckInProcess
    <2>h. HandHeld'
      BY <1>15, <1>t DEF TypeOK, HandHeld, CheckInProcess, At, Goto
    <2> QED
      BY <2>t, <2>h DEF TypeInv
  <1>16. ASSUME NEW s \in Sched, CheckDonated(s)
        PROVE  TypeInv'
    <2>1. pc' \in [Sched -> Places]
      BY <1>16, <1>t, GotoType DEF TypeOK, CheckDonated, Places
    <2>t. TypeOK'
      BY <1>16, <1>t, <2>1 DEF TypeOK, CheckDonated
    <2>h. HandHeld'
      BY <1>16, <1>t DEF TypeOK, HandHeld, CheckDonated, At, Goto
    <2> QED
      BY <2>t, <2>h DEF TypeInv
  <1>17. ASSUME NEW s \in Sched, ScanCount(s)
        PROVE  TypeInv'
    <2>1. /\ scan[s].next \in Sched
         /\ taskCount[scan[s].next] \in Int
         /\ FromPeer(s, scan[s].next + 1) \in 0 .. N
      <3>1. scan[s].next \in 0 .. N /\ scan[s].next < N
        BY <1>17, <1>t DEF TypeOK, ScanCount
      <3>2. scan[s].next \in Sched
        BY <3>1, SizesAssumption DEF Sched
      <3>3. FromPeer(s, scan[s].next + 1) \in 0 .. N
        BY <3>1, SizesAssumption DEF FromPeer, Sched
      <3> QED
        BY <1>t, <3>2, <3>3 DEF TypeOK
    <2>2. scan' \in [Sched -> [next : 0 .. N, total : Int, donor : Sched,
                                  donorCount : Int, ask : Int]]
      <3> DEFINE c == scan[s].next
                 busier == taskCount[c] > scan[s].donorCount
      <3>1. scan \in [Sched -> [next : 0 .. N, total : Int, donor : Sched,
                                donorCount : Int, ask : Int]]
        BY <1>t DEF TypeOK
      <3>2. scan' = [scan EXCEPT
                       ![s] = [next |-> FromPeer(s, c + 1),
                               total |-> scan[s].total + taskCount[c],
                               donor |-> IF busier THEN c ELSE scan[s].donor,
                               donorCount |-> IF busier THEN taskCount[c]
                                                        ELSE scan[s].donorCount,
                               ask |-> 0]]
        BY <1>17 DEF ScanCount
      <3> QED
        BY <2>1, <3>1, <3>2
    <2>t. TypeOK'
      BY <1>17, <1>t, <2>1, <2>2 DEF TypeOK, ScanCount
    <2>h. HandHeld'
      BY <1>17, <1>t DEF TypeOK, HandHeld, ScanCount, At, Goto
    <2> QED
      BY <2>t, <2>h DEF TypeInv
  <1>18. ASSUME NEW s \in Sched, DecideToSteal(s)
        PROVE  TypeInv'
    <2>1. pc' \in [Sched -> Places]
      BY <1>18, <1>t, GotoType DEF TypeOK, DecideToSteal, Places
    <2>2. Wanted(scan[s].total, scan[s].donorCount) \in Int
      <3>1. scan[s].total \in Int /\ scan[s].donorCount \in Int
        BY <1>t DEF TypeOK
      <3>2. Average(scan[s].total) \in Int
        BY <3>1, SizesAssumption DEF Average
      <3> QED
        BY <3>1, <3>2, SizesAssumption DEF Wanted, Lesser
    <2>3. scan' \in [Sched -> [next : 0 .. N, total : Int, donor : Sched,
                                  donorCount : Int, ask : Int]]
      <3> DEFINE ask == Wanted(scan[s].total, scan[s].donorCount)
      <3>1. scan \in [Sched -> [next : 0 .. N, total : Int, donor : Sched,
                                donorCount : Int, ask : Int]]
        BY <1>t DEF TypeOK
      <3>2. \/ scan' = [scan EXCEPT ![s].ask = ask]
            \/ scan' = [scan EXCEPT ![s] = NoScan(s)]
        BY <1>18 DEF DecideToSteal
      <3> HIDE DEF ask
      <3> QED
        BY <2>2, <3>1, <3>2, NoScanType DEF ask
    <2>t. TypeOK'
      BY <1>18, <1>t, <2>1, <2>2, <2>3 DEF TypeOK, DecideToSteal
    <2>h. HandHeld'
      <3>1. pc \in [Sched -> Places] /\ hand' = hand
        BY <1>18, <1>t DEF TypeOK, DecideToSteal
      <3>2. /\ pc'[s] \notin {"handoff", "acceptSubmit", "process", "spawn"}
            /\ \A x \in Sched \ {s} : pc'[x] = pc[x]
        BY <1>18, <3>1 DEF DecideToSteal, At, Goto
      <3> QED
        BY <1>t, <3>1, <3>2, HandUnused
    <2> QED
      BY <2>t, <2>h DEF TypeInv
  <1>19. ASSUME NEW s \in Sched, StealSend(s)
        PROVE  TypeInv'
    <2>1. pc' \in [Sched -> Places]
      BY <1>19, <1>t, GotoType DEF TypeOK, StealSend, Places
    <2>2. /\ scan[s].donor \in Sched
         /\ [count |-> scan[s].ask, to |-> s] \in Request
      BY <1>19, <1>t DEF TypeOK, Request
    <2>3. subq' \in [Sched -> [Sched -> Seq(Request)]]
      <3> DEFINE q == [count |-> scan[s].ask, to |-> s]
      <3>1. /\ subq \in [Sched -> [Sched -> Seq(Request)]]
            /\ subq' = [subq EXCEPT ![scan[s].donor][s] = Append(@, q)]
        BY <1>19, <1>t DEF TypeOK, StealSend
      <3>2. q \in Request
        BY <2>2
      <3> HIDE DEF q
      <3> QED
        BY <2>2, <3>1, <3>2, AppendType
    <2>t. TypeOK'
      BY <1>19, <1>t, <2>1, <2>2, <2>3 DEF TypeOK, StealSend
    <2>h. HandHeld'
      BY <1>19, <1>t DEF TypeOK, HandHeld, StealSend, At, Goto
    <2> QED
      BY <2>t, <2>h DEF TypeInv
  <1>20. ASSUME NEW s \in Sched, StealCount(s)
        PROVE  TypeInv'
    <2>1. pc' \in [Sched -> Places]
      BY <1>20, <1>t, GotoType DEF TypeOK, StealCount, Places
    <2>2. submitted' \in [Sched -> Int]
      <3>1. /\ submitted \in [Sched -> Int]
            /\ submitted' = Add(submitted, scan[s].donor, 1)
            /\ scan[s].donor \in Sched
        BY <1>20, <1>t DEF TypeOK, StealCount, Request
      <3> QED
        BY <3>1 DEF Add
    <2>3. scan' \in [Sched -> [next : 0 .. N, total : Int, donor : Sched,
                                  donorCount : Int, ask : Int]]
      BY <1>20, <1>t, NoScanType, UpdateType DEF TypeOK, StealCount
    <2>t. TypeOK'
      BY <1>20, <1>t, <2>1, <2>2, <2>3 DEF TypeOK, StealCount
    <2>h. HandHeld'
      BY <1>20, <1>t DEF TypeOK, HandHeld, StealCount, At, Goto
    <2> QED
      BY <2>t, <2>h DEF TypeInv
  <1>21. ASSUME NEW s \in Sched, StealMark(s)
        PROVE  TypeInv'
    <2>1. pc' \in [Sched -> Places]
      BY <1>21, <1>t, GotoType DEF TypeOK, StealMark, Places
    <2>2. inProcess' \in [Sched -> Int]
      <3>1. /\ inProcess \in [Sched -> Int]
            /\ inProcess' = Add(inProcess, s, 1)
            /\ s \in Sched
        BY <1>21, <1>t DEF TypeOK, StealMark, Request
      <3> QED
        BY <3>1 DEF Add
    <2>t. TypeOK'
      BY <1>21, <1>t, <2>1, <2>2 DEF TypeOK, StealMark
    <2>h. HandHeld'
      BY <1>21, <1>t DEF TypeOK, HandHeld, StealMark, At, Goto
    <2> QED
      BY <2>t, <2>h DEF TypeInv
  <1>22. ASSUME NEW s \in Sched, NEW t \in Tasks, StartTask(s, t)
        PROVE  TypeInv'
    <2>1. pc' \in [Sched -> Places]
      BY <1>22, <1>t, GotoType DEF TypeOK, StartTask, Places
    <2>2. /\ ready' \in [Sched -> SUBSET Tasks]
         /\ taskCount' \in [Sched -> Int]
         /\ hand' \in [Sched -> Tasks \cup {NoTask}]
      BY <1>22, <1>t, TakeReadyType DEF StartTask
    <2>t. TypeOK'
      BY <1>22, <1>t, <2>1, <2>2 DEF TypeOK, StartTask
    <2>h. HandHeld'
      <3>1. /\ hand'[s] = t
            /\ \A x \in Sched \ {s} : hand'[x] = hand[x] /\ pc'[x] = pc[x]
        BY <1>22, <1>t, TakeReadyType DEF StartTask, Goto, TypeOK
      <3> QED
        BY <1>22, <1>t, <3>1 DEF HandHeld
    <2> QED
      BY <2>t, <2>h DEF TypeInv
  <1>23. ASSUME NEW s \in Sched, ProcessReturns(s)
        PROVE  TypeInv'
    <2>1. pc' \in [Sched -> Places]
      BY <1>23, <1>t, GotoType DEF TypeOK, ProcessReturns, Places
    <2>2. NextTasks[hand[s]] \subseteq Tasks
      BY <1>23, <1>t, TasksAssumption DEF HandHeld, ProcessReturns, At
    <2>3. todo' \in [Sched -> SUBSET Tasks]
      BY <1>23, <1>t, <2>2, UpdateType DEF TypeOK, ProcessReturns
    <2>t. TypeOK'
      BY <1>23, <1>t, <2>1, <2>2, <2>3 DEF TypeOK, ProcessReturns
    <2>h. HandHeld'
      BY <1>23, <1>t DEF TypeOK, HandHeld, ProcessReturns, At, Goto
    <2> QED
      BY <2>t, <2>h DEF TypeInv
  <1>24. ASSUME NEW s \in Sched, NEW t \in Tasks, SubmitNextTask(s, t)
        PROVE  TypeInv'
    <2>1. todo' \in [Sched -> SUBSET Tasks]
      <3>1. /\ todo \in [Sched -> SUBSET Tasks]
            /\ todo' = [todo EXCEPT ![s] = @ \ {t}]
        BY <1>24, <1>t DEF TypeOK, SubmitNextTask
      <3> QED
        BY <3>1
    <2>2. ring' \in [Sched -> SUBSET Tasks]
      <3>1. /\ ring \in [Sched -> SUBSET Tasks]
            /\ ring' = ring \/ ring' = [ring EXCEPT ![s] = @ \cup {t}]
        BY <1>24, <1>t DEF TypeOK, SubmitNextTask
      <3> QED
        BY <3>1
    <2>3. /\ ready' \in [Sched -> SUBSET Tasks]
         /\ taskCount' \in [Sched -> Int]
      BY <1>24, <1>t, SubmitSyncType DEF TypeOK, SubmitNextTask, queues
    <2>t. TypeOK'
      BY <1>24, <1>t, <2>1, <2>2, <2>3 DEF TypeOK, SubmitNextTask
    <2>h. HandHeld'
      BY <1>24, <1>t DEF TypeOK, HandHeld, SubmitNextTask, At, Goto, SubmitSync
    <2> QED
      BY <2>t, <2>h DEF TypeInv
  <1>25. ASSUME NEW s \in Sched, DeleteTask(s)
        PROVE  TypeInv'
    <2>1. pc' \in [Sched -> Places]
      BY <1>25, <1>t, GotoType DEF TypeOK, DeleteTask, Places
    <2>2. hand[s] \in Tasks
      BY <1>25, <1>t DEF HandHeld, DeleteTask, At
    <2>3. hand' \in [Sched -> Tasks \cup {NoTask}]
      BY <1>25, <1>t, UpdateType DEF TypeOK, DeleteTask
    <2>4. done' \subseteq Tasks
      BY <1>25, <1>t, <2>2 DEF TypeOK, DeleteTask
    <2>t. TypeOK'
      BY <1>25, <1>t, <2>1, <2>2, <2>3, <2>4 DEF TypeOK, DeleteTask
    <2>h. HandHeld'
      BY <1>25, <1>t DEF TypeOK, HandHeld, DeleteTask, At, Goto
    <2> QED
      BY <2>t, <2>h DEF TypeInv
  <1>26. ASSUME NEW s \in Sched, NEW t \in Tasks, IoFails(s, t)
        PROVE  TypeInv'
    <2>1. pc' \in [Sched -> Places]
      BY <1>26, <1>t, GotoType DEF TypeOK, IoFails, Places
    <2>t. TypeOK'
      BY <1>26, <1>t, <2>1 DEF TypeOK, IoFails
    <2>h. HandHeld'
      BY <1>26, <1>t DEF TypeOK, HandHeld, IoFails, At, Goto
    <2> QED
      BY <2>t, <2>h DEF TypeInv
  <1>27. ASSUME NEW s \in Sched, ProcessThrows(s)
        PROVE  TypeInv'
    <2>1. pc' \in [Sched -> Places]
      BY <1>27, <1>t, GotoType DEF TypeOK, ProcessThrows, Places
    <2>t. TypeOK'
      BY <1>27, <1>t, <2>1 DEF TypeOK, ProcessThrows
    <2>h. HandHeld'
      BY <1>27, <1>t DEF TypeOK, HandHeld, ProcessThrows, At, Goto
    <2> QED
      BY <2>t, <2>h DEF TypeInv
  <1>28. ASSUME NEW s \in Sched, NEW t \in Tasks, SubmitThrows(s, t)
        PROVE  TypeInv'
    <2>1. pc' \in [Sched -> Places]
      BY <1>28, <1>t, GotoType DEF TypeOK, SubmitThrows, Places
    <2>t. TypeOK'
      BY <1>28, <1>t, <2>1 DEF TypeOK, SubmitThrows
    <2>h. HandHeld'
      BY <1>28, <1>t DEF TypeOK, HandHeld, SubmitThrows, At, Goto
    <2> QED
      BY <2>t, <2>h DEF TypeInv
  <1>29. ASSUME NEW s \in Sched, NEW t \in Tasks, IoFinishes(s, t)
        PROVE  TypeInv'
    <2>1. ring' \in [Sched -> SUBSET Tasks]
      <3>1. ring \in [Sched -> SUBSET Tasks] /\ ring' = [ring EXCEPT ![s] = @ \ {t}]
        BY <1>29, <1>t DEF TypeOK, IoFinishes
      <3> QED
        BY <3>1
    <2>2. cq' \in [Sched -> SUBSET Tasks]
      <3>1. cq \in [Sched -> SUBSET Tasks] /\ cq' = [cq EXCEPT ![s] = @ \cup {t}]
        BY <1>29, <1>t DEF TypeOK, IoFinishes
      <3> QED
        BY <3>1
    <2>t. TypeOK'
      BY <1>29, <1>t, <2>1, <2>2 DEF TypeOK, IoFinishes
    <2>h. HandHeld'
      BY <1>29, <1>t DEF TypeOK, HandHeld, IoFinishes, At, Goto
    <2> QED
      BY <2>t, <2>h DEF TypeInv
  <1>30. ASSUME NEW d \in Sched, NEW r \in Sched, NEW n \in 1 .. MaxTasksToSteal,
               DaemonSend(d, r, n)
        PROVE  TypeInv'
    <2>1. [count |-> n, to |-> r] \in Request
      BY DEF Request
    <2>2. subq' \in [Sched -> [Sched -> Seq(Request)]]
      <3> DEFINE q == [count |-> n, to |-> r]
      <3>1. /\ subq \in [Sched -> [Sched -> Seq(Request)]]
            /\ subq' = [subq EXCEPT ![d][d] = Append(@, q)]
        BY <1>30, <1>t DEF TypeOK, DaemonSend
      <3>2. q \in Request
        BY <2>1
      <3> HIDE DEF q
      <3> QED
        BY <3>1, <3>2, AppendType
    <2>3. budget' \in 0 .. DaemonRequests
      BY <1>30, <1>t, SizesAssumption DEF TypeOK, DaemonSend
    <2>4. daemon' \in [sending : BOOLEAN, donor : Sched]
      BY <1>30 DEF DaemonSend
    <2>t. TypeOK'
      BY <1>30, <1>t, <2>2, <2>3, <2>4 DEF TypeOK, DaemonSend
    <2>h. HandHeld'
      BY <1>30, <1>t DEF HandHeld, DaemonSend
    <2> QED
      BY <2>t, <2>h DEF TypeInv
  <1>31. CASE DaemonCount
    <2>1. submitted' \in [Sched -> Int]
      <3>1. /\ submitted \in [Sched -> Int]
            /\ submitted' = Add(submitted, daemon.donor, 1)
            /\ daemon.donor \in Sched
        BY <1>31, <1>t DEF TypeOK, DaemonCount, Request
      <3> QED
        BY <3>1 DEF Add
    <2>2. daemon' \in [sending : BOOLEAN, donor : Sched]
      BY <1>31, SizesAssumption DEF DaemonCount, Sched
    <2>t. TypeOK'
      BY <1>31, <1>t, <2>1, <2>2 DEF TypeOK, DaemonCount
    <2>h. HandHeld'
      BY <1>31, <1>t DEF HandHeld, DaemonCount
    <2> QED
      BY <2>t, <2>h DEF TypeInv
  <1>32. CASE EnqueAssertFails
    BY <1>32, <1>t DEF TypeInv, TypeOK, HandHeld, EnqueAssertFails
  <1>33. CASE UNCHANGED vars
    BY <1>33, <1>t DEF TypeInv, TypeOK, HandHeld, vars
  <1> QED
    BY <1>1, <1>2, <1>3, <1>4, <1>5, <1>6, <1>7, <1>8, <1>9, <1>10, <1>11, <1>12, <1>13, <1>14, <1>15, <1>16, <1>17,
       <1>18, <1>19, <1>20, <1>21, <1>22, <1>23, <1>24, <1>25, <1>26, <1>27, <1>28, <1>29, <1>30, <1>31, <1>32, <1>33
       DEF Next, Step, Fail

LEMMA TypeInvHolds == Spec => []TypeInv
  BY InitTypeInv, StepTypeInv, PTL DEF Spec

\* Every variable keeps its type, whatever the constants.
THEOREM Typing == Spec => []TypeOK
  <1>1. TypeInv => TypeOK
    BY DEF TypeInv
  <1> QED
    BY <1>1, TypeInvHolds, PTL

------------------------------------------------------------------------------
(* The steal requests.                                                      *)

\* s has sent a request that it has not counted as in process yet.
Sent(s) == pc[s] \in {"stealCount", "stealMark"}

\* s has convinced itself that no request of its own is under way.
MayAsk(s) == pc[s] \in {"idleCheck2", "scan", "stealSend"}

\* stealTasks never looks at its caller, and a donor it prefers to nobody is
\* another scheduler with tasks.
ScanInv ==
    \A s \in Sched :
        /\ scan[s].next # s
        /\ scan[s].donorCount >= 0
        /\ scan[s].donorCount > 0 => scan[s].donor # s
        /\ pc[s] \in {"stealSend", "stealCount"} => scan[s].donorCount > 0

\* Only requests of other schedulers are acknowledged.
MarkInv == \A s \in Sched : pc[s] = "mark" => idx[s] # s

UniqueDonor == \A s \in Sched : \A d, e \in AskedBy(s) : d = e

Counted ==
    \A s \in Sched :
        inProcess[s] = (IF AskedBy(s) = {} THEN 0 ELSE 1) - (IF Sent(s) THEN 1 ELSE 0)

NothingAsked == \A s \in Sched : MayAsk(s) => AskedBy(s) = {}

ShortLanes ==
    \A s \in Sched : \A d \in AskedBy(s) :
        Len(subq[d][s]) <= IF Serving(d, s) THEN 0 ELSE 1

\* A second request can only be sent after the first was acknowledged, and
\* the acknowledgement may come before the request is counted: the counter,
\* the lanes and the places of sender and donor have to be related at once.
StealInv ==
    /\ ScanInv
    /\ MarkInv
    /\ LaneNamesRecipient
    /\ UniqueDonor
    /\ Counted
    /\ NothingAsked
    /\ ShortLanes

LEMMA InitStealInv == Init => StealInv
  <1> SUFFICES ASSUME Init
               PROVE  StealInv
    OBVIOUS
  <1>1. \A s \in Sched : AskedBy(s) = {}
    BY DEF Init, AskedBy, Serving
  <1>2. ScanInv
    BY SizesAssumption DEF Init, ScanInv, NoScan, FromPeer, Sched
  <1>3. LaneNamesRecipient
    BY DEF Init, LaneNamesRecipient, Serving
  <1>4. MarkInv /\ UniqueDonor /\ Counted /\ NothingAsked /\ ShortLanes
    BY <1>1 DEF Init, MarkInv, UniqueDonor, Counted, NothingAsked, ShortLanes, Sent
  <1> QED
    BY <1>2, <1>3, <1>4 DEF StealInv

\* A step that leaves the lanes, the counter and the requests alone, and takes
\* thread s neither into nor out of one of the places that matter.
Quiet(s) ==
    /\ subq' = subq
    /\ inProcess' = inProcess
    /\ ev' = ev
    /\ scan' = scan
    /\ \A x \in Sched \ {s} : pc'[x] = pc[x] /\ idx'[x] = idx[x]
    /\ \A r \in Sched : Serving(s, r)' <=> Serving(s, r)
    /\ MayAsk(s)' => MayAsk(s)
    /\ Sent(s)' <=> Sent(s)
    /\ pc'[s] \in {"stealSend", "stealCount"} => pc[s] \in {"stealSend", "stealCount"}
    /\ pc'[s] = "mark" => idx'[s] # s

LEMMA QuietPreserves ==
    ASSUME TypeInv, StealInv, NEW s \in Sched, Quiet(s)
    PROVE  StealInv'
  <1>1. \A d, r \in Sched : Serving(d, r)' <=> Serving(d, r)
    BY DEF Quiet, Serving
  <1>2. \A r \in Sched : AskedBy(r)' = AskedBy(r)
    BY <1>1 DEF Quiet, AskedBy
  <1>3. ScanInv' /\ MarkInv'
    BY DEF StealInv, ScanInv, MarkInv, Quiet
  <1>4. LaneNamesRecipient'
    BY <1>1 DEF StealInv, LaneNamesRecipient, Quiet
  <1>5. UniqueDonor'
    BY <1>2 DEF StealInv, UniqueDonor
  <1>6. \A x \in Sched : (Sent(x)' <=> Sent(x)) /\ (MayAsk(x)' => MayAsk(x))
    BY DEF Quiet, Sent, MayAsk
  <1>7. Counted' /\ NothingAsked'
    BY <1>2, <1>6 DEF StealInv, Counted, NothingAsked, Quiet
  <1>8. ShortLanes'
    BY <1>1, <1>2 DEF StealInv, ShortLanes, Quiet, AskedBy
  <1> QED
    BY <1>3, <1>4, <1>5, <1>7, <1>8 DEF StealInv

\* Collecting I/O, moving tasks, executing them and failing are quiet.
QuietStep(s) ==
    \/ \E t \in Tasks : CollectIo(s, t)
    \/ CheckSubmitted(s)
    \/ SubmissionLaneEmpty(s)
    \/ \E t \in Tasks : DonateTask(s, t)
    \/ Handoff(s)
    \/ HandoffCount(s)
    \/ CheckCompleted(s)
    \/ CompletionLaneEmpty(s)
    \/ TakeDonated(s)
    \/ SubmitDonated(s)
    \/ DonatedAccepted(s)
    \/ CheckDonated(s)
    \/ \E t \in Tasks : StartTask(s, t)
    \/ ProcessReturns(s)
    \/ \E t \in Tasks : SubmitNextTask(s, t)
    \/ DeleteTask(s)
    \/ \E t \in Tasks : IoFails(s, t)
    \/ ProcessThrows(s)
    \/ \E t \in Tasks : SubmitThrows(s, t)
    \/ \E t \in Tasks : IoFinishes(s, t)

LEMMA QuietSteps ==
    ASSUME TypeInv, StealInv, NEW s \in Sched, QuietStep(s)
    PROVE  Quiet(s)
  <1>1. pc \in [Sched -> Places] /\ idx \in [Sched -> Sched]
    BY DEF TypeInv, TypeOK
  <1>2. pc[s] = "mark" => idx[s] # s
    BY DEF StealInv, MarkInv
  <1> USE DEF Quiet, Serving, MayAsk, Sent, At, Goto, queues, counters, lanes, io,
              locals, environment, history
  <1>3. ASSUME NEW t \in Tasks, CollectIo(s, t)
        PROVE  Quiet(s)
    BY <1>1, <1>2, <1>3 DEF CollectIo
  <1>4. ASSUME CheckSubmitted(s)
        PROVE  Quiet(s)
    BY <1>1, <1>2, <1>4 DEF CheckSubmitted
  <1>5. ASSUME SubmissionLaneEmpty(s)
        PROVE  Quiet(s)
    BY <1>1, <1>2, <1>5 DEF SubmissionLaneEmpty, NextLane
  <1>6. ASSUME NEW t \in Tasks, DonateTask(s, t)
        PROVE  Quiet(s)
    BY <1>1, <1>2, <1>6 DEF DonateTask
  <1>7. ASSUME Handoff(s)
        PROVE  Quiet(s)
    BY <1>1, <1>2, <1>7 DEF Handoff
  <1>8. ASSUME HandoffCount(s)
        PROVE  Quiet(s)
    BY <1>1, <1>2, <1>8 DEF HandoffCount
  <1>9. ASSUME CheckCompleted(s)
        PROVE  Quiet(s)
    BY <1>1, <1>2, <1>9 DEF CheckCompleted
  <1>10. ASSUME CompletionLaneEmpty(s)
        PROVE  Quiet(s)
    BY <1>1, <1>2, <1>10 DEF CompletionLaneEmpty, NextLane
  <1>11. ASSUME TakeDonated(s)
        PROVE  Quiet(s)
    BY <1>1, <1>2, <1>11 DEF TakeDonated
  <1>12. ASSUME SubmitDonated(s)
        PROVE  Quiet(s)
    BY <1>1, <1>2, <1>12 DEF SubmitDonated
  <1>13. ASSUME DonatedAccepted(s)
        PROVE  Quiet(s)
    BY <1>1, <1>2, <1>13 DEF DonatedAccepted
  <1>14. ASSUME CheckDonated(s)
        PROVE  Quiet(s)
    BY <1>1, <1>2, <1>14 DEF CheckDonated
  <1>15. ASSUME NEW t \in Tasks, StartTask(s, t)
        PROVE  Quiet(s)
    BY <1>1, <1>2, <1>15 DEF StartTask
  <1>16. ASSUME ProcessReturns(s)
        PROVE  Quiet(s)
    BY <1>1, <1>2, <1>16 DEF ProcessReturns
  <1>17. ASSUME NEW t \in Tasks, SubmitNextTask(s, t)
        PROVE  Quiet(s)
    BY <1>1, <1>2, <1>17 DEF SubmitNextTask
  <1>18. ASSUME DeleteTask(s)
        PROVE  Quiet(s)
    BY <1>1, <1>2, <1>18 DEF DeleteTask
  <1>19. ASSUME NEW t \in Tasks, IoFails(s, t)
        PROVE  Quiet(s)
    BY <1>1, <1>2, <1>19 DEF IoFails
  <1>20. ASSUME ProcessThrows(s)
        PROVE  Quiet(s)
    BY <1>1, <1>2, <1>20 DEF ProcessThrows
  <1>21. ASSUME NEW t \in Tasks, SubmitThrows(s, t)
        PROVE  Quiet(s)
    BY <1>1, <1>2, <1>21 DEF SubmitThrows
  <1>22. ASSUME NEW t \in Tasks, IoFinishes(s, t)
        PROVE  Quiet(s)
    BY <1>1, <1>2, <1>22 DEF IoFinishes
  <1> QED
    BY <1>3, <1>4, <1>5, <1>6, <1>7, <1>8, <1>9, <1>10, <1>11, <1>12, <1>13,
       <1>14, <1>15, <1>16, <1>17, <1>18, <1>19, <1>20, <1>21, <1>22
       DEF QuietStep

LEMMA TailElement ==
    ASSUME NEW V, NEW q \in Seq(V), q # <<>>, NEW k \in 1 .. Len(Tail(q))
    PROVE  Tail(q)[k] = q[k + 1] /\ k + 1 \in 1 .. Len(q)
  BY HeadTailProperties

LEMMA TakeRequestPreserves ==
    ASSUME TypeInv, StealInv, NEW s \in Sched, TakeRequest(s)
    PROVE  StealInv'
  <1> DEFINE i == idx[s]
             lane == subq[s][i]
  <1>1. /\ subq \in [Sched -> [Sched -> Seq(Request)]]
        /\ i \in Sched /\ lane \in Seq(Request) /\ lane # <<>>
        /\ pc \in [Sched -> Places] /\ ev \in [Sched -> Request] /\ pc[s] = "drain"
    <2>1. /\ subq \in [Sched -> [Sched -> Seq(Request)]] /\ i \in Sched
          /\ pc \in [Sched -> Places] /\ ev \in [Sched -> Request]
      BY DEF TypeInv, TypeOK
    <2>2. lane # <<>> /\ pc[s] = "drain"
      BY DEF TakeRequest, At
    <2>3. lane \in Seq(Request)
      BY <2>1
    <2> QED
      BY <2>1, <2>2, <2>3
  <1>2. /\ subq' = [subq EXCEPT ![s][i] = Tail(lane)]
        /\ ev' = [ev EXCEPT ![s] = Head(lane)]
        /\ pc' = [pc EXCEPT ![s] = "donate"]
        /\ idx' = idx /\ inProcess' = inProcess /\ scan' = scan
    BY DEF TakeRequest, Goto, counters
  <1>3. \A d, r \in Sched : Serving(d, r)' <=> Serving(d, r) \/ (d = s /\ r = i /\ r # s)
    BY <1>1, <1>2 DEF Serving
  <1>4. \A d, r \in Sched : (d # s \/ r # i) => subq'[d][r] = subq[d][r]
    BY <1>1, <1>2
  <1>5. subq'[s][i] = Tail(lane) /\ Len(subq'[s][i]) = Len(lane) - 1
    BY <1>1, <1>2
  <1>6. \A r \in Sched : AskedBy(r)' = AskedBy(r)
    <2> SUFFICES ASSUME NEW r \in Sched, NEW d \in Sched, d # r
                 PROVE  (subq'[d][r] # <<>> \/ Serving(d, r)') <=> (subq[d][r] # <<>> \/ Serving(d, r))
      BY DEF AskedBy
    <2>1. CASE d = s /\ r = i
      BY <1>1, <1>3, <2>1
    <2>2. CASE d # s \/ r # i
      BY <1>3, <1>4, <2>2
    <2> QED
      BY <2>1, <2>2
  <1>7. ScanInv' /\ MarkInv'
    BY <1>1, <1>2 DEF StealInv, ScanInv, MarkInv
  <1>8. LaneNamesRecipient'
    <2>1. ASSUME NEW d \in Sched, NEW r \in Sched
          PROVE  (\A k \in 1 .. Len(subq[d][r]) :
                    IF d = r THEN subq[d][r][k].to # d ELSE subq[d][r][k].to = r)'
      <3>1. CASE d = s /\ r = i
        <4>1. \A k \in 1 .. Len(subq'[s][i]) :
                subq'[s][i][k] = lane[k + 1] /\ k + 1 \in 1 .. Len(lane)
          BY <1>1, <1>5, TailElement
        <4>2. \A k \in 1 .. Len(lane) : IF s = i THEN lane[k].to # s ELSE lane[k].to = i
          BY <1>1 DEF StealInv, LaneNamesRecipient
        <4>3. \A k \in 1 .. Len(subq'[s][i]) :
                IF s = i THEN subq'[s][i][k].to # s ELSE subq'[s][i][k].to = i
          <5> HIDE DEF i, lane
          <5> QED
            BY <4>1, <4>2
        <4> QED
          BY <3>1, <4>3
      <3>2. CASE d # s \/ r # i
        BY <1>4, <3>2 DEF StealInv, LaneNamesRecipient
      <3> QED
        BY <3>1, <3>2
    <2>2. ASSUME NEW d \in Sched, NEW r \in Sched, Serving(d, r)'
          PROVE  (ev[d].to = r)'
      <3>1. CASE d = s /\ r = i /\ r # s
        <4>1. 1 \in 1 .. Len(lane) /\ Head(lane) = lane[1]
          <5>1. lane \in Seq(Request) /\ lane # <<>>
            BY <1>1
          <5> HIDE DEF lane
          <5>2. Len(lane) \in Nat /\ Len(lane) # 0
            BY <5>1, LenProperties, EmptySeq
          <5> QED
            BY <5>1, <5>2, HeadTailProperties
        <4> QED
          BY <1>1, <1>2, <3>1, <4>1 DEF StealInv, LaneNamesRecipient
      <3>2. CASE Serving(d, r)
        <4>1. d # s
          BY <1>1, <3>2 DEF Serving
        <4> QED
          BY <1>1, <1>2, <3>2, <4>1 DEF StealInv, LaneNamesRecipient
      <3> QED
        BY <1>3, <2>2, <3>1, <3>2
    <2> QED
      BY <2>1, <2>2 DEF LaneNamesRecipient
  <1>9. UniqueDonor'
    BY <1>6 DEF StealInv, UniqueDonor
  <1>10. Counted' /\ NothingAsked'
    BY <1>1, <1>2, <1>6 DEF StealInv, Counted, NothingAsked, Sent, MayAsk
  <1>11. ShortLanes'
    <2> SUFFICES ASSUME NEW r \in Sched, NEW d \in AskedBy(r)'
                 PROVE  (Len(subq[d][r]) <= IF Serving(d, r) THEN 0 ELSE 1)'
      BY DEF ShortLanes
    <2>1. d \in AskedBy(r) /\ d \in Sched /\ d # r
      BY <1>6 DEF AskedBy
    <2>2. CASE d = s /\ r = i
      <3>1. ~Serving(d, r)
        BY <1>1, <2>2 DEF Serving
      <3>2. Len(lane) <= 1
        BY <2>1, <2>2, <3>1 DEF StealInv, ShortLanes
      <3>3. Len(lane) \in Nat
        BY <1>1
      <3>4. Serving(s, i)'
        BY <1>1, <1>2, <1>3, <2>1, <2>2
      <3>5. Len(subq'[s][i]) <= 0
        <4> HIDE DEF i, lane
        <4> QED
          BY <1>5, <3>2, <3>3
      <3> QED
        BY <2>2, <3>4, <3>5
    <2>3. CASE d # s \/ r # i
      BY <1>3, <1>4, <2>1, <2>3 DEF StealInv, ShortLanes
    <2> QED
      BY <2>2, <2>3
  <1> QED
    BY <1>7, <1>8, <1>9, <1>10, <1>11 DEF StealInv

LEMMA RequestServedPreserves ==
    ASSUME TypeInv, StealInv, NEW s \in Sched, RequestServed(s)
    PROVE  StealInv'
  <1>1. /\ pc \in [Sched -> Places] /\ ev \in [Sched -> Request]
        /\ idx[s] \in Sched /\ pc[s] = "donate"
        /\ subq' = subq /\ idx' = idx /\ inProcess' = inProcess /\ scan' = scan
    BY DEF TypeInv, TypeOK, RequestServed, At, lanes
  <1>2. CASE idx[s] # s
    <2>1. pc' = [pc EXCEPT ![s] = "mark"] /\ ev' = ev
      BY <1>2 DEF RequestServed, Goto
    <2>2. Quiet(s)
      BY <1>1, <1>2, <2>1 DEF Quiet, Serving, MayAsk, Sent
    <2> QED
      BY <2>2, QuietPreserves
  <1>3. CASE idx[s] = s
    <2>1. pc' = [pc EXCEPT ![s] = "drain"] /\ ev' = [ev EXCEPT ![s] = NoRequest(s)]
      BY <1>3 DEF RequestServed, Goto
    <2>2. \A d, r \in Sched : (Serving(d, r)' <=> Serving(d, r)) /\ ~Serving(s, r)
      BY <1>1, <1>3, <2>1 DEF Serving
    <2>3. \A r \in Sched : AskedBy(r)' = AskedBy(r)
      BY <1>1, <2>2 DEF AskedBy
    <2>4. ScanInv' /\ MarkInv'
      BY <1>1, <2>1 DEF StealInv, ScanInv, MarkInv
    <2>5. LaneNamesRecipient'
      BY <1>1, <2>1, <2>2 DEF StealInv, LaneNamesRecipient
    <2>6. UniqueDonor'
      BY <2>3 DEF StealInv, UniqueDonor
    <2>7. Counted' /\ NothingAsked'
      BY <1>1, <2>1, <2>3 DEF StealInv, Counted, NothingAsked, Sent, MayAsk
    <2>8. ShortLanes'
      BY <1>1, <2>2, <2>3 DEF StealInv, ShortLanes, AskedBy
    <2> QED
      BY <2>4, <2>5, <2>6, <2>7, <2>8 DEF StealInv
  <1> QED
    BY <1>2, <1>3

\* The donor acknowledges: the recipient's only request is gone.
LEMMA MarkCompletionPreserves ==
    ASSUME TypeInv, StealInv, NEW s \in Sched, MarkCompletion(s)
    PROVE  StealInv'
  <1>a. PICK r \in Sched : r = idx[s]
    BY DEF TypeInv, TypeOK
  <1>1. /\ pc \in [Sched -> Places] /\ ev \in [Sched -> Request]
        /\ inProcess \in [Sched -> Int]
        /\ subq \in [Sched -> [Sched -> Seq(Request)]]
        /\ pc[s] = "mark" /\ r # s
    BY <1>a DEF TypeInv, TypeOK, StealInv, MarkInv, MarkCompletion, At
  <1>2. Serving(s, r) /\ ev[s].to = r /\ s \in AskedBy(r)
    BY <1>1, <1>a DEF StealInv, LaneNamesRecipient, Serving, AskedBy
  <1>3. /\ subq' = subq /\ idx' = idx /\ scan' = scan
        /\ inProcess' = [inProcess EXCEPT ![r] = @ - 1]
        /\ ev' = [ev EXCEPT ![s] = NoRequest(s)]
        /\ pc' = [pc EXCEPT ![s] = "drain"]
    BY <1>1, <1>2 DEF MarkCompletion, Add, Goto, lanes
  <1>4. subq[s][r] = <<>>
    <2>1. subq[s][r] \in Seq(Request) /\ Len(subq[s][r]) <= 0
      BY <1>1, <1>2 DEF StealInv, ShortLanes
    <2> QED
      BY <2>1
  <1>5. \A d, x \in Sched : Serving(d, x)' <=> Serving(d, x) /\ d # s
    BY <1>1, <1>3 DEF Serving
  <1>6. \A x \in Sched : x # r => ~Serving(s, x)
    BY <1>a DEF Serving
  <1>7. \A x \in Sched : x # r => AskedBy(x)' = AskedBy(x)
    BY <1>3, <1>5, <1>6 DEF AskedBy
  <1>8. AskedBy(r)' = {}
    <2>1. AskedBy(r) = {s}
      BY <1>1, <1>2 DEF StealInv, UniqueDonor
    <2>2. \A d \in Sched \ {r, s} : subq[d][r] = <<>> /\ ~Serving(d, r)
      BY <2>1 DEF AskedBy
    <2>3. \A d \in Sched \ {r} : subq'[d][r] = <<>> /\ ~Serving(d, r)'
      BY <1>1, <1>3, <1>4, <1>5, <2>2
    <2> QED
      BY <2>3 DEF AskedBy
  <1>9. ScanInv' /\ MarkInv'
    BY <1>1, <1>3 DEF StealInv, ScanInv, MarkInv
  <1>10. LaneNamesRecipient'
    <2>1. \A d \in Sched : d # s => ev'[d] = ev[d]
      BY <1>1, <1>3
    <2>2. \A d, x \in Sched : Serving(d, x)' => ev'[d].to = x
      BY <1>5, <2>1 DEF StealInv, LaneNamesRecipient
    <2> QED
      BY <1>3, <2>2 DEF StealInv, LaneNamesRecipient
  <1>11. UniqueDonor'
    <2> SUFFICES ASSUME NEW x \in Sched, NEW d \in AskedBy(x)', NEW e \in AskedBy(x)'
                 PROVE  d = e
      BY DEF UniqueDonor
    <2>1. x # r
      BY <1>8
    <2> QED
      BY <1>7, <2>1 DEF StealInv, UniqueDonor
  <1>12. Counted'
    <2>1. \A x \in Sched : Sent(x)' <=> Sent(x)
      BY <1>1, <1>3 DEF Sent
    <2>2. \A x \in Sched : x # r => inProcess'[x] = inProcess[x]
      BY <1>1, <1>3
    <2>3. inProcess'[r] = inProcess[r] - 1 /\ AskedBy(r) # {}
      BY <1>1, <1>2, <1>3
    <2>4. \A x \in Sched :
            inProcess[x] = (IF AskedBy(x) = {} THEN 0 ELSE 1) - (IF Sent(x) THEN 1 ELSE 0)
      BY DEF StealInv, Counted
    <2>5. ASSUME NEW x \in Sched
          PROVE  (inProcess[x] = (IF AskedBy(x) = {} THEN 0 ELSE 1)
                                 - (IF Sent(x) THEN 1 ELSE 0))'
      <3>1. CASE x = r
        <4>1. inProcess[r] = 1 - (IF Sent(r) THEN 1 ELSE 0)
          BY <1>1, <2>3, <2>4
        <4>2. inProcess'[r] = 0 - (IF Sent(r) THEN 1 ELSE 0)
          BY <2>3, <4>1
        <4> QED
          BY <1>1, <1>8, <2>1, <3>1, <4>2
      <3>2. CASE x # r
        BY <1>7, <2>1, <2>2, <2>4, <3>2
      <3> QED
        BY <3>1, <3>2
    <2> QED
      BY <2>5 DEF Counted
  <1>13. NothingAsked'
    BY <1>1, <1>3, <1>7, <1>8 DEF StealInv, NothingAsked, MayAsk
  <1>14. ShortLanes'
    BY <1>3, <1>5, <1>6, <1>7, <1>8 DEF StealInv, ShortLanes, AskedBy
  <1> QED
    BY <1>9, <1>10, <1>11, <1>12, <1>13, <1>14 DEF StealInv

\* A step that changes nothing the invariant speaks of, except the locals of
\* stealTasks and the places of a thread that is asking.
LEMMA AskingPreserves ==
    ASSUME TypeInv, StealInv, NEW s \in Sched,
           subq' = subq, ev' = ev, idx' = idx,
           \A x \in Sched \ {s} : pc'[x] = pc[x],
           \A r \in Sched : ~Serving(s, r) /\ ~Serving(s, r)',
           ScanInv', Counted',
           MayAsk(s)' => AskedBy(s) = {},
           pc'[s] # "mark"
    PROVE  StealInv'
  <1>1. \A d, r \in Sched : Serving(d, r)' <=> Serving(d, r)
    BY DEF Serving
  <1>2. \A r \in Sched : AskedBy(r)' = AskedBy(r)
    BY <1>1 DEF AskedBy
  <1>3. MarkInv' /\ LaneNamesRecipient'
    BY <1>1 DEF StealInv, MarkInv, LaneNamesRecipient
  <1>4. UniqueDonor'
    BY <1>2 DEF StealInv, UniqueDonor
  <1>5. NothingAsked'
    BY <1>2 DEF StealInv, NothingAsked, MayAsk
  <1>6. ShortLanes'
    BY <1>1, <1>2 DEF StealInv, ShortLanes, AskedBy
  <1> QED
    BY <1>3, <1>4, <1>5, <1>6 DEF StealInv

LEMMA CheckInProcessPreserves ==
    ASSUME TypeInv, StealInv, NEW s \in Sched, CheckInProcess(s)
    PROVE  StealInv'
  <1>1. /\ pc \in [Sched -> Places] /\ pc[s] = "idleCheck"
        /\ subq' = subq /\ ev' = ev /\ idx' = idx /\ scan' = scan
        /\ inProcess' = inProcess
        /\ pc' = [pc EXCEPT ![s] = IF inProcess[s] > 0 THEN "poll" ELSE "idleCheck2"]
    BY DEF TypeInv, TypeOK, CheckInProcess, At, Goto, counters, lanes, locals
  <1>2. \A r \in Sched : AskedBy(r)' = AskedBy(r)
    BY <1>1 DEF AskedBy, Serving
  <1>3. MayAsk(s)' => AskedBy(s) = {}
    <2>1. inProcess[s] = (IF AskedBy(s) = {} THEN 0 ELSE 1)
      BY <1>1 DEF StealInv, Counted, Sent
    <2>2. MayAsk(s)' => ~(inProcess[s] > 0)
      BY <1>1 DEF MayAsk
    <2> QED
      BY <2>1, <2>2
  <1>4. ScanInv' /\ Counted'
    BY <1>1, <1>2 DEF StealInv, ScanInv, Counted, Sent
  <1> QED
    BY <1>1, <1>3, <1>4, AskingPreserves DEF Serving

LEMMA ScanCountPreserves ==
    ASSUME TypeInv, StealInv, NEW s \in Sched, ScanCount(s)
    PROVE  StealInv'
  <1> DEFINE c == scan[s].next
             busier == taskCount[c] > scan[s].donorCount
  <1>1. /\ subq' = subq /\ ev' = ev /\ idx' = idx /\ pc' = pc
        /\ inProcess' = inProcess /\ pc[s] = "scan"
    BY DEF ScanCount, At, counters, lanes
  <1>2. /\ scan \in [Sched -> [next : 0 .. N, total : Int, donor : Sched,
                              donorCount : Int, ask : Int]]
        /\ taskCount \in [Sched -> Int] /\ c \in 0 .. N /\ c < N
    BY DEF TypeInv, TypeOK, ScanCount
  <1>3. c \in Sched /\ taskCount[c] \in Int /\ c # s
    <2>1. c \in Sched
      <3> HIDE DEF c
      <3> QED
        BY <1>2, SizesAssumption DEF Sched
    <2>2. c # s
      BY DEF StealInv, ScanInv
    <2> QED
      BY <1>2, <2>1, <2>2
  <1>4. /\ scan'[s].next = FromPeer(s, c + 1)
        /\ scan'[s].donor = IF busier THEN c ELSE scan[s].donor
        /\ scan'[s].donorCount = IF busier THEN taskCount[c] ELSE scan[s].donorCount
        /\ \A x \in Sched \ {s} : scan'[x] = scan[x]
    BY <1>2 DEF ScanCount
  <1>5. FromPeer(s, c + 1) # s
    <2> HIDE DEF c
    <2> QED
      BY <1>2, SizesAssumption DEF FromPeer, Sched
  <1>6. ScanInv'
    <2>1. scan[s].donorCount \in Int /\ scan[s].donorCount >= 0
          /\ (scan[s].donorCount > 0 => scan[s].donor # s)
      BY <1>2 DEF StealInv, ScanInv
    <2>2. /\ scan'[s].donorCount >= 0
          /\ scan'[s].donorCount > 0 => scan'[s].donor # s
      <3> HIDE DEF c
      <3> QED
        BY <1>3, <1>4, <2>1
    <2> QED
      BY <1>1, <1>4, <1>5, <2>2 DEF StealInv, ScanInv
  <1>7. \A r \in Sched : AskedBy(r)' = AskedBy(r)
    BY <1>1 DEF AskedBy, Serving
  <1>8. Counted'
    BY <1>1, <1>7 DEF StealInv, Counted, Sent
  <1>9. MayAsk(s)' => AskedBy(s) = {}
    BY <1>1 DEF StealInv, NothingAsked, MayAsk
  <1> QED
    BY <1>1, <1>6, <1>8, <1>9, AskingPreserves DEF Serving

\* Only a donor with more tasks than the average is asked, hence one that
\* was found at all.
LEMMA WantedNeedsDonor ==
    ASSUME NEW total \in Int, NEW donorCount \in Int, donorCount >= 0,
           Wanted(total, donorCount) > 0
    PROVE  donorCount > 0
  <1>1. Average(total) \in Int
    BY SizesAssumption DEF Average
  <1> QED
    BY <1>1, SizesAssumption DEF Wanted, Lesser

LEMMA DecideToStealPreserves ==
    ASSUME TypeInv, StealInv, NEW s \in Sched, DecideToSteal(s)
    PROVE  StealInv'
  <1> DEFINE ask == Wanted(scan[s].total, scan[s].donorCount)
  <1>1. /\ subq' = subq /\ ev' = ev /\ idx' = idx /\ inProcess' = inProcess
        /\ pc \in [Sched -> Places] /\ pc[s] = "scan"
        /\ scan \in [Sched -> [next : 0 .. N, total : Int, donor : Sched,
                              donorCount : Int, ask : Int]]
    BY DEF TypeInv, TypeOK, DecideToSteal, At, counters, lanes
  <1>2. \/ /\ ask > 0
           /\ scan' = [scan EXCEPT ![s].ask = ask]
           /\ pc' = [pc EXCEPT ![s] = "stealSend"]
        \/ /\ scan' = [scan EXCEPT ![s] = NoScan(s)]
           /\ pc' = [pc EXCEPT ![s] = "poll"]
    BY DEF DecideToSteal, Goto
  <1>3. ScanInv'
    <2>1. CASE /\ ask > 0
               /\ scan' = [scan EXCEPT ![s].ask = ask]
               /\ pc' = [pc EXCEPT ![s] = "stealSend"]
      <3>1. \A x \in Sched : /\ scan'[x].next = scan[x].next
                             /\ scan'[x].donor = scan[x].donor
                             /\ scan'[x].donorCount = scan[x].donorCount
        BY <1>1, <2>1
      <3>2. scan[s].donorCount > 0
        BY <1>1, <2>1, WantedNeedsDonor DEF StealInv, ScanInv
      <3> QED
        BY <1>1, <2>1, <3>1, <3>2 DEF StealInv, ScanInv
    <2>2. CASE /\ scan' = [scan EXCEPT ![s] = NoScan(s)]
               /\ pc' = [pc EXCEPT ![s] = "poll"]
      <3>1. NoScan(s).next # s /\ NoScan(s).donorCount = 0
        BY SizesAssumption DEF NoScan, FromPeer, Sched
      <3> QED
        BY <1>1, <2>2, <3>1 DEF StealInv, ScanInv
    <2> QED
      BY <1>2, <2>1, <2>2
  <1>4. \A r \in Sched : AskedBy(r)' = AskedBy(r)
    BY <1>1, <1>2 DEF AskedBy, Serving
  <1>5. Counted'
    BY <1>1, <1>2, <1>4 DEF StealInv, Counted, Sent
  <1>6. AskedBy(s) = {}
    BY <1>1 DEF StealInv, NothingAsked, MayAsk
  <1> QED
    BY <1>1, <1>2, <1>3, <1>5, <1>6, AskingPreserves DEF Serving

\* The one step that makes a request come into being.
LEMMA StealSendPreserves ==
    ASSUME TypeInv, StealInv, NEW s \in Sched, StealSend(s)
    PROVE  StealInv'
  <1>a. PICK d \in Sched : d = scan[s].donor
    BY DEF TypeInv, TypeOK
  <1>b. PICK q \in Request : q = [count |-> scan[s].ask, to |-> s]
    BY DEF TypeInv, TypeOK, Request
  <1>1. /\ subq \in [Sched -> [Sched -> Seq(Request)]] /\ pc \in [Sched -> Places]
        /\ pc[s] = "stealSend" /\ d # s /\ q.to = s
    BY <1>a, <1>b DEF TypeInv, TypeOK, StealSend, At, StealInv, ScanInv
  <1>2. /\ subq' = [subq EXCEPT ![d][s] = Append(@, q)]
        /\ pc' = [pc EXCEPT ![s] = "stealCount"]
        /\ ev' = ev /\ idx' = idx /\ inProcess' = inProcess /\ scan' = scan
    BY <1>a, <1>b DEF StealSend, Goto, counters, locals
  <1>3. AskedBy(s) = {}
    BY <1>1 DEF StealInv, NothingAsked, MayAsk
  <1>4. subq[d][s] = <<>> /\ ~Serving(d, s)
    BY <1>1, <1>3 DEF AskedBy
  <1>5. subq'[d][s] = <<q>>
    BY <1>1, <1>2, <1>4
  <1>6. \A e, r \in Sched : (e # d \/ r # s) => subq'[e][r] = subq[e][r]
    BY <1>1, <1>2
  <1>7. \A e, r \in Sched : Serving(e, r)' <=> Serving(e, r)
    BY <1>1, <1>2 DEF Serving
  <1>8. \A r \in Sched : r # s => AskedBy(r)' = AskedBy(r)
    BY <1>6, <1>7 DEF AskedBy
  <1>9. AskedBy(s)' = {d}
    <2>1. \A e \in Sched \ {s} : subq[e][s] = <<>> /\ ~Serving(e, s)
      BY <1>3 DEF AskedBy
    <2>2. \A e \in Sched \ {s} : (subq'[e][s] # <<>> \/ Serving(e, s)') <=> e = d
      BY <1>5, <1>6, <1>7, <2>1
    <2> QED
      BY <1>1, <2>2 DEF AskedBy
  <1>10. ScanInv' /\ MarkInv'
    BY <1>1, <1>2 DEF StealInv, ScanInv, MarkInv
  <1>11. LaneNamesRecipient'
    <2>1. \A k \in 1 .. Len(subq'[d][s]) : subq'[d][s][k].to = s
      BY <1>1, <1>5
    <2>2. ASSUME NEW e \in Sched, NEW r \in Sched
          PROVE  (\A k \in 1 .. Len(subq[e][r]) :
                    IF e = r THEN subq[e][r][k].to # e ELSE subq[e][r][k].to = r)'
      <3>1. CASE e = d /\ r = s
        BY <1>1, <2>1, <3>1
      <3>2. CASE e # d \/ r # s
        BY <1>6, <3>2 DEF StealInv, LaneNamesRecipient
      <3> QED
        BY <3>1, <3>2
    <2>3. \A e, r \in Sched : Serving(e, r)' => ev'[e].to = r
      BY <1>2, <1>7 DEF StealInv, LaneNamesRecipient
    <2> QED
      BY <2>2, <2>3 DEF LaneNamesRecipient
  <1>12. UniqueDonor'
    <2> SUFFICES ASSUME NEW x \in Sched, NEW e \in AskedBy(x)', NEW f \in AskedBy(x)'
                 PROVE  e = f
      BY DEF UniqueDonor
    <2> QED
      BY <1>8, <1>9 DEF StealInv, UniqueDonor
  <1>13. Counted'
    <2>1. Sent(s)' /\ ~Sent(s) /\ \A x \in Sched \ {s} : Sent(x)' <=> Sent(x)
      BY <1>1, <1>2 DEF Sent
    <2>2. inProcess[s] = 0
      BY <1>3, <2>1 DEF StealInv, Counted
    <2>3. \A x \in Sched \ {s} :
            inProcess'[x] = (IF AskedBy(x)' = {} THEN 0 ELSE 1)
                            - (IF Sent(x)' THEN 1 ELSE 0)
      BY <1>2, <1>8, <2>1 DEF StealInv, Counted
    <2>4. inProcess'[s] = (IF AskedBy(s)' = {} THEN 0 ELSE 1)
                          - (IF Sent(s)' THEN 1 ELSE 0)
      BY <1>2, <1>9, <2>1, <2>2
    <2> QED
      BY <2>3, <2>4 DEF Counted
  <1>14. NothingAsked'
    BY <1>1, <1>2, <1>8 DEF StealInv, NothingAsked, MayAsk
  <1>15. ShortLanes'
    <2> SUFFICES ASSUME NEW x \in Sched, NEW e \in AskedBy(x)'
                 PROVE  (Len(subq[e][x]) <= IF Serving(e, x) THEN 0 ELSE 1)'
      BY DEF ShortLanes
    <2>1. CASE x = s
      <3>1. e = d /\ ~Serving(d, s)'
        BY <1>4, <1>7, <1>9, <2>1
      <3>2. Len(subq'[d][s]) = 1
        BY <1>5
      <3> QED
        BY <2>1, <3>1, <3>2
    <2>2. CASE x # s
      <3>1. e \in AskedBy(x) /\ e \in Sched
        BY <1>8, <2>2 DEF AskedBy
      <3> QED
        BY <1>6, <1>7, <2>2, <3>1 DEF StealInv, ShortLanes
    <2> QED
      BY <2>1, <2>2
  <1> QED
    BY <1>10, <1>11, <1>12, <1>13, <1>14, <1>15 DEF StealInv

\* The request is counted only now, when it may have been served already.
LEMMA StealMarkPreserves ==
    ASSUME TypeInv, StealInv, NEW s \in Sched, StealMark(s)
    PROVE  StealInv'
  <1>1. /\ inProcess \in [Sched -> Int]
        /\ pc \in [Sched -> Places] /\ pc[s] = "stealMark"
        /\ pc' = [pc EXCEPT ![s] = "poll"]
        /\ inProcess' = [inProcess EXCEPT ![s] = @ + 1]
        /\ subq' = subq /\ ev' = ev /\ idx' = idx /\ scan' = scan
    BY DEF TypeInv, TypeOK, StealMark, At, Goto, Add, lanes, locals
  <1>2. \A r \in Sched : AskedBy(r)' = AskedBy(r)
    BY <1>1 DEF AskedBy, Serving
  <1>3. ScanInv'
    BY <1>1 DEF StealInv, ScanInv
  <1>4. Counted'
    <2>1. Sent(s) /\ ~Sent(s)' /\ \A x \in Sched \ {s} : Sent(x)' <=> Sent(x)
      BY <1>1 DEF Sent
    <2>2. inProcess[s] = (IF AskedBy(s) = {} THEN 0 ELSE 1) - 1
      BY <2>1 DEF StealInv, Counted
    <2>3. inProcess'[s] = (IF AskedBy(s) = {} THEN 0 ELSE 1)
      BY <1>1, <2>2
    <2>4. \A x \in Sched \ {s} : inProcess'[x] = inProcess[x]
      BY <1>1
    <2> QED
      BY <1>2, <2>1, <2>3, <2>4 DEF StealInv, Counted
  <1> QED
    BY <1>1, <1>3, <1>4, AskingPreserves DEF Serving, MayAsk

LEMMA StealCountPreserves ==
    ASSUME TypeInv, StealInv, NEW s \in Sched, StealCount(s)
    PROVE  StealInv'
  <1>1. /\ pc \in [Sched -> Places] /\ pc[s] = "stealCount"
        /\ pc' = [pc EXCEPT ![s] = "stealMark"]
        /\ scan \in [Sched -> [next : 0 .. N, total : Int, donor : Sched,
                              donorCount : Int, ask : Int]]
        /\ scan' = [scan EXCEPT ![s] = NoScan(s)]
        /\ subq' = subq /\ ev' = ev /\ idx' = idx /\ inProcess' = inProcess
    BY DEF TypeInv, TypeOK, StealCount, At, Goto, lanes
  <1>2. \A r \in Sched : AskedBy(r)' = AskedBy(r)
    BY <1>1 DEF AskedBy, Serving
  <1>3. ScanInv'
    <2>1. NoScan(s).next # s /\ NoScan(s).donorCount = 0
      BY SizesAssumption DEF NoScan, FromPeer, Sched
    <2> QED
      BY <1>1, <2>1 DEF StealInv, ScanInv
  <1>4. Counted'
    BY <1>1, <1>2 DEF StealInv, Counted, Sent
  <1> QED
    BY <1>1, <1>3, <1>4, AskingPreserves DEF Serving, MayAsk

\* The daemon writes to the one lane of a donor that no scheduler asks through.
LEMMA DaemonSendPreserves ==
    ASSUME TypeInv, StealInv, NEW d \in Sched, NEW r \in Sched,
           NEW n \in 1 .. MaxTasksToSteal, DaemonSend(d, r, n)
    PROVE  StealInv'
  <1>a. n \in Int
    BY SizesAssumption
  <1>b. PICK q \in Request : q = [count |-> n, to |-> r]
    BY <1>a DEF Request
  <1>1. /\ subq \in [Sched -> [Sched -> Seq(Request)]]
        /\ subq' = [subq EXCEPT ![d][d] = Append(@, q)] /\ q.to # d
        /\ ev' = ev /\ idx' = idx /\ pc' = pc /\ inProcess' = inProcess /\ scan' = scan
    BY <1>b DEF TypeInv, TypeOK, DaemonSend, counters, locals
  <1>2. \A e, x \in Sched : (e # d \/ x # d) => subq'[e][x] = subq[e][x]
    BY <1>1
  <1>3. \A e, x \in Sched : Serving(e, x)' <=> Serving(e, x)
    BY <1>1 DEF Serving
  <1>4. \A x \in Sched : AskedBy(x)' = AskedBy(x)
    BY <1>2, <1>3 DEF AskedBy
  <1>5. ScanInv' /\ MarkInv'
    BY <1>1 DEF StealInv, ScanInv, MarkInv
  <1>6. LaneNamesRecipient'
    <2>1. ASSUME NEW e \in Sched, NEW x \in Sched
          PROVE  (\A k \in 1 .. Len(subq[e][x]) :
                    IF e = x THEN subq[e][x][k].to # e ELSE subq[e][x][k].to = x)'
      <3>1. CASE e = d /\ x = d
        <4>1. subq[d][d] \in Seq(Request) /\ subq'[d][d] = Append(subq[d][d], q)
          BY <1>1
        <4>2. \A k \in 1 .. Len(subq[d][d]) : subq[d][d][k].to # d
          BY DEF StealInv, LaneNamesRecipient
        <4>3. ASSUME NEW k \in 1 .. Len(subq'[d][d])
              PROVE  subq'[d][d][k].to # d
          <5>1. /\ Len(subq'[d][d]) = Len(subq[d][d]) + 1
                /\ k = Len(subq[d][d]) + 1 => subq'[d][d][k] = q
                /\ k \in 1 .. Len(subq[d][d]) => subq'[d][d][k] = subq[d][d][k]
            BY <4>1, AppendProperties
          <5>2. k = Len(subq[d][d]) + 1 \/ k \in 1 .. Len(subq[d][d])
            BY <4>1, <5>1
          <5> QED
            BY <1>1, <4>2, <5>1, <5>2
        <4> QED
          BY <3>1, <4>3
      <3>2. CASE e # d \/ x # d
        BY <1>2, <3>2 DEF StealInv, LaneNamesRecipient
      <3> QED
        BY <3>1, <3>2
    <2>2. \A e, x \in Sched : Serving(e, x)' => ev'[e].to = x
      BY <1>1, <1>3 DEF StealInv, LaneNamesRecipient
    <2> QED
      BY <2>1, <2>2 DEF LaneNamesRecipient
  <1>7. UniqueDonor' /\ Counted' /\ NothingAsked'
    <2>1. UniqueDonor'
      BY <1>4 DEF StealInv, UniqueDonor
    <2>2. Counted'
      BY <1>1, <1>4 DEF StealInv, Counted, Sent
    <2>3. NothingAsked'
      BY <1>1, <1>4 DEF StealInv, NothingAsked, MayAsk
    <2> QED
      BY <2>1, <2>2, <2>3
  <1>8. ShortLanes'
    BY <1>2, <1>3, <1>4 DEF StealInv, ShortLanes, AskedBy
  <1> QED
    BY <1>5, <1>6, <1>7, <1>8 DEF StealInv

LEMMA UnchangedPreserves ==
    ASSUME StealInv, UNCHANGED <<subq, inProcess, pc, idx, ev, scan>>
    PROVE  StealInv'
  BY DEF StealInv, ScanInv, MarkInv, LaneNamesRecipient, UniqueDonor, Counted,
         NothingAsked, ShortLanes, AskedBy, Serving, Sent, MayAsk

LEMMA StepStealInv == TypeInv /\ StealInv /\ [Next]_vars => StealInv'
  <1> SUFFICES ASSUME TypeInv, StealInv, [Next]_vars
               PROVE  StealInv'
    OBVIOUS
  <1>1. ASSUME NEW s \in Sched, Step(s)
        PROVE  StealInv'
    <2>1. CASE QuietStep(s)
      BY <2>1, QuietSteps, QuietPreserves
    <2>2. CASE TakeRequest(s)
      BY <2>2, TakeRequestPreserves
    <2>3. CASE RequestServed(s)
      BY <2>3, RequestServedPreserves
    <2>4. CASE MarkCompletion(s)
      BY <2>4, MarkCompletionPreserves
    <2>5. CASE CheckInProcess(s)
      BY <2>5, CheckInProcessPreserves
    <2>6. CASE ScanCount(s)
      BY <2>6, ScanCountPreserves
    <2>7. CASE DecideToSteal(s)
      BY <2>7, DecideToStealPreserves
    <2>8. CASE StealSend(s)
      BY <2>8, StealSendPreserves
    <2>9. CASE StealCount(s)
      BY <2>9, StealCountPreserves
    <2>10. CASE StealMark(s)
      BY <2>10, StealMarkPreserves
    <2> QED
      BY <1>1, <2>1, <2>2, <2>3, <2>4, <2>5, <2>6, <2>7, <2>8, <2>9, <2>10
         DEF Step, QuietStep
  <1>2. ASSUME NEW s \in Sched, Fail(s)
        PROVE  StealInv'
    <2>1. QuietStep(s)
      BY <1>2 DEF Fail, QuietStep
    <2> QED
      BY <2>1, QuietSteps, QuietPreserves
  <1>3. ASSUME NEW s \in Sched, NEW t \in Tasks, IoFinishes(s, t)
        PROVE  StealInv'
    <2>1. QuietStep(s)
      BY <1>3 DEF QuietStep
    <2> QED
      BY <2>1, QuietSteps, QuietPreserves
  <1>4. ASSUME NEW d \in Sched, NEW r \in Sched, NEW n \in 1 .. MaxTasksToSteal,
               DaemonSend(d, r, n)
        PROVE  StealInv'
    BY <1>4, DaemonSendPreserves
  <1>5. CASE DaemonCount \/ EnqueAssertFails \/ UNCHANGED vars
    BY <1>5, UnchangedPreserves
       DEF DaemonCount, EnqueAssertFails, vars, counters, lanes, locals
  <1> QED
    BY <1>1, <1>2, <1>3, <1>4, <1>5 DEF Next

LEMMA StealInvHolds == Spec => [](TypeInv /\ StealInv)
  BY InitTypeInv, StepTypeInv, InitStealInv, StepStealInv, PTL DEF Spec

LEMMA CardinalityOfAsked ==
    ASSUME StealInv, NEW s \in Sched
    PROVE  Cardinality(AskedBy(s)) = IF AskedBy(s) = {} THEN 0 ELSE 1
  <1>1. CASE AskedBy(s) = {}
    BY <1>1, FS_EmptySet
  <1>2. CASE AskedBy(s) # {}
    <2>1. PICK d : d \in AskedBy(s)
      BY <1>2
    <2>2. AskedBy(s) = {d}
      BY <2>1 DEF StealInv, UniqueDonor
    <2> QED
      BY <1>2, <2>2, FS_Singleton
  <1> QED
    BY <1>1, <1>2

\* For any number of schedulers, a scheduler without tasks never has two steal
\* requests under way, at one donor or at several.
THEOREM OneRequest == Spec => []OneRequestAtATime
  <1>1. TypeInv /\ StealInv => OneRequestAtATime
    <2> SUFFICES ASSUME TypeInv, StealInv, NEW s \in Sched
                 PROVE  Cardinality(AskedBy(s)) <= 1
      BY DEF OneRequestAtATime, StealInv, ShortLanes
    <2> QED
      BY CardinalityOfAsked
  <1> QED
    BY <1>1, StealInvHolds, PTL

\* in_process_steal_requests never drifts from the requests under way.
THEOREM InProcessCounts == Spec => []InProcessMatchesRequests
  <1>1. TypeInv /\ StealInv => InProcessMatchesRequests
    BY CardinalityOfAsked DEF InProcessMatchesRequests, StealInv, Counted, Sent
  <1> QED
    BY <1>1, StealInvHolds, PTL

\* The assert of enque cannot fail for a steal request, even in lanes of one
\* place: the lane is empty whenever stealTasks fills it.
THEOREM StealNeverOverflows == Spec => []StealLaneHasRoom
  <1>1. TypeInv /\ StealInv => StealLaneHasRoom
    <2> SUFFICES ASSUME TypeInv, StealInv, NEW s \in Sched, pc[s] = "stealSend"
                 PROVE  subq[scan[s].donor][s] = <<>>
      BY DEF StealLaneHasRoom
    <2>1. AskedBy(s) = {}
      BY DEF StealInv, NothingAsked, MayAsk
    <2>2. scan[s].donor \in Sched /\ scan[s].donor # s
      BY DEF TypeInv, TypeOK, StealInv, ScanInv
    <2> QED
      BY <2>1, <2>2 DEF AskedBy
  <1> QED
    BY <1>1, StealInvHolds, PTL

\* stealTasks never uses doner_scheduler before it was assigned.
THEOREM DonorIsAlwaysKnown == Spec => []DonorIsKnown
  <1>1. StealInv => DonorIsKnown
    BY DEF StealInv, ScanInv, DonorIsKnown
  <1> QED
    BY <1>1, StealInvHolds, PTL

\* stealTasks sends its request to a scheduler it chose, and finds room there.
THEOREM StealingIsSafe == Spec => []StealIsSafe
  <1> QED
    BY Typing, StealNeverOverflows, DonorIsAlwaysKnown, PTL DEF StealIsSafe

\* Every request is acknowledged to the scheduler that sent it.
THEOREM LanesNameRecipients == Spec => []LaneNamesRecipient
  <1>1. StealInv => LaneNamesRecipient
    BY DEF StealInv
  <1> QED
    BY <1>1, StealInvHolds, PTL

------------------------------------------------------------------------------
(* Where the tasks are.                                                     *)

\* Place p is one that holds a copy of task t.
IsPlace(t, p) ==
    \/ \E s \in Sched : p = <<"ready", s>> /\ t \in ready[s]
    \/ \E s \in Sched : p = <<"hand", s>> /\ hand[s] = t
    \/ \E s \in Sched : p = <<"ring", s>> /\ t \in ring[s]
    \/ \E s \in Sched : p = <<"cq", s>> /\ t \in cq[s]
    \/ \E s, d \in Sched : \E i \in 1 .. Len(compq[s][d]) :
          p = <<"lane", s, d, i>> /\ compq[s][d][i] = t

LEMMA PlacesAre == \A t, p : p \in PlacesOf(t) <=> IsPlace(t, p)
  <1> SUFFICES ASSUME NEW t, NEW p PROVE p \in PlacesOf(t) <=> IsPlace(t, p)
    OBVIOUS
  <1> DEFINE L(s, d) == {<<"lane", s, d, i>> : i \in {k \in 1 .. Len(compq[s][d]) :
                                                        compq[s][d][k] = t}}
             InLanes == p \in UNION {L(s, d) : s \in Sched, d \in Sched}
             InLane == \E s, d \in Sched : \E i \in 1 .. Len(compq[s][d]) :
                           p = <<"lane", s, d, i>> /\ compq[s][d][i] = t
  <1>1. InLanes <=> \E s, d \in Sched : p \in L(s, d)
    <2> HIDE DEF L
    <2> QED
      OBVIOUS
  <1>2. (\E s, d \in Sched : p \in L(s, d)) <=> InLane
    OBVIOUS
  <1>3. p \in PlacesOf(t) <=>
          \/ \E s \in Sched : p = <<"ready", s>> /\ t \in ready[s]
          \/ \E s \in Sched : p = <<"hand", s>> /\ hand[s] = t
          \/ \E s \in Sched : p = <<"ring", s>> /\ t \in ring[s]
          \/ \E s \in Sched : p = <<"cq", s>> /\ t \in cq[s]
          \/ InLanes
    BY DEF PlacesOf
  <1>4. IsPlace(t, p) <=>
          \/ \E s \in Sched : p = <<"ready", s>> /\ t \in ready[s]
          \/ \E s \in Sched : p = <<"hand", s>> /\ hand[s] = t
          \/ \E s \in Sched : p = <<"ring", s>> /\ t \in ring[s]
          \/ \E s \in Sched : p = <<"cq", s>> /\ t \in cq[s]
          \/ InLane
    BY DEF IsPlace
  <1> HIDE DEF InLanes, InLane, L
  <1> QED
    BY <1>1, <1>2, <1>3, <1>4

LEMMA PlacesWillBe == \A t, p : (p \in PlacesOf(t)') <=> IsPlace(t, p)'
  <1>1. (\A t, p : p \in PlacesOf(t) <=> IsPlace(t, p))'
    BY PlacesAre, PTL
  <1> QED
    BY <1>1

\* What a step leaves of the places of task u.
SameReady(u) == \A s \in Sched : (u \in ready'[s]) <=> (u \in ready[s])
SameHand(u) == \A s \in Sched : (hand'[s] = u) <=> (hand[s] = u)
SameRing(u) == \A s \in Sched : (u \in ring'[s]) <=> (u \in ring[s])
SameCq(u) == \A s \in Sched : (u \in cq'[s]) <=> (u \in cq[s])
SameLanes(u) == \A s, d \in Sched : \A i \in Nat :
    (i \in 1 .. Len(compq'[s][d]) /\ compq'[s][d][i] = u)
        <=> (i \in 1 .. Len(compq[s][d]) /\ compq[s][d][i] = u)

LEMMA SamePlaces ==
    ASSUME NEW u, SameReady(u), SameHand(u), SameRing(u), SameCq(u), SameLanes(u)
    PROVE  PlacesOf(u)' = PlacesOf(u)
  <1> SUFFICES ASSUME NEW p PROVE (p \in PlacesOf(u)') <=> p \in PlacesOf(u)
    OBVIOUS
  <1>1. IsPlace(u, p)' <=> IsPlace(u, p)
    BY DEF IsPlace, SameReady, SameHand, SameRing, SameCq, SameLanes
  <1>2. (p \in PlacesOf(u)') <=> IsPlace(u, p)'
    BY PlacesWillBe
  <1> QED
    BY <1>1, <1>2, PlacesAre


\* Task t is in one place from its submission to its deletion.
InOnePlace(t) ==
    /\ t \in born \ done <=> PlacesOf(t) # {}
    /\ \A p, q \in PlacesOf(t) : p = q

OnePlace == \A t \in Tasks : InOnePlace(t)

LEMMA OnlyPlace ==
    ASSUME OnePlace, NEW t \in Tasks, NEW p, NEW q, IsPlace(t, p), IsPlace(t, q)
    PROVE  p = q /\ t \in born /\ t \notin done
  BY PlacesAre DEF OnePlace, InOnePlace

LEMMA StaysInPlace ==
    ASSUME OnePlace, NEW t \in Tasks,
           SameReady(t), SameHand(t), SameRing(t), SameCq(t), SameLanes(t),
           (t \in born' \ done') <=> (t \in born \ done)
    PROVE  InOnePlace(t)'
  <1>1. PlacesOf(t)' = PlacesOf(t)
    BY SamePlaces
  <1> QED
    BY <1>1 DEF OnePlace, InOnePlace

LEMMA MovesTo ==
    ASSUME OnePlace, NEW t \in Tasks, born' = born, done' = done, NEW p, NEW q,
           IsPlace(t, p), IsPlace(t, q)', p # q => ~IsPlace(t, p)',
           \A x : IsPlace(t, x)' => x = q \/ IsPlace(t, x)
    PROVE  InOnePlace(t)'
  <1>1. t \in born' \ done'
    BY OnlyPlace
  <1>2. \A x : (x \in PlacesOf(t)') <=> IsPlace(t, x)'
    BY PlacesWillBe
  <1>3. \A x : IsPlace(t, x)' => x = q
    BY OnlyPlace
  <1> QED
    BY <1>1, <1>2, <1>3 DEF InOnePlace

\* No task moves.
Still == UNCHANGED <<ready, hand, ring, cq, compq, born, done>>

LEMMA StillPlaces == ASSUME OnePlace, Still PROVE OnePlace'
  <1> SUFFICES ASSUME NEW t \in Tasks PROVE InOnePlace(t)'
    BY DEF OnePlace
  <1> QED
    BY StaysInPlace DEF Still, SameReady, SameHand, SameRing, SameCq, SameLanes

LEMMA CollectIoPlaces ==
    ASSUME TypeOK, OnePlace, NEW s \in Sched, NEW t \in Tasks, CollectIo(s, t)
    PROVE  OnePlace'
  <1>1. /\ t \in cq[s] /\ cq' = [cq EXCEPT ![s] = @ \ {t}]
        /\ ready' = [ready EXCEPT ![s] = @ \cup {t}]
        /\ UNCHANGED <<hand, ring, compq, born, done>>
        /\ cq \in [Sched -> SUBSET Tasks] /\ ready \in [Sched -> SUBSET Tasks]
    BY DEF CollectIo, SubmitSync, TypeOK, locals, history, lanes
  <1> SUFFICES ASSUME NEW u \in Tasks PROVE InOnePlace(u)'
    BY DEF OnePlace
  <1>2. CASE u # t
    BY <1>1, <1>2, StaysInPlace DEF SameReady, SameHand, SameRing, SameCq, SameLanes
  <1>3. CASE u = t
    <2> DEFINE p == <<"cq", s>>
               q == <<"ready", s>>
    <2>1. IsPlace(t, p) /\ IsPlace(t, q)'
      BY <1>1 DEF IsPlace
    <2>2. ~IsPlace(t, p)'
      BY <1>1 DEF IsPlace
    <2>3. \A x : IsPlace(t, x)' => x = q \/ IsPlace(t, x)
      BY <1>1 DEF IsPlace
    <2> HIDE DEF p, q
    <2> QED
      BY <1>1, <1>3, <2>1, <2>2, <2>3, MovesTo
  <1> QED
    BY <1>2, <1>3

LEMMA IoFinishesPlaces ==
    ASSUME TypeInv, OnePlace, NEW s \in Sched, NEW t \in Tasks, IoFinishes(s, t)
    PROVE  OnePlace'
  <1>1. /\ t \in ring[s] /\ ring' = [ring EXCEPT ![s] = @ \ {t}]
        /\ cq' = [cq EXCEPT ![s] = @ \cup {t}]
        /\ UNCHANGED <<ready, hand, compq, born, done>>
        /\ cq \in [Sched -> SUBSET Tasks] /\ ring \in [Sched -> SUBSET Tasks]
    BY DEF IoFinishes, queues, locals, history, lanes, TypeInv, TypeOK, HandHeld
  <1> SUFFICES ASSUME NEW u \in Tasks PROVE InOnePlace(u)'
    BY DEF OnePlace
  <1>2. CASE u # t
    BY <1>1, <1>2, StaysInPlace DEF SameReady, SameHand, SameRing, SameCq, SameLanes
  <1>3. CASE u = t
    <2> DEFINE p == <<"ring", s>>
               q == <<"cq", s>>
    <2>1. IsPlace(t, p) /\ IsPlace(t, q)'
      BY <1>1 DEF IsPlace
    <2>2. ~IsPlace(t, p)'
      BY <1>1 DEF IsPlace
    <2>3. \A x : IsPlace(t, x)' => x = q \/ IsPlace(t, x)
      BY <1>1 DEF IsPlace
    <2> HIDE DEF p, q
    <2> QED
      BY <1>1, <1>3, <2>1, <2>2, <2>3, MovesTo
  <1> QED
    BY <1>2, <1>3

LEMMA TakeReadyPlaces ==
    ASSUME TypeInv, OnePlace, NEW s \in Sched, NEW t \in Tasks, TakeReady(s, t),
           hand[s] = NoTask, UNCHANGED <<ring, cq, compq, born, done>>
    PROVE  OnePlace'
  <1>1. /\ t \in ready[s] /\ ready' = [ready EXCEPT ![s] = @ \ {t}]
        /\ hand' = [hand EXCEPT ![s] = t] /\ hand[s] \notin Tasks
        /\ ready \in [Sched -> SUBSET Tasks] /\ hand \in [Sched -> Tasks \cup {NoTask}]
    BY TasksAssumption DEF TakeReady, TypeInv, TypeOK
  <1> SUFFICES ASSUME NEW u \in Tasks PROVE InOnePlace(u)'
    BY DEF OnePlace
  <1>2. CASE u # t
    BY <1>1, <1>2, StaysInPlace DEF SameReady, SameHand, SameRing, SameCq, SameLanes
  <1>3. CASE u = t
    <2> DEFINE p == <<"ready", s>>
               q == <<"hand", s>>
    <2>1. IsPlace(t, p) /\ IsPlace(t, q)'
      BY <1>1 DEF IsPlace
    <2>2. ~IsPlace(t, p)'
      BY <1>1 DEF IsPlace
    <2>3. \A x : IsPlace(t, x)' => x = q \/ IsPlace(t, x)
      BY <1>1 DEF IsPlace
    <2> HIDE DEF p, q
    <2> QED
      BY <1>1, <1>3, <2>1, <2>2, <2>3, MovesTo
  <1> QED
    BY <1>2, <1>3

LEMMA SubmitDonatedPlaces ==
    ASSUME TypeInv, OnePlace, NEW s \in Sched, SubmitDonated(s)
    PROVE  OnePlace'
  <1>a. PICK t \in Tasks : t = hand[s]
    BY DEF SubmitDonated, At, TypeInv, HandHeld
  <1>1. /\ t \in Tasks /\ NoTask \notin Tasks
        /\ ready' = [ready EXCEPT ![s] = @ \cup {t}]
        /\ hand' = [hand EXCEPT ![s] = NoTask]
        /\ UNCHANGED <<ring, cq, compq, born, done>>
        /\ ready \in [Sched -> SUBSET Tasks] /\ hand \in [Sched -> Tasks \cup {NoTask}]
    BY <1>a, TasksAssumption DEF SubmitDonated, SubmitSync, TypeInv, TypeOK,
       lanes, io, history
  <1> SUFFICES ASSUME NEW u \in Tasks PROVE InOnePlace(u)'
    BY DEF OnePlace
  <1>2. CASE u # t
    BY <1>1, <1>2, <1>a, StaysInPlace DEF SameReady, SameHand, SameRing, SameCq, SameLanes
  <1>3. CASE u = t
    <2> DEFINE p == <<"hand", s>>
               q == <<"ready", s>>
    <2>1. IsPlace(t, p) /\ IsPlace(t, q)'
      BY <1>1, <1>a DEF IsPlace
    <2>2. ~IsPlace(t, p)'
      BY <1>1, <1>a DEF IsPlace
    <2>3. \A x : IsPlace(t, x)' => x = q \/ IsPlace(t, x)
      BY <1>1, <1>a DEF IsPlace
    <2> HIDE DEF p, q
    <2> QED
      BY <1>1, <1>3, <2>1, <2>2, <2>3, MovesTo
  <1> QED
    BY <1>2, <1>3

LEMMA HandoffPlaces ==
    ASSUME TypeInv, OnePlace, NEW s \in Sched, Handoff(s)
    PROVE  OnePlace'
  <1>a. PICK t \in Tasks : t = hand[s]
    BY DEF Handoff, At, TypeInv, HandHeld
  <1>b. PICK r \in Sched : r = ev[s].to
    BY DEF TypeInv, TypeOK, Request
  <1>c. PICK n \in Nat : n = Len(compq[r][s])
    <2>1. compq[r][s] \in Seq(Tasks)
      BY DEF TypeInv, TypeOK
    <2> QED
      BY <2>1, LenProperties
  <1>1. /\ t \in Tasks /\ NoTask \notin Tasks /\ r \in Sched
        /\ hand' = [hand EXCEPT ![s] = NoTask]
        /\ compq' = [compq EXCEPT ![r][s] = Append(@, t)]
        /\ UNCHANGED <<ready, ring, cq, born, done>>
        /\ compq \in [Sched -> [Sched -> Seq(Tasks)]]
        /\ hand \in [Sched -> Tasks \cup {NoTask}]
    BY <1>a, <1>b, TasksAssumption DEF Handoff, TypeInv, TypeOK, queues, io, history
  <1>2. /\ n \in Nat /\ Len(compq'[r][s]) = n + 1 /\ compq'[r][s][n + 1] = t
        /\ \A i \in 1 .. n : compq'[r][s][i] = compq[r][s][i]
    <2>1. compq[r][s] \in Seq(Tasks) /\ compq'[r][s] = Append(compq[r][s], t)
      BY <1>1
    <2> QED
      BY <1>1, <1>c, <2>1, AppendProperties
  <1>3. \A a, b \in Sched : a # r \/ b # s => compq'[a][b] = compq[a][b]
    BY <1>1
  <1> SUFFICES ASSUME NEW u \in Tasks PROVE InOnePlace(u)'
    BY DEF OnePlace
  <1>4. CASE u # t
    <2>1. SameLanes(u)
      <3> SUFFICES ASSUME NEW a \in Sched, NEW b \in Sched, NEW i \in Nat
                   PROVE (i \in 1 .. Len(compq'[a][b]) /\ compq'[a][b][i] = u)
                           <=> (i \in 1 .. Len(compq[a][b]) /\ compq[a][b][i] = u)
        BY DEF SameLanes
      <3>1. CASE a # r \/ b # s
        BY <1>3, <3>1
      <3>2. CASE a = r /\ b = s
        BY <1>2, <1>4, <1>c, <3>2
      <3> QED
        BY <3>1, <3>2
    <2>2. SameHand(u)
      BY <1>1, <1>4, <1>a DEF SameHand
    <2> QED
      BY <1>1, <2>1, <2>2, StaysInPlace DEF SameReady, SameRing, SameCq
  <1>5. CASE u = t
    <2> DEFINE p == <<"hand", s>>
               q == <<"lane", r, s, n + 1>>
    <2>1. IsPlace(t, p)
      BY <1>1, <1>a DEF IsPlace
    <2>2. IsPlace(t, q)'
      <3>1. n + 1 \in 1 .. Len(compq'[r][s])
        BY <1>2
      <3> QED
        BY <1>1, <1>2, <3>1 DEF IsPlace
    <2>3. ~IsPlace(t, p)'
      BY <1>1, <1>a DEF IsPlace
    <2>4. \A x : IsPlace(t, x)' => x = q \/ IsPlace(t, x)
      <3> SUFFICES ASSUME NEW x, IsPlace(t, x)', x # q PROVE IsPlace(t, x)
        OBVIOUS
      <3>1. CASE \E a, b \in Sched : \E i \in 1 .. Len(compq'[a][b]) :
                    x = <<"lane", a, b, i>> /\ compq'[a][b][i] = t
        <4>1. PICK a \in Sched, b \in Sched : \E i \in 1 .. Len(compq'[a][b]) :
                    x = <<"lane", a, b, i>> /\ compq'[a][b][i] = t
          BY <3>1
        <4>2. PICK i \in 1 .. Len(compq'[a][b]) :
                    x = <<"lane", a, b, i>> /\ compq'[a][b][i] = t
          BY <4>1
        <4>3. i \in 1 .. Len(compq[a][b]) /\ compq[a][b][i] = t
          <5>1. CASE a # r \/ b # s
            <6>1. compq'[a][b] = compq[a][b]
              BY <1>3, <5>1
            <6> QED
              BY <4>2, <6>1
          <5>2. CASE a = r /\ b = s
            <6>1. x = <<"lane", r, s, i>> /\ i \in 1 .. n + 1 /\ compq'[r][s][i] = t
              BY <1>2, <4>2, <5>2
            <6>2. i # n + 1
              BY <6>1
            <6>3. i \in 1 .. n
              BY <1>2, <6>1, <6>2
            <6> QED
              BY <1>2, <1>c, <5>2, <6>1, <6>3
          <5> QED
            BY <5>1, <5>2
        <4> QED
          BY <4>2, <4>3 DEF IsPlace
      <3>2. CASE ~\E a, b \in Sched : \E i \in 1 .. Len(compq'[a][b]) :
                    x = <<"lane", a, b, i>> /\ compq'[a][b][i] = t
        BY <1>1, <1>a, <3>2 DEF IsPlace
      <3> QED
        BY <3>1, <3>2
    <2> HIDE DEF p, q
    <2> QED
      BY <1>1, <1>5, <2>1, <2>2, <2>3, <2>4, MovesTo
  <1> QED
    BY <1>4, <1>5

LEMMA TakeDonatedPlaces ==
    ASSUME TypeInv, OnePlace, NEW s \in Sched, TakeDonated(s), hand[s] = NoTask
    PROVE  OnePlace'
  <1>a. PICK d \in Sched : d = idx[s]
    BY DEF TypeInv, TypeOK
  <1>1. /\ compq \in [Sched -> [Sched -> Seq(Tasks)]] /\ compq[s][d] \in Seq(Tasks)
        /\ compq[s][d] # <<>>
        /\ compq' = [compq EXCEPT ![s][d] = Tail(@)]
        /\ hand' = [hand EXCEPT ![s] = Head(compq[s][d])]
        /\ hand \in [Sched -> Tasks \cup {NoTask}]
        /\ NoTask \notin Tasks
        /\ UNCHANGED <<ready, ring, cq, born, done>>
    <2>1. /\ compq[s][d] # <<>>
          /\ compq' = [compq EXCEPT ![s][d] = Tail(@)]
          /\ hand' = [hand EXCEPT ![s] = Head(compq[s][d])]
      BY <1>a DEF TakeDonated
    <2>2. compq \in [Sched -> [Sched -> Seq(Tasks)]] /\ hand \in [Sched -> Tasks \cup {NoTask}]
      BY DEF TypeInv, TypeOK
    <2>3. UNCHANGED <<ready, ring, cq, born, done>>
      BY DEF TakeDonated, queues, io, history
    <2> QED
      BY <2>1, <2>2, <2>3, TasksAssumption
  <1>b. PICK n \in Nat : n = Len(compq[s][d])
    BY <1>1, LenProperties
  <1>c. PICK t \in Tasks : t = Head(compq[s][d])
    BY <1>1, HeadTailProperties
  <1>2. /\ n > 0 /\ t = compq[s][d][1]
        /\ Len(compq'[s][d]) = n - 1
        /\ \A k \in 1 .. n - 1 : compq'[s][d][k] = compq[s][d][k + 1]
    <2>1. compq'[s][d] = Tail(compq[s][d])
      BY <1>1
    <2> QED
      BY <1>1, <1>b, <1>c, <2>1, HeadTailProperties, EmptySeq, TailElement
  <1>3. \A a, b \in Sched : a # s \/ b # d => compq'[a][b] = compq[a][b]
    BY <1>1
  <1> DEFINE lane(k) == <<"lane", s, d, k>>
  <1>4. \A k \in Nat : \A u \in Tasks :
          /\ IsPlace(u, lane(k)) <=> k \in 1 .. n /\ compq[s][d][k] = u
          /\ IsPlace(u, lane(k))' <=> k \in 1 .. n - 1 /\ compq[s][d][k + 1] = u
    <2> SUFFICES ASSUME NEW k \in Nat, NEW u \in Tasks
                 PROVE  /\ IsPlace(u, lane(k)) <=> k \in 1 .. n /\ compq[s][d][k] = u
                        /\ IsPlace(u, lane(k))' <=> k \in 1 .. n - 1 /\ compq[s][d][k + 1] = u
      OBVIOUS
    <2>1. IsPlace(u, lane(k)) <=> k \in 1 .. n /\ compq[s][d][k] = u
      BY <1>b DEF IsPlace
    <2>2. IsPlace(u, lane(k))' <=> k \in 1 .. n - 1 /\ compq'[s][d][k] = u
      BY <1>2 DEF IsPlace
    <2> QED
      BY <1>2, <2>1, <2>2
  <1>5. \A u \in Tasks : \A x : (\A k \in Nat : x # lane(k)) /\ x # <<"hand", s>> =>
           (IsPlace(u, x)' <=> IsPlace(u, x))
    <2> SUFFICES ASSUME NEW u \in Tasks, NEW x, \A k \in Nat : x # lane(k), x # <<"hand", s>>
                 PROVE  IsPlace(u, x)' <=> IsPlace(u, x)
      OBVIOUS
    <2>1. (\E a \in Sched : x = <<"hand", a>> /\ hand'[a] = u)
            <=> (\E a \in Sched : x = <<"hand", a>> /\ hand[a] = u)
      BY <1>1
    <2>2. (\E a, b \in Sched : \E i \in 1 .. Len(compq'[a][b]) :
              x = <<"lane", a, b, i>> /\ compq'[a][b][i] = u)
            <=> (\E a, b \in Sched : \E i \in 1 .. Len(compq[a][b]) :
                    x = <<"lane", a, b, i>> /\ compq[a][b][i] = u)
      <3>1. ~(\E i \in 1 .. Len(compq'[s][d]) : x = <<"lane", s, d, i>>)
        BY <1>2
      <3>2. ~(\E i \in 1 .. Len(compq[s][d]) : x = <<"lane", s, d, i>>)
        BY <1>b
      <3>3. ASSUME NEW a \in Sched, NEW b \in Sched
            PROVE  (\E i \in 1 .. Len(compq'[a][b]) : x = <<"lane", a, b, i>> /\ compq'[a][b][i] = u)
                     <=> (\E i \in 1 .. Len(compq[a][b]) :
                             x = <<"lane", a, b, i>> /\ compq[a][b][i] = u)
        <4>1. CASE a = s /\ b = d
          BY <3>1, <3>2, <4>1
        <4>2. CASE a # s \/ b # d
          <5>1. compq'[a][b] = compq[a][b]
            BY <1>3, <4>2
          <5> QED
            BY <5>1
        <4> QED
          BY <4>1, <4>2
      <3> QED
        BY <3>3
    <2> QED
      BY <1>1, <2>1, <2>2 DEF IsPlace
  <1>6. \A u \in Tasks : ~IsPlace(u, <<"hand", s>>) /\ (IsPlace(u, <<"hand", s>>)' <=> u = t)
    BY <1>1, <1>c DEF IsPlace
  <1>7. \A k, l : lane(k) = lane(l) => k = l
    OBVIOUS
  <1>8. \A k : lane(k) # <<"hand", s>>
    OBVIOUS
  <1> HIDE DEF lane
  <1> SUFFICES ASSUME NEW u \in Tasks PROVE InOnePlace(u)'
    BY DEF OnePlace
  <1>9. CASE u # t
    <2>1. \A x, y : IsPlace(u, x)' /\ IsPlace(u, y)' => x = y
      <3> SUFFICES ASSUME NEW x, NEW y, IsPlace(u, x)', IsPlace(u, y)' PROVE x = y
        OBVIOUS
      <3>1. x # <<"hand", s>> /\ y # <<"hand", s>>
        BY <1>6, <1>9
      <3>2. \A k \in Nat : IsPlace(u, lane(k))' => IsPlace(u, lane(k + 1))
        BY <1>4
      <3>3. CASE \E k, l \in Nat : x = lane(k) /\ y = lane(l)
        <4>1. PICK k \in Nat, l \in Nat : x = lane(k) /\ y = lane(l)
          BY <3>3
        <4>2. lane(k + 1) = lane(l + 1)
          BY <3>2, <4>1, OnlyPlace
        <4> QED
          BY <1>7, <4>1, <4>2
      <3>4. CASE (\E k \in Nat : x = lane(k)) /\ (\A l \in Nat : y # lane(l))
        BY <1>5, <3>1, <3>2, <3>4, OnlyPlace
      <3>5. CASE (\A k \in Nat : x # lane(k)) /\ (\E l \in Nat : y = lane(l))
        BY <1>5, <3>1, <3>2, <3>5, OnlyPlace
      <3>6. CASE (\A k \in Nat : x # lane(k)) /\ (\A l \in Nat : y # lane(l))
        BY <1>5, <3>1, <3>6, OnlyPlace
      <3> QED
        BY <3>3, <3>4, <3>5, <3>6
    <2>2. (\E x : IsPlace(u, x)) => \E x : IsPlace(u, x)'
      <3> SUFFICES ASSUME NEW x, IsPlace(u, x) PROVE \E y : IsPlace(u, y)'
        OBVIOUS
      <3>1. x # <<"hand", s>>
        BY <1>6
      <3>2. CASE \E k \in Nat : x = lane(k)
        <4>1. PICK k \in Nat : x = lane(k)
          BY <3>2
        <4>2. k \in 1 .. n /\ compq[s][d][k] = u /\ k # 1
          BY <1>2, <1>4, <1>9, <4>1
        <4>3. k - 1 \in Nat /\ k - 1 \in 1 .. n - 1 /\ compq[s][d][(k - 1) + 1] = u
          BY <4>2
        <4>4. IsPlace(u, lane(k - 1))'
          BY <1>4, <4>3
        <4> QED
          BY <4>4
      <3>3. CASE \A k \in Nat : x # lane(k)
        BY <1>5, <3>1, <3>3
      <3> QED
        BY <3>2, <3>3
    <2>3. (\E x : IsPlace(u, x)') => \E x : IsPlace(u, x)
      <3> SUFFICES ASSUME NEW x, IsPlace(u, x)' PROVE \E y : IsPlace(u, y)
        OBVIOUS
      <3>1. \A k \in Nat : IsPlace(u, lane(k))' => IsPlace(u, lane(k + 1))
        BY <1>4
      <3> QED
        BY <1>5, <1>6, <1>9, <3>1
    <2>4. InOnePlace(u) /\ born' = born /\ done' = done
      BY <1>1 DEF OnePlace
    <2> QED
      BY <2>1, <2>2, <2>3, <2>4, PlacesAre, PlacesWillBe DEF InOnePlace
  <1>10. CASE u = t
    <2>1. IsPlace(t, lane(1)) /\ IsPlace(t, <<"hand", s>>)' /\ lane(1) # <<"hand", s>>
      BY <1>2, <1>4, <1>6, <1>8
    <2>2. ~IsPlace(t, lane(1))'
      <3> SUFFICES ASSUME IsPlace(t, lane(1))' PROVE FALSE
        OBVIOUS
      <3>1. IsPlace(t, lane(2))
        BY <1>4
      <3> QED
        BY <1>7, <2>1, <3>1, OnlyPlace
    <2>3. \A x : IsPlace(t, x)' => x = <<"hand", s>> \/ IsPlace(t, x)
      <3> SUFFICES ASSUME NEW x, IsPlace(t, x)', x # <<"hand", s>> PROVE IsPlace(t, x)
        OBVIOUS
      <3>1. \A k \in Nat : x # lane(k)
        <4> SUFFICES ASSUME NEW k \in Nat, x = lane(k) PROVE FALSE
          OBVIOUS
        <4>1. IsPlace(t, lane(k + 1)) /\ k \in 1 .. n - 1
          BY <1>4
        <4>2. k + 1 = 1
          BY <1>7, <2>1, <4>1, OnlyPlace
        <4> QED
          BY <4>1, <4>2
      <3> QED
        BY <1>5, <3>1
    <2> DEFINE q == <<"hand", s>>
    <2> HIDE DEF q
    <2> QED
      BY <1>1, <1>10, <2>1, <2>2, <2>3, MovesTo
  <1> QED
    BY <1>9, <1>10

LEMMA SubmitNextTaskPlaces ==
    ASSUME TypeInv, OnePlace, NEW s \in Sched, NEW t \in Tasks, SubmitNextTask(s, t),
           t \notin born, done \subseteq born
    PROVE  OnePlace'
  <1>1. /\ UNCHANGED <<hand, cq, compq, done>> /\ born' = born \cup {t}
        /\ \/ ready' = [ready EXCEPT ![s] = @ \cup {t}] /\ ring' = ring
           \/ ring' = [ring EXCEPT ![s] = @ \cup {t}] /\ ready' = ready
        /\ ready \in [Sched -> SUBSET Tasks] /\ ring \in [Sched -> SUBSET Tasks]
    BY DEF SubmitNextTask, SubmitSync, TypeInv, TypeOK, queues, lanes, history
  <1> SUFFICES ASSUME NEW u \in Tasks PROVE InOnePlace(u)'
    BY DEF OnePlace
  <1>2. CASE u # t
    BY <1>1, <1>2, StaysInPlace DEF SameReady, SameHand, SameRing, SameCq, SameLanes
  <1>3. CASE u = t
    <2>1. \A x : ~IsPlace(t, x)
      BY OnlyPlace
    <2>2. CASE ready' = [ready EXCEPT ![s] = @ \cup {t}] /\ ring' = ring
      <3>1. \A x : IsPlace(t, x)' <=> x = <<"ready", s>> \/ IsPlace(t, x)
        BY <1>1, <2>2 DEF IsPlace
      <3> QED
        BY <1>1, <1>3, <2>1, <3>1, PlacesWillBe DEF InOnePlace
    <2>3. CASE ring' = [ring EXCEPT ![s] = @ \cup {t}] /\ ready' = ready
      <3>1. \A x : IsPlace(t, x)' <=> x = <<"ring", s>> \/ IsPlace(t, x)
        BY <1>1, <2>3 DEF IsPlace
      <3> QED
        BY <1>1, <1>3, <2>1, <3>1, PlacesWillBe DEF InOnePlace
    <2> QED
      BY <1>1, <2>2, <2>3
  <1> QED
    BY <1>2, <1>3

LEMMA DeleteTaskPlaces ==
    ASSUME TypeInv, OnePlace, NEW s \in Sched, DeleteTask(s)
    PROVE  OnePlace'
  <1>a. PICK t \in Tasks : t = hand[s]
    BY DEF DeleteTask, At, TypeInv, HandHeld
  <1>1. /\ UNCHANGED <<ready, ring, cq, compq, born>> /\ done' = done \cup {t}
        /\ hand' = [hand EXCEPT ![s] = NoTask] /\ NoTask \notin Tasks
        /\ hand \in [Sched -> Tasks \cup {NoTask}]
    BY <1>a, TasksAssumption DEF DeleteTask, TypeInv, TypeOK, queues, io, lanes
  <1> SUFFICES ASSUME NEW u \in Tasks PROVE InOnePlace(u)'
    BY DEF OnePlace
  <1>2. CASE u # t
    BY <1>1, <1>2, <1>a, StaysInPlace DEF SameReady, SameHand, SameRing, SameCq, SameLanes
  <1>3. CASE u = t
    <2>1. IsPlace(t, <<"hand", s>>)
      BY <1>a DEF IsPlace
    <2>2. \A x : IsPlace(t, x)' => IsPlace(t, x) /\ x # <<"hand", s>>
      BY <1>1 DEF IsPlace
    <2>3. \A x : ~IsPlace(t, x)'
      BY <2>1, <2>2, OnlyPlace
    <2> QED
      BY <1>1, <1>3, <2>3, PlacesWillBe DEF InOnePlace
  <1> QED
    BY <1>2, <1>3

\* The places of the loop at which a thread may have a task in its hand.
Holding == {"handoff", "acceptSubmit", "process", "spawn", "dead"}

HandFree == \A s \in Sched : pc[s] \notin Holding => hand[s] = NoTask

\* Only a task that is executed, or was, has submitted next tasks; while it
\* submits them, todo holds those that it still has to submit.
ChainInv ==
    /\ done \subseteq born
    /\ \A s \in Sched : pc[s] = "spawn" => todo[s] = NextTasks[hand[s]] \ born
    /\ \A t \in Tasks \ done : NextTasks[t] \cap born # {} =>
          \E s \in Sched : pc[s] \in {"spawn", "dead"} /\ hand[s] = t

TasksInv == OnePlace /\ HandFree /\ ChainInv

LEMMA ChainKept ==
    ASSUME TypeInv, ChainInv, NEW s \in Sched, UNCHANGED <<born, done>>,
           pc[s] \notin {"spawn", "dead"}, pc'[s] # "spawn",
           \A x \in Sched \ {s} : pc'[x] = pc[x] /\ hand'[x] = hand[x] /\ todo'[x] = todo[x]
    PROVE  ChainInv'
  <1>1. \A x \in Sched : pc'[x] = "spawn" => todo'[x] = NextTasks[hand'[x]] \ born'
    BY DEF ChainInv
  <1>2. ASSUME NEW t \in Tasks \ done', NextTasks[t] \cap born' # {}
        PROVE  \E x \in Sched : pc'[x] \in {"spawn", "dead"} /\ hand'[x] = t
    <2>1. PICK x \in Sched : pc[x] \in {"spawn", "dead"} /\ hand[x] = t
      BY <1>2 DEF ChainInv
    <2> QED
      BY <2>1
  <1> QED
    BY <1>1, <1>2 DEF ChainInv

\* A step of the thread of s that leaves every task where it is.
StillThread(s) ==
    /\ Still
    /\ todo' = todo
    /\ pc[s] \notin Holding /\ pc'[s] \notin Holding
    /\ \A x \in Sched \ {s} : pc'[x] = pc[x]

LEMMA StillThreadTasks ==
    ASSUME TypeInv, TasksInv, NEW s \in Sched, StillThread(s)
    PROVE  TasksInv'
  <1>1. OnePlace'
    BY StillPlaces DEF TasksInv, StillThread
  <1>2. HandFree'
    BY DEF TasksInv, StillThread, Still, HandFree
  <1>3. ChainInv'
    BY ChainKept DEF TasksInv, StillThread, Still, Holding
  <1> QED
    BY <1>1, <1>2, <1>3 DEF TasksInv

LEMMA StillSteps ==
    ASSUME TypeInv, NEW s \in Sched,
           \/ CheckSubmitted(s) \/ SubmissionLaneEmpty(s) \/ TakeRequest(s)
           \/ HandoffCount(s) \/ RequestServed(s) \/ MarkCompletion(s)
           \/ CheckCompleted(s) \/ CompletionLaneEmpty(s) \/ DonatedAccepted(s)
           \/ CheckInProcess(s) \/ CheckDonated(s) \/ ScanCount(s) \/ DecideToSteal(s)
           \/ StealSend(s) \/ StealCount(s) \/ StealMark(s)
    PROVE  StillThread(s)
  <1>1. pc \in [Sched -> Places]
    BY DEF TypeInv, TypeOK
  <1> USE <1>1 DEF StillThread, Still, Holding, At, Goto, NextLane, queues, io, lanes, locals, history
  <1>2. ASSUME CheckSubmitted(s) PROVE StillThread(s)
    BY <1>2 DEF CheckSubmitted
  <1>3. ASSUME SubmissionLaneEmpty(s) PROVE StillThread(s)
    BY <1>3 DEF SubmissionLaneEmpty
  <1>4. ASSUME TakeRequest(s) PROVE StillThread(s)
    BY <1>4 DEF TakeRequest
  <1>5. ASSUME HandoffCount(s) PROVE StillThread(s)
    BY <1>5 DEF HandoffCount
  <1>6. ASSUME RequestServed(s) PROVE StillThread(s)
    BY <1>6 DEF RequestServed
  <1>7. ASSUME MarkCompletion(s) PROVE StillThread(s)
    BY <1>7 DEF MarkCompletion
  <1>8. ASSUME CheckCompleted(s) PROVE StillThread(s)
    BY <1>8 DEF CheckCompleted
  <1>9. ASSUME CompletionLaneEmpty(s) PROVE StillThread(s)
    BY <1>9 DEF CompletionLaneEmpty
  <1>10. ASSUME DonatedAccepted(s) PROVE StillThread(s)
    BY <1>10 DEF DonatedAccepted
  <1>11. ASSUME CheckInProcess(s) PROVE StillThread(s)
    BY <1>11 DEF CheckInProcess
  <1>12. ASSUME CheckDonated(s) PROVE StillThread(s)
    BY <1>12 DEF CheckDonated
  <1>13. ASSUME ScanCount(s) PROVE StillThread(s)
    BY <1>13 DEF ScanCount
  <1>14. ASSUME DecideToSteal(s) PROVE StillThread(s)
    BY <1>14 DEF DecideToSteal
  <1>15. ASSUME StealSend(s) PROVE StillThread(s)
    BY <1>15 DEF StealSend
  <1>16. ASSUME StealCount(s) PROVE StillThread(s)
    BY <1>16 DEF StealCount
  <1>17. ASSUME StealMark(s) PROVE StillThread(s)
    BY <1>17 DEF StealMark
  <1> QED
    BY <1>2, <1>3, <1>4, <1>5, <1>6, <1>7, <1>8, <1>9, <1>10, <1>11, <1>12, <1>13, <1>14,
       <1>15, <1>16, <1>17

LEMMA ProcessReturnsTasks ==
    ASSUME TypeInv, TasksInv, NEW s \in Sched, ProcessReturns(s)
    PROVE  TasksInv'
  <1>a. PICK t \in Tasks : t = hand[s]
    BY DEF ProcessReturns, At, TypeInv, HandHeld
  <1>1. /\ pc[s] = "process" /\ pc' = [pc EXCEPT ![s] = "spawn"]
        /\ todo' = [todo EXCEPT ![s] = NextTasks[t]]
        /\ Still
        /\ pc \in [Sched -> Places] /\ todo \in [Sched -> SUBSET Tasks]
    BY <1>a DEF ProcessReturns, At, Goto, Still, TypeInv, TypeOK, queues, io, lanes, history
  <1>2. OnePlace'
    BY <1>1, StillPlaces DEF TasksInv
  <1>3. HandFree'
    BY <1>1 DEF TasksInv, HandFree, Holding, Still
  <1>4. IsPlace(t, <<"hand", s>>)
    BY <1>a DEF IsPlace
  <1>5. t \notin done
    BY <1>4, OnlyPlace DEF TasksInv
  <1>6. NextTasks[t] \cap born = {}
    <2> SUFFICES ASSUME NextTasks[t] \cap born # {} PROVE FALSE
      OBVIOUS
    <2>1. PICK x \in Sched : pc[x] \in {"spawn", "dead"} /\ hand[x] = t
      BY <1>5 DEF TasksInv, ChainInv
    <2>2. IsPlace(t, <<"hand", x>>)
      BY <2>1 DEF IsPlace
    <2>3. x = s
      BY <1>4, <2>2, OnlyPlace DEF TasksInv
    <2> QED
      BY <1>1, <2>1, <2>3
  <1>7. ChainInv'
    <2>1. \A x \in Sched : pc'[x] = "spawn" => todo'[x] = NextTasks[hand'[x]] \ born'
      BY <1>1, <1>6, <1>a DEF TasksInv, ChainInv, Still
    <2>2. ASSUME NEW u \in Tasks \ done', NextTasks[u] \cap born' # {}
          PROVE  \E x \in Sched : pc'[x] \in {"spawn", "dead"} /\ hand'[x] = u
      <3>1. PICK x \in Sched : pc[x] \in {"spawn", "dead"} /\ hand[x] = u
        BY <1>1, <2>2 DEF TasksInv, ChainInv, Still
      <3> QED
        BY <1>1, <3>1 DEF Still
    <2> QED
      BY <1>1, <2>1, <2>2 DEF TasksInv, ChainInv, Still
  <1> QED
    BY <1>2, <1>3, <1>7 DEF TasksInv

LEMMA SubmitNextTaskTasks ==
    ASSUME TypeInv, TasksInv, NEW s \in Sched, NEW t \in Tasks, SubmitNextTask(s, t)
    PROVE  TasksInv'
  <1>a. PICK h \in Tasks : h = hand[s]
    BY DEF SubmitNextTask, At, TypeInv, HandHeld
  <1>1. /\ pc[s] = "spawn" /\ t \in todo[s]
        /\ todo' = [todo EXCEPT ![s] = @ \ {t}] /\ born' = born \cup {t}
        /\ UNCHANGED <<pc, hand, done>>
        /\ todo \in [Sched -> SUBSET Tasks]
    BY DEF SubmitNextTask, At, TypeInv, TypeOK
  <1>2. t \in NextTasks[h] /\ t \notin born /\ todo[s] = NextTasks[h] \ born
    BY <1>1, <1>a DEF TasksInv, ChainInv
  <1>3. OnePlace'
    BY <1>2, SubmitNextTaskPlaces DEF TasksInv, ChainInv
  <1>4. HandFree'
    BY <1>1 DEF TasksInv, HandFree
  <1>5. \A u \in Tasks : t \in NextTasks[u] => u = h
    BY <1>2, TasksAssumption
  <1>6. \A x \in Sched : pc'[x] = "spawn" => todo'[x] = NextTasks[hand'[x]] \ born'
    <2> SUFFICES ASSUME NEW x \in Sched, pc[x] = "spawn"
                 PROVE  todo'[x] = NextTasks[hand[x]] \ (born \cup {t})
      BY <1>1
    <2>1. CASE x = s
      BY <1>1, <1>2, <1>a, <2>1
    <2>2. CASE x # s
      <3>1. hand[x] \in Tasks /\ todo[x] = NextTasks[hand[x]] \ born
        BY DEF TypeInv, HandHeld, TasksInv, ChainInv
      <3>2. hand[x] # h
        <4> SUFFICES ASSUME hand[x] = h PROVE FALSE
          OBVIOUS
        <4>1. IsPlace(h, <<"hand", s>>) /\ IsPlace(h, <<"hand", x>>)
          BY <1>a DEF IsPlace
        <4>2. <<"hand", s>> = <<"hand", x>>
          BY <4>1, OnlyPlace DEF TasksInv
        <4> QED
          BY <2>2, <4>2
      <3>3. t \notin NextTasks[hand[x]]
        BY <1>5, <3>1, <3>2
      <3> QED
        BY <1>1, <2>2, <3>1, <3>3
    <2> QED
      BY <2>1, <2>2
  <1>7. ASSUME NEW u \in Tasks \ done', NextTasks[u] \cap born' # {}
        PROVE  \E x \in Sched : pc'[x] \in {"spawn", "dead"} /\ hand'[x] = u
    <2>1. CASE u = h
      BY <1>1, <1>a, <2>1
    <2>2. CASE u # h
      <3>1. NextTasks[u] \cap born # {}
        BY <1>1, <1>5, <1>7, <2>2
      <3> QED
        BY <1>1, <1>7, <3>1 DEF TasksInv, ChainInv
    <2> QED
      BY <2>1, <2>2
  <1>8. ChainInv'
    BY <1>1, <1>6, <1>7 DEF TasksInv, ChainInv
  <1> QED
    BY <1>3, <1>4, <1>8 DEF TasksInv

LEMMA DeleteTaskTasks ==
    ASSUME TypeInv, TasksInv, NEW s \in Sched, DeleteTask(s)
    PROVE  TasksInv'
  <1>a. PICK t \in Tasks : t = hand[s]
    BY DEF DeleteTask, At, TypeInv, HandHeld
  <1>1. /\ pc[s] = "spawn" /\ pc' = [pc EXCEPT ![s] = "poll"]
        /\ hand' = [hand EXCEPT ![s] = NoTask]
        /\ done' = done \cup {t} /\ UNCHANGED <<born, todo>>
        /\ pc \in [Sched -> Places] /\ hand \in [Sched -> Tasks \cup {NoTask}]
    BY <1>a DEF DeleteTask, At, Goto, TypeInv, TypeOK
  <1>2. OnePlace'
    BY DeleteTaskPlaces DEF TasksInv
  <1>3. HandFree'
    BY <1>1 DEF TasksInv, HandFree, Holding
  <1>4. t \in born
    <2>1. IsPlace(t, <<"hand", s>>)
      BY <1>a DEF IsPlace
    <2> QED
      BY <2>1, OnlyPlace DEF TasksInv
  <1>5. ASSUME NEW u \in Tasks \ done', NextTasks[u] \cap born' # {}
        PROVE  \E x \in Sched : pc'[x] \in {"spawn", "dead"} /\ hand'[x] = u
    <2>1. PICK x \in Sched : pc[x] \in {"spawn", "dead"} /\ hand[x] = u
      BY <1>1, <1>5 DEF TasksInv, ChainInv
    <2>2. x # s
      BY <1>1, <1>5, <1>a, <2>1
    <2> QED
      BY <1>1, <2>1, <2>2
  <1>6. ChainInv'
    BY <1>1, <1>4, <1>5 DEF TasksInv, ChainInv
  <1> QED
    BY <1>2, <1>3, <1>6 DEF TasksInv

LEMMA StepTasksInv == TypeInv /\ TasksInv /\ [Next]_vars => TasksInv'
  <1> SUFFICES ASSUME TypeInv, TasksInv, [Next]_vars
               PROVE  TasksInv'
    OBVIOUS
  <1>0. /\ pc \in [Sched -> Places] /\ hand \in [Sched -> Tasks \cup {NoTask}]
        /\ todo \in [Sched -> SUBSET Tasks]
    BY DEF TypeInv, TypeOK
  <1>1. ASSUME NEW s \in Sched, NEW t \in Tasks, CollectIo(s, t) PROVE TasksInv'
    <2>1. OnePlace'
      BY <1>1, CollectIoPlaces DEF TasksInv, TypeInv
    <2>2. UNCHANGED <<pc, hand, todo, born, done>>
      BY <1>1 DEF CollectIo, locals, history
    <2> QED
      BY <2>1, <2>2 DEF TasksInv, HandFree, ChainInv
  <1>2. ASSUME NEW s \in Sched, NEW t \in Tasks, IoFinishes(s, t) PROVE TasksInv'
    <2>1. OnePlace'
      BY <1>2, IoFinishesPlaces DEF TasksInv
    <2>2. UNCHANGED <<pc, hand, todo, born, done>>
      BY <1>2 DEF IoFinishes, locals, history
    <2> QED
      BY <2>1, <2>2 DEF TasksInv, HandFree, ChainInv
  <1>3. ASSUME NEW s \in Sched, NEW t \in Tasks, DonateTask(s, t) \/ StartTask(s, t)
        PROVE  TasksInv'
    <2>1. /\ pc[s] \in {"donate", "idleCheck"} /\ pc'[s] \in {"handoff", "process"}
          /\ \A x \in Sched \ {s} : pc'[x] = pc[x] /\ hand'[x] = hand[x] /\ todo'[x] = todo[x]
          /\ TakeReady(s, t) /\ UNCHANGED <<ring, cq, compq, born, done>>
      BY <1>0, <1>3 DEF DonateTask, StartTask, TakeReady, At, Goto, io, lanes, history
    <2>2. hand[s] = NoTask
      BY <2>1 DEF TasksInv, HandFree, Holding
    <2>3. OnePlace'
      BY <2>1, <2>2, TakeReadyPlaces DEF TasksInv
    <2>4. HandFree'
      BY <2>1 DEF TasksInv, HandFree, Holding
    <2>5. ChainInv'
      BY <2>1, ChainKept DEF TasksInv
    <2> QED
      BY <2>3, <2>4, <2>5 DEF TasksInv
  <1>4. ASSUME NEW s \in Sched, Handoff(s) PROVE TasksInv'
    <2>1. /\ pc[s] = "handoff" /\ pc'[s] = "handoffCount" /\ hand'[s] = NoTask
          /\ \A x \in Sched \ {s} : pc'[x] = pc[x] /\ hand'[x] = hand[x] /\ todo'[x] = todo[x]
          /\ UNCHANGED <<born, done>>
      BY <1>0, <1>4 DEF Handoff, At, Goto, history
    <2>2. OnePlace'
      BY <1>4, HandoffPlaces DEF TasksInv
    <2>3. HandFree'
      BY <2>1 DEF TasksInv, HandFree
    <2>4. ChainInv'
      BY <2>1, ChainKept DEF TasksInv
    <2> QED
      BY <2>2, <2>3, <2>4 DEF TasksInv
  <1>5. ASSUME NEW s \in Sched, TakeDonated(s) PROVE TasksInv'
    <2>1. /\ pc[s] = "accept" /\ pc'[s] = "acceptSubmit"
          /\ \A x \in Sched \ {s} : pc'[x] = pc[x] /\ hand'[x] = hand[x] /\ todo'[x] = todo[x]
          /\ UNCHANGED <<born, done>>
      BY <1>0, <1>5 DEF TakeDonated, At, Goto, history
    <2>2. hand[s] = NoTask
      BY <2>1 DEF TasksInv, HandFree, Holding
    <2>3. OnePlace'
      BY <1>5, <2>2, TakeDonatedPlaces DEF TasksInv
    <2>4. HandFree'
      BY <2>1 DEF TasksInv, HandFree, Holding
    <2>5. ChainInv'
      BY <2>1, ChainKept DEF TasksInv
    <2> QED
      BY <2>3, <2>4, <2>5 DEF TasksInv
  <1>6. ASSUME NEW s \in Sched, SubmitDonated(s) PROVE TasksInv'
    <2>1. /\ pc[s] = "acceptSubmit" /\ pc'[s] = "acceptDec" /\ hand'[s] = NoTask
          /\ \A x \in Sched \ {s} : pc'[x] = pc[x] /\ hand'[x] = hand[x] /\ todo'[x] = todo[x]
          /\ UNCHANGED <<born, done>>
      BY <1>0, <1>6 DEF SubmitDonated, At, Goto, history
    <2>2. OnePlace'
      BY <1>6, SubmitDonatedPlaces DEF TasksInv
    <2>3. HandFree'
      BY <2>1 DEF TasksInv, HandFree
    <2>4. ChainInv'
      BY <2>1, ChainKept DEF TasksInv
    <2> QED
      BY <2>2, <2>3, <2>4 DEF TasksInv
  <1>7. ASSUME NEW s \in Sched, Fail(s) PROVE TasksInv'
    <2>1. /\ pc[s] \in {"poll", "process", "spawn"} /\ pc' = [pc EXCEPT ![s] = "dead"]
          /\ Still /\ todo' = todo
      BY <1>0, <1>7 DEF Fail, IoFails, ProcessThrows, SubmitThrows, At, Goto, Still,
         queues, io, lanes, locals, history
    <2>2. OnePlace'
      BY <2>1, StillPlaces DEF TasksInv
    <2>3. HandFree'
      BY <1>0, <2>1 DEF TasksInv, HandFree, Holding, Still
    <2>4. ChainInv'
      BY <1>0, <2>1 DEF TasksInv, ChainInv, Still
    <2> QED
      BY <2>2, <2>3, <2>4 DEF TasksInv
  <1>8. ASSUME Still, UNCHANGED <<pc, todo>> PROVE TasksInv'
    <2>1. OnePlace'
      BY <1>8, StillPlaces DEF TasksInv
    <2> QED
      BY <1>8, <2>1 DEF TasksInv, HandFree, ChainInv, Still
  <1>9. ASSUME NEW d \in Sched, NEW r \in Sched, NEW n \in 1 .. MaxTasksToSteal,
               DaemonSend(d, r, n)
        PROVE  TasksInv'
    BY <1>8, <1>9 DEF DaemonSend, Still, queues, io, locals, history
  <1>10. CASE DaemonCount \/ EnqueAssertFails
    BY <1>8, <1>10 DEF DaemonCount, EnqueAssertFails, Still, queues, io, lanes, locals, history
  <1>11. CASE UNCHANGED vars
    BY <1>8, <1>11 DEF vars, Still, queues, io, lanes, locals, history
  <1>12. ASSUME NEW s \in Sched, Step(s) PROVE TasksInv'
    BY <1>1, <1>3, <1>4, <1>5, <1>6, <1>12, StillSteps, StillThreadTasks,
       ProcessReturnsTasks, SubmitNextTaskTasks, DeleteTaskTasks DEF Step
  <1> QED
    BY <1>2, <1>7, <1>9, <1>10, <1>11, <1>12 DEF Next

\* The first tasks are dealt out: each goes to one scheduler.
LEMMA HomeIsSched == \A i \in 1 .. Len(FirstTasks) : HomeOf(i) \in Sched
  BY SizesAssumption, TasksAssumption DEF HomeOf, Sched

LEMMA InitTasksInv == Init => TasksInv
  <1> SUFFICES ASSUME Init
               PROVE  TasksInv
    OBVIOUS
  <1>1. ASSUME NEW t \in Tasks PROVE InOnePlace(t)
    <2>1. \A x : IsPlace(t, x) <=> \E s \in Sched : x = <<"ready", s>> /\ t \in ready[s]
      BY TasksAssumption DEF Init, IsPlace
    <2>2. \A s \in Sched : t \in ready[s] <=>
             \E i \in 1 .. Len(FirstTasks) : FirstTasks[i] = t /\ HomeOf(i) = s
      BY DEF Init
    <2>3. \A r, s \in Sched : t \in ready[r] /\ t \in ready[s] => r = s
      BY <2>2, TasksAssumption
    <2>4. t \in born \ done <=> \E s \in Sched : t \in ready[s]
      BY <2>2, HomeIsSched DEF Init, FirstSet
    <2>5. \A p, q \in PlacesOf(t) : p = q
      BY <2>1, <2>3, PlacesAre
    <2>6. (\E s \in Sched : t \in ready[s]) <=> \E x : IsPlace(t, x)
      BY <2>1
    <2>7. PlacesOf(t) # {} <=> \E x : IsPlace(t, x)
      BY PlacesAre
    <2> QED
      BY <2>4, <2>5, <2>6, <2>7 DEF InOnePlace
  <1>2. HandFree
    BY DEF Init, HandFree
  <1>3. ChainInv
    BY TasksAssumption DEF Init, ChainInv
  <1> QED
    BY <1>1, <1>2, <1>3 DEF TasksInv, OnePlace

LEMMA TasksInvHolds == Spec => [](TypeInv /\ TasksInv)
  BY InitTypeInv, StepTypeInv, InitTasksInv, StepTasksInv, PTL DEF Spec

\* However many threads donate, accept and execute tasks, a task that was
\* submitted and not deleted is in exactly one place.
THEOREM EveryTaskHasOnePlace == Spec => []NoTaskLostOrDuplicated
  <1>1. TasksInv => NoTaskLostOrDuplicated
    <2> SUFFICES ASSUME TasksInv, NEW t \in Tasks
                 PROVE  Cardinality(PlacesOf(t)) = IF t \in born \ done THEN 1 ELSE 0
      BY DEF NoTaskLostOrDuplicated
    <2>1. CASE t \in born \ done
      <3>1. PICK p : PlacesOf(t) = {p}
        BY <2>1 DEF TasksInv, OnePlace, InOnePlace
      <3> QED
        BY <2>1, <3>1, FS_Singleton
    <2>2. CASE t \notin born \ done
      <3>1. PlacesOf(t) = {}
        BY <2>2 DEF TasksInv, OnePlace, InOnePlace
      <3> QED
        BY <2>2, <3>1, FS_EmptySet
    <2> QED
      BY <2>1, <2>2
  <1> QED
    BY <1>1, TasksInvHolds, PTL

------------------------------------------------------------------------------
(* The refinement of TaskLifecycle.                                         *)

\* What is submitted and not deleted is queued unless it is executed.
LEMMA QueuedIs == TypeInv /\ TasksInv =>
                    Executing \subseteq born \ done /\ Queued = (born \ done) \ Executing
  <1> SUFFICES ASSUME TypeInv, TasksInv
               PROVE  Executing \subseteq born \ done /\ Queued = (born \ done) \ Executing
    OBVIOUS
  <1>1. /\ ready \in [Sched -> SUBSET Tasks] /\ ring \in [Sched -> SUBSET Tasks]
        /\ cq \in [Sched -> SUBSET Tasks] /\ compq \in [Sched -> [Sched -> Seq(Tasks)]]
        /\ hand \in [Sched -> Tasks \cup {NoTask}] /\ born \subseteq Tasks
        /\ NoTask \notin Tasks
    BY TasksAssumption DEF TypeInv, TypeOK
  <1>2. ASSUME NEW t
        PROVE  t \in InAnyLane <=>
                 \E s, d \in Sched : \E i \in 1 .. Len(compq[s][d]) : compq[s][d][i] = t
    <2> DEFINE L(s, d) == {compq[s][d][i] : i \in 1 .. Len(compq[s][d])}
               In1 == t \in UNION {L(s, d) : s \in Sched, d \in Sched}
               In2 == \E s, d \in Sched : \E i \in 1 .. Len(compq[s][d]) : compq[s][d][i] = t
    <2>1. t \in InAnyLane <=> In1
      BY DEF InAnyLane
    <2>2. In1 <=> \E s, d \in Sched : t \in L(s, d)
      <3> HIDE DEF L
      <3> QED
        OBVIOUS
    <2>3. (\E s, d \in Sched : t \in L(s, d)) <=> In2
      OBVIOUS
    <2> HIDE DEF L, In1, In2
    <2>4. t \in InAnyLane <=> In2
      BY <2>1, <2>2, <2>3
    <2> QED
      BY <2>4 DEF In2
  <1>q. ASSUME NEW t
        PROVE  t \in Queued <=>
                 \/ \E s \in Sched : t \in ready[s] \cup ring[s] \cup cq[s]
                 \/ t \in InAnyLane
                 \/ \E s \in Sched : hand[s] = t /\ pc[s] \in {"handoff", "acceptSubmit"}
    <2>1. t \in InAnyQueue <=> \E s \in Sched : t \in ready[s] \cup ring[s] \cup cq[s]
      BY DEF InAnyQueue
    <2>2. t \in HandedOver <=> \E s \in Sched : hand[s] = t /\ pc[s] \in {"handoff", "acceptSubmit"}
      BY DEF HandedOver
    <2> QED
      BY <2>1, <2>2 DEF Queued
  <1>3. \A t : t \in Executing <=> /\ t # NoTask
                                    /\ \E s \in Sched : /\ hand[s] = t
                                                        /\ pc[s] \in {"process", "spawn", "dead"}
    BY DEF Executing
  <1>4. Executing \subseteq Tasks /\ Queued \subseteq Tasks
    <2>1. Executing \subseteq Tasks
      BY <1>1, <1>3
    <2>2. InAnyLane \subseteq Tasks
      <3> SUFFICES ASSUME NEW s \in Sched, NEW d \in Sched, NEW i \in 1 .. Len(compq[s][d])
                   PROVE  compq[s][d][i] \in Tasks
        BY <1>2
      <3>1. compq[s][d] \in Seq(Tasks)
        BY <1>1
      <3> QED
        BY <3>1, ElementOfSeq
    <2>3. \A s \in Sched : pc[s] \in {"handoff", "acceptSubmit"} => hand[s] \in Tasks
      BY DEF TypeInv, HandHeld
    <2> QED
      BY <1>1, <1>q, <2>1, <2>2, <2>3
  <1>5. ASSUME NEW t \in Tasks
        PROVE  t \in Queued <=> \E p : /\ IsPlace(t, p)
                                       /\ \A s \in Sched : p = <<"hand", s>> =>
                                             pc[s] \in {"handoff", "acceptSubmit"}
    <2>1. t \in Queued <=>
            \/ \E s \in Sched : t \in ready[s] \cup ring[s] \cup cq[s]
            \/ \E s, d \in Sched : \E i \in 1 .. Len(compq[s][d]) : compq[s][d][i] = t
            \/ \E s \in Sched : hand[s] = t /\ pc[s] \in {"handoff", "acceptSubmit"}
      BY <1>2, <1>q
    <2>2. \A s \in Sched : t \in ready[s] => IsPlace(t, <<"ready", s>>)
      BY DEF IsPlace
    <2>3. \A s \in Sched : t \in ring[s] => IsPlace(t, <<"ring", s>>)
      BY DEF IsPlace
    <2>4. \A s \in Sched : t \in cq[s] => IsPlace(t, <<"cq", s>>)
      BY DEF IsPlace
    <2>5. \A s, d \in Sched : \A i \in 1 .. Len(compq[s][d]) :
            compq[s][d][i] = t => IsPlace(t, <<"lane", s, d, i>>)
      BY DEF IsPlace
    <2>6. \A s \in Sched : hand[s] = t => IsPlace(t, <<"hand", s>>)
      BY DEF IsPlace
    <2>7. \A r, s, d, i : /\ <<"ready", r>> # <<"hand", s>>
                          /\ <<"ring", r>> # <<"hand", s>>
                          /\ <<"cq", r>> # <<"hand", s>>
                          /\ <<"lane", r, d, i>> # <<"hand", s>>
                          /\ <<"hand", r>> = <<"hand", s>> => r = s
      OBVIOUS
    <2>8. t \in Queued => \E p : /\ IsPlace(t, p)
                                 /\ \A s \in Sched : p = <<"hand", s>> =>
                                       pc[s] \in {"handoff", "acceptSubmit"}
      <3> DEFINE Good(p) == /\ IsPlace(t, p)
                            /\ \A s \in Sched : p = <<"hand", s>> =>
                                  pc[s] \in {"handoff", "acceptSubmit"}
      <3>1. \A s \in Sched : t \in ready[s] => Good(<<"ready", s>>)
        BY <2>2, <2>7
      <3>2. \A s \in Sched : t \in ring[s] => Good(<<"ring", s>>)
        BY <2>3, <2>7
      <3>3. \A s \in Sched : t \in cq[s] => Good(<<"cq", s>>)
        BY <2>4, <2>7
      <3>4. \A s, d \in Sched : \A i \in 1 .. Len(compq[s][d]) :
              compq[s][d][i] = t => Good(<<"lane", s, d, i>>)
        BY <2>5, <2>7
      <3>5. \A s \in Sched : hand[s] = t /\ pc[s] \in {"handoff", "acceptSubmit"} =>
              Good(<<"hand", s>>)
        BY <2>6, <2>7
      <3>6. t \in Queued => \E p : Good(p)
        <4> HIDE DEF Good
        <4> QED
          BY <2>1, <3>1, <3>2, <3>3, <3>4, <3>5
      <3> QED
        BY <3>6
    <2>9. ASSUME NEW p, IsPlace(t, p),
                 \A s \in Sched : p = <<"hand", s>> => pc[s] \in {"handoff", "acceptSubmit"}
          PROVE  t \in Queued
      BY <2>1, <2>9 DEF IsPlace
    <2> QED
      BY <2>8, <2>9
  <1>6. ASSUME NEW t \in Tasks
        PROVE  t \in Executing <=> \E s \in Sched : /\ IsPlace(t, <<"hand", s>>)
                                                    /\ pc[s] \in {"process", "spawn", "dead"}
    <2>1. \A s \in Sched : IsPlace(t, <<"hand", s>>) <=> hand[s] = t
      BY DEF IsPlace
    <2> QED
      BY <1>1, <1>3, <2>1
  <1>7. ASSUME NEW t \in Tasks PROVE t \in born \ done <=> \E p : IsPlace(t, p)
    BY PlacesAre DEF TasksInv, OnePlace, InOnePlace
  <1>8. \A t \in Tasks : t \in Executing => t \in born \ done
    BY <1>6, <1>7
  <1>9. \A t \in Tasks : t \in Queued => t \in born \ done
    BY <1>5, <1>7
  <1>10. ASSUME NEW t \in Tasks, t \in Queued, t \in Executing PROVE FALSE
    <2>1. PICK s \in Sched : /\ IsPlace(t, <<"hand", s>>)
                             /\ pc[s] \in {"process", "spawn", "dead"}
      BY <1>6, <1>10
    <2>2. PICK p : /\ IsPlace(t, p)
                   /\ \A x \in Sched : p = <<"hand", x>> => pc[x] \in {"handoff", "acceptSubmit"}
      BY <1>5, <1>10
    <2>3. p = <<"hand", s>>
      BY <2>1, <2>2, OnlyPlace DEF TasksInv
    <2> QED
      BY <2>1, <2>2, <2>3
  <1>11. ASSUME NEW t \in Tasks, t \in born \ done, t \notin Queued PROVE t \in Executing
    <2>1. PICK p : IsPlace(t, p)
      BY <1>7, <1>11
    <2>2. PICK s \in Sched : p = <<"hand", s>> /\ pc[s] \notin {"handoff", "acceptSubmit"}
      BY <1>5, <1>11, <2>1
    <2>3. hand[s] = t
      BY <2>1, <2>2 DEF IsPlace
    <2>4. pc[s] \in {"process", "spawn", "dead"}
      BY <1>1, <2>2, <2>3 DEF TasksInv, HandFree, Holding
    <2> QED
      BY <1>6, <2>1, <2>2, <2>4
  <1> QED
    BY <1>1, <1>4, <1>8, <1>9, <1>10, <1>11

LEMMA QueuedWillBe == ASSUME TypeInv', TasksInv' PROVE Queued' = (born' \ done') \ Executing'
  <1>1. (TypeInv /\ TasksInv =>
           Executing \subseteq born \ done /\ Queued = (born \ done) \ Executing)'
    BY QueuedIs, PTL
  <1> QED
    BY <1>1

\* The thread of s keeps what it executes.
LEMMA SameExecuting ==
    ASSUME NEW s \in Sched,
           \A x \in Sched \ {s} : pc'[x] = pc[x] /\ hand'[x] = hand[x],
           \/ /\ hand'[s] = hand[s]
              /\ pc'[s] \in {"process", "spawn", "dead"} <=> pc[s] \in {"process", "spawn", "dead"}
           \/ /\ pc[s] \notin {"process", "spawn", "dead"} \/ hand[s] = NoTask
              /\ pc'[s] \notin {"process", "spawn", "dead"} \/ hand'[s] = NoTask
    PROVE  Executing' = Executing
  <1>1. \A t : t \in Executing <=> /\ t # NoTask
                                    /\ \E x \in Sched : /\ hand[x] = t
                                                        /\ pc[x] \in {"process", "spawn", "dead"}
    BY DEF Executing
  <1>2. \A t : t \in Executing' <=> /\ t # NoTask
                                     /\ \E x \in Sched : /\ hand'[x] = t
                                                         /\ pc'[x] \in {"process", "spawn", "dead"}
    BY DEF Executing
  <1> SUFFICES ASSUME NEW t PROVE t \in Executing' <=> t \in Executing
    OBVIOUS
  <1> QED
    BY <1>1, <1>2

LEMMA StuttersIf ==
    ASSUME TypeInv, TasksInv, TypeInv', TasksInv',
           born' = born, done' = done, Executing' = Executing
    PROVE  UNCHANGED Lifecycle!lifecycleVars
  <1>1. Queued' = Queued
    BY QueuedIs, QueuedWillBe
  <1> QED
    BY <1>1 DEF Lifecycle!lifecycleVars

LEMMA InitImplements == Init => Lifecycle!LifecycleInit
  <1> SUFFICES ASSUME Init
               PROVE  Lifecycle!LifecycleInit
    OBVIOUS
  <1>1. TypeInv /\ TasksInv
    BY InitTypeInv, InitTasksInv
  <1>2. Executing = {}
    BY DEF Init, Executing
  <1>3. born = FirstSet /\ done = {}
    BY DEF Init
  <1> QED
    BY <1>1, <1>2, <1>3, QueuedIs DEF Lifecycle!LifecycleInit

LEMMA StepImplements ==
    ASSUME TypeInv, TasksInv, TypeInv', TasksInv', [Next]_vars
    PROVE  [Lifecycle!LifecycleNext]_(Lifecycle!lifecycleVars)
  <1>0. /\ pc \in [Sched -> Places] /\ hand \in [Sched -> Tasks \cup {NoTask}]
        /\ NoTask \notin Tasks
    BY TasksAssumption DEF TypeInv, TypeOK
  <1>q. /\ Executing \subseteq born \ done /\ Queued = (born \ done) \ Executing
        /\ Queued' = (born' \ done') \ Executing'
    BY QueuedIs, QueuedWillBe
  <1>e. \A t : t \in Executing <=> /\ t # NoTask
                                   /\ \E x \in Sched : /\ hand[x] = t
                                                       /\ pc[x] \in {"process", "spawn", "dead"}
    BY DEF Executing
  <1>f. \A t : t \in Executing' <=> /\ t # NoTask
                                    /\ \E x \in Sched : /\ hand'[x] = t
                                                        /\ pc'[x] \in {"process", "spawn", "dead"}
    BY DEF Executing
  <1>1. ASSUME NEW s \in Sched, NEW t \in Tasks, StartTask(s, t)
        PROVE  Lifecycle!LifecycleNext
    <2>1. /\ pc[s] = "idleCheck" /\ t \in ready[s]
          /\ pc' = [pc EXCEPT ![s] = "process"] /\ hand' = [hand EXCEPT ![s] = t]
          /\ born' = born /\ done' = done
      BY <1>1 DEF StartTask, TakeReady, At, Goto, history
    <2>2. IsPlace(t, <<"ready", s>>)
      BY <2>1 DEF IsPlace
    <2>3. t \in born /\ t \notin done
      BY <2>2, OnlyPlace DEF TasksInv
    <2>4. t \notin Executing
      <3> SUFFICES ASSUME NEW x \in Sched, hand[x] = t PROVE FALSE
        BY <1>e
      <3>1. IsPlace(t, <<"hand", x>>)
        BY DEF IsPlace
      <3>2. <<"hand", x>> = <<"ready", s>>
        BY <2>2, <3>1, OnlyPlace DEF TasksInv
      <3> QED
        BY <3>2
    <2>5. Executing' = Executing \cup {t}
      <3>1. \A x \in Sched \ {s} : pc'[x] = pc[x] /\ hand'[x] = hand[x]
        BY <1>0, <2>1
      <3>2. pc'[s] = "process" /\ hand'[s] = t
        BY <1>0, <2>1
      <3>3. t # NoTask
        BY <1>0
      <3> SUFFICES ASSUME NEW u PROVE u \in Executing' <=> u \in Executing \/ u = t
        OBVIOUS
      <3> QED
        BY <1>e, <1>f, <2>1, <3>1, <3>2, <3>3
    <2>6. Queued' = Queued \ {t} /\ t \in Queued
      BY <1>q, <2>1, <2>3, <2>4, <2>5
    <2>7. Lifecycle!Execute(t)
      BY <2>1, <2>5, <2>6 DEF Lifecycle!Execute
    <2> QED
      BY <2>7 DEF Lifecycle!LifecycleNext
  <1>2. ASSUME NEW s \in Sched, NEW t \in Tasks, SubmitNextTask(s, t)
        PROVE  Lifecycle!LifecycleNext
    <2>a. PICK h \in Tasks : h = hand[s]
      BY <1>2 DEF SubmitNextTask, At, TypeInv, HandHeld
    <2>1. /\ pc[s] = "spawn" /\ t \in todo[s] /\ born' = born \cup {t}
          /\ UNCHANGED <<pc, hand, done>>
      BY <1>2 DEF SubmitNextTask, At
    <2>2. t \in NextTasks[h] /\ t \notin born /\ t \notin done
      BY <2>1, <2>a DEF TasksInv, ChainInv
    <2>3. Executing' = Executing /\ h \in Executing
      BY <1>0, <1>e, <2>1, <2>a DEF Executing
    <2>4. Queued' = Queued \cup {t}
      BY <1>q, <2>1, <2>2, <2>3
    <2>5. Lifecycle!SubmitNext(h, t)
      BY <2>1, <2>2, <2>3, <2>4 DEF Lifecycle!SubmitNext
    <2> QED
      BY <2>2, <2>5 DEF Lifecycle!LifecycleNext
  <1>3. ASSUME NEW s \in Sched, DeleteTask(s)
        PROVE  Lifecycle!LifecycleNext
    <2>a. PICK h \in Tasks : h = hand[s]
      BY <1>3 DEF DeleteTask, At, TypeInv, HandHeld
    <2>1. /\ pc[s] = "spawn" /\ todo[s] = {} /\ pc' = [pc EXCEPT ![s] = "poll"]
          /\ hand' = [hand EXCEPT ![s] = NoTask] /\ done' = done \cup {h} /\ born' = born
      BY <1>3, <2>a DEF DeleteTask, At, Goto
    <2>2. NextTasks[h] \subseteq born
      BY <2>1, <2>a DEF TasksInv, ChainInv
    <2>3. h \in Executing
      BY <1>0, <1>e, <2>1, <2>a
    <2>4. \A x \in Sched \ {s} : hand[x] # h
      <3> SUFFICES ASSUME NEW x \in Sched \ {s}, hand[x] = h PROVE FALSE
        OBVIOUS
      <3>1. IsPlace(h, <<"hand", x>>) /\ IsPlace(h, <<"hand", s>>)
        BY <2>a DEF IsPlace
      <3>2. <<"hand", x>> = <<"hand", s>>
        BY <3>1, OnlyPlace DEF TasksInv
      <3> QED
        BY <3>2
    <2>5. Executing' = Executing \ {h}
      <3>1. \A x \in Sched \ {s} : pc'[x] = pc[x] /\ hand'[x] = hand[x]
        BY <1>0, <2>1
      <3>2. hand'[s] = NoTask
        BY <1>0, <2>1
      <3> SUFFICES ASSUME NEW u PROVE u \in Executing' <=> u \in Executing /\ u # h
        OBVIOUS
      <3> QED
        BY <1>e, <1>f, <2>4, <2>a, <3>1, <3>2
    <2>6. Queued' = Queued
      BY <1>q, <2>1, <2>3, <2>5
    <2>7. Lifecycle!Delete(h)
      BY <2>1, <2>2, <2>3, <2>5, <2>6 DEF Lifecycle!Delete
    <2> QED
      BY <2>7 DEF Lifecycle!LifecycleNext
  <1>4. ASSUME Executing' = Executing, UNCHANGED <<born, done>>
        PROVE  UNCHANGED Lifecycle!lifecycleVars
    BY <1>4, StuttersIf
  <1>5. ASSUME UNCHANGED <<pc, hand, born, done>>
        PROVE  UNCHANGED Lifecycle!lifecycleVars
    BY <1>4, <1>5 DEF Executing
  <1>6. ASSUME NEW s \in Sched, StillThread(s)
        PROVE  UNCHANGED Lifecycle!lifecycleVars
    <2>1. Executing' = Executing
      BY <1>6, SameExecuting DEF StillThread, Still, Holding
    <2> QED
      BY <1>4, <1>6, <2>1 DEF StillThread, Still
  <1>7. ASSUME NEW s \in Sched, UNCHANGED <<born, done>>,
               \A x \in Sched \ {s} : pc'[x] = pc[x] /\ hand'[x] = hand[x],
               \/ /\ pc[s] \in {"donate", "accept"}
                  /\ pc'[s] \in {"handoff", "acceptSubmit"}
               \/ /\ pc[s] \in {"handoff", "acceptSubmit"}
                  /\ pc'[s] \in {"handoffCount", "acceptDec"}
               \/ /\ pc[s] = "process"
                  /\ pc'[s] = "spawn" /\ hand'[s] = hand[s]
               \/ /\ pc[s] \in {"process", "spawn"} \/ (pc[s] = "poll" /\ hand[s] = NoTask)
                  /\ pc'[s] = "dead" /\ hand'[s] = hand[s]
        PROVE  UNCHANGED Lifecycle!lifecycleVars
    <2>1. Executing' = Executing
      BY <1>7, SameExecuting
    <2> QED
      BY <1>4, <1>7, <2>1
  <1>8. ASSUME NEW s \in Sched, Step(s)
        PROVE  [Lifecycle!LifecycleNext]_(Lifecycle!lifecycleVars)
    <2>1. ASSUME NEW t \in Tasks, CollectIo(s, t) PROVE UNCHANGED Lifecycle!lifecycleVars
      BY <1>5, <2>1 DEF CollectIo, locals, history
    <2>2. ASSUME NEW t \in Tasks, DonateTask(s, t) PROVE UNCHANGED Lifecycle!lifecycleVars
      BY <1>0, <1>7, <2>2 DEF DonateTask, TakeReady, At, Goto, history
    <2>3. CASE Handoff(s)
      BY <1>0, <1>7, <2>3 DEF Handoff, At, Goto, history
    <2>4. CASE TakeDonated(s)
      BY <1>0, <1>7, <2>4 DEF TakeDonated, At, Goto, history
    <2>5. CASE SubmitDonated(s)
      BY <1>0, <1>7, <2>5 DEF SubmitDonated, At, Goto, history
    <2>6. CASE ProcessReturns(s)
      <3>1. /\ pc[s] = "process" /\ pc'[s] = "spawn" /\ hand' = hand
            /\ \A x \in Sched \ {s} : pc'[x] = pc[x]
            /\ UNCHANGED <<born, done>>
        BY <1>0, <2>6 DEF ProcessReturns, At, Goto, history
      <3> QED
        BY <1>7, <3>1
    <2> QED
      BY <1>1, <1>2, <1>3, <1>6, <1>8, <2>1, <2>2, <2>3, <2>4, <2>5, <2>6, StillSteps DEF Step
  <1>9. ASSUME NEW s \in Sched, Fail(s)
        PROVE  UNCHANGED Lifecycle!lifecycleVars
    <2>1. pc[s] = "poll" => hand[s] = NoTask
      BY DEF TasksInv, HandFree, Holding
    <2>2. /\ pc[s] \in {"poll", "process", "spawn"} /\ pc' = [pc EXCEPT ![s] = "dead"]
          /\ UNCHANGED <<hand, born, done>>
      BY <1>9 DEF Fail, IoFails, ProcessThrows, SubmitThrows, At, Goto, locals, history
    <2>3. /\ pc'[s] = "dead" /\ hand'[s] = hand[s]
          /\ \A x \in Sched \ {s} : pc'[x] = pc[x] /\ hand'[x] = hand[x]
      BY <1>0, <2>2
    <2>4. pc[s] \in {"process", "spawn"} \/ (pc[s] = "poll" /\ hand[s] = NoTask)
      BY <2>1, <2>2
    <2>5. UNCHANGED <<born, done>>
      BY <2>2
    <2> QED
      BY <1>7, <2>3, <2>4, <2>5
  <1>10. ASSUME NEW s \in Sched, NEW t \in Tasks, IoFinishes(s, t)
         PROVE  UNCHANGED Lifecycle!lifecycleVars
    BY <1>5, <1>10 DEF IoFinishes, locals, history
  <1>11. ASSUME NEW d \in Sched, NEW r \in Sched, NEW n \in 1 .. MaxTasksToSteal,
                DaemonSend(d, r, n)
         PROVE  UNCHANGED Lifecycle!lifecycleVars
    BY <1>5, <1>11 DEF DaemonSend, locals, history
  <1>12. CASE DaemonCount \/ EnqueAssertFails
    BY <1>5, <1>12 DEF DaemonCount, EnqueAssertFails, locals, history
  <1>13. CASE UNCHANGED vars
    BY <1>5, <1>13 DEF vars, locals, history
  <1> QED
    BY <1>8, <1>9, <1>10, <1>11, <1>12, <1>13 DEF Next

\* The threads with their queues and lanes implement TaskLifecycle: every task
\* is submitted by the one before it, executed once, and then deleted.
THEOREM LifecycleIsImplemented == Spec => ImplementsLifecycle
  BY InitImplements, StepImplements, TasksInvHolds, PTL
     DEF Spec, ImplementsLifecycle, Lifecycle!LifecycleSpec

------------------------------------------------------------------------------
(* The counters of the lanes.                                               *)

Donating == {"donate", "handoff", "handoffCount"}
Accepting == {"acceptSubmit", "acceptDec"}

\* The schedulers that put a request, or a task, in a lane of s and did not
\* count it yet.
Requesting(s) == {r \in Sched : pc[r] = "stealCount" /\ scan[r].donor = s}
Delivering(s) == {d \in Sched : pc[d] = "handoffCount" /\ ev[d].to = s}

SubmittedRight(s) ==
    submitted[s] = SumOverLanes(subq[s]) + (IF pc[s] \in Donating THEN 1 ELSE 0)
                   - Cardinality(Requesting(s))
                   - (IF daemon.sending /\ daemon.donor = s THEN 1 ELSE 0)

CompletedRight(s) ==
    completed[s] = SumOverLanes(compq[s]) + (IF pc[s] \in Accepting THEN 1 ELSE 0)
                   - Cardinality(Delivering(s))

CountersInv == \A s \in Sched : SubmittedRight(s) /\ CompletedRight(s)

LEMMA LensType ==
    ASSUME NEW V, NEW q \in [Sched -> Seq(V)]
    PROVE  /\ [i \in Sched |-> Len(q[i])] \in [0 .. N - 1 -> Int]
           /\ SumOverLanes(q) = SumTo([i \in Sched |-> Len(q[i])], N)
           /\ SumOverLanes(q) \in Int
  <1>1. [i \in Sched |-> Len(q[i])] \in [0 .. N - 1 -> Int]
    <2>1. \A i \in Sched : Len(q[i]) \in Int
      BY LenProperties
    <2> QED
      BY <2>1 DEF Sched
  <1>2. SumOverLanes(q) = SumTo([i \in Sched |-> Len(q[i])], N)
    BY DEF SumOverLanes, SumOf, SumTo
  <1> QED
    BY <1>1, <1>2, SumType, SizesAssumption

\* Only lane i changes.
LEMMA LaneChanged ==
    ASSUME NEW V, NEW q \in [Sched -> Seq(V)], NEW h \in [Sched -> Seq(V)],
           NEW i \in Sched, \A j \in Sched \ {i} : h[j] = q[j]
    PROVE  SumOverLanes(h) = SumOverLanes(q) + (Len(h[i]) - Len(q[i]))
  <1> DEFINE f == [j \in Sched |-> Len(q[j])]
             g == [j \in Sched |-> Len(h[j])]
             d == Len(h[i]) - Len(q[i])
  <1>1. /\ f \in [0 .. N - 1 -> Int] /\ SumOverLanes(q) = SumTo(f, N)
        /\ g \in [0 .. N - 1 -> Int] /\ SumOverLanes(h) = SumTo(g, N)
    BY LensType
  <1>2. /\ d \in Int /\ g[i] = f[i] + d
        /\ \A j \in (0 .. N - 1) \ {i} : g[j] = f[j]
    <2>1. Len(h[i]) \in Nat /\ Len(q[i]) \in Nat
      BY LenProperties
    <2> QED
      BY <2>1 DEF Sched
  <1>3. N \in Nat /\ i \in 0 .. N - 1
    BY SizesAssumption DEF Sched
  <1>4. SumTo(g, N) = SumTo(f, N) + d
    <2> HIDE DEF f, g, d
    <2> QED
      BY <1>1, <1>2, <1>3, SumOfChanged
  <1> QED
    BY <1>1, <1>4

\* The lanes h are the lanes q with v put last in lane i of s.
Appended(q, h, s, i, v) == h = [q EXCEPT ![s][i] = Append(@, v)]

\* The lanes h of s hold one element more than the lanes q of s.
OneMore(q, h, s) == /\ SumOverLanes(h[s]) = SumOverLanes(q[s]) + 1
                    /\ \A x \in Sched \ {s} : h[x] = q[x]

LEMMA AppendChanges ==
    ASSUME NEW V, NEW q \in [Sched -> [Sched -> Seq(V)]], NEW h,
           NEW s \in Sched, NEW i \in Sched, NEW v \in V, Appended(q, h, s, i, v)
    PROVE  OneMore(q, h, s)
  <1>1. q[s] \in [Sched -> Seq(V)] /\ q[s][i] \in Seq(V)
    OBVIOUS
  <1>2. h[s] = [q[s] EXCEPT ![i] = Append(@, v)] /\ \A x \in Sched \ {s} : h[x] = q[x]
    BY DEF Appended
  <1>3. Append(q[s][i], v) \in Seq(V) /\ Len(Append(q[s][i], v)) = Len(q[s][i]) + 1
    BY <1>1, AppendProperties
  <1>4. h[s] \in [Sched -> Seq(V)]
    BY <1>1, <1>2, <1>3
  <1>5. Len(h[s][i]) = Len(q[s][i]) + 1 /\ \A j \in Sched \ {i} : h[s][j] = q[s][j]
    BY <1>1, <1>2, <1>3
  <1> DEFINE a == q[s]
             b == h[s]
  <1>6. /\ a \in [Sched -> Seq(V)] /\ b \in [Sched -> Seq(V)] /\ Len(b[i]) = Len(a[i]) + 1
        /\ \A j \in Sched \ {i} : b[j] = a[j]
    BY <1>1, <1>4, <1>5
  <1> HIDE DEF a, b
  <1>7. SumOverLanes(b) = SumOverLanes(a) + (Len(b[i]) - Len(a[i]))
    BY <1>6, LaneChanged
  <1>8. Len(a[i]) \in Nat
    BY <1>6, LenProperties
  <1>9. SumOverLanes(b) = SumOverLanes(a) + 1
    BY <1>6, <1>7, <1>8
  <1> QED
    BY <1>2, <1>9 DEF a, b, OneMore

LEMMA TailChanges ==
    ASSUME NEW V, NEW q \in [Sched -> [Sched -> Seq(V)]], NEW h,
           NEW s \in Sched, NEW i \in Sched, q[s][i] # <<>>,
           h = [q EXCEPT ![s][i] = Tail(@)]
    PROVE  /\ SumOverLanes(h[s]) = SumOverLanes(q[s]) - 1
           /\ \A x \in Sched \ {s} : h[x] = q[x]
  <1>1. q[s] \in [Sched -> Seq(V)] /\ q[s][i] \in Seq(V)
    OBVIOUS
  <1>2. h[s] = [q[s] EXCEPT ![i] = Tail(@)]
    OBVIOUS
  <1>3. Tail(q[s][i]) \in Seq(V) /\ Len(Tail(q[s][i])) = Len(q[s][i]) - 1 /\ Len(q[s][i]) \in Nat
    BY <1>1, HeadTailProperties, LenProperties
  <1>4. h[s] \in [Sched -> Seq(V)]
    BY <1>1, <1>2, <1>3
  <1>5. Len(h[s][i]) = Len(q[s][i]) + (-1) /\ \A j \in Sched \ {i} : h[s][j] = q[s][j]
    BY <1>1, <1>2, <1>3
  <1> DEFINE a == q[s]
             b == h[s]
  <1>6. /\ a \in [Sched -> Seq(V)] /\ b \in [Sched -> Seq(V)] /\ Len(b[i]) = Len(a[i]) + (-1)
        /\ \A j \in Sched \ {i} : b[j] = a[j]
    BY <1>1, <1>4, <1>5
  <1> HIDE DEF a, b
  <1>7. SumOverLanes(b) = SumOverLanes(a) + (Len(b[i]) - Len(a[i]))
    BY <1>6, LaneChanged
  <1>8. Len(a[i]) \in Nat /\ SumOverLanes(a) \in Int
    BY <1>6, LenProperties, LensType
  <1>9. SumOverLanes(b) = SumOverLanes(a) - 1
    BY <1>6, <1>7, <1>8
  <1> QED
    BY <1>5, <1>9 DEF a, b

LEMMA CountsAreFinite ==
    \A s : /\ IsFiniteSet(Requesting(s)) /\ Cardinality(Requesting(s)) \in Nat
           /\ IsFiniteSet(Delivering(s)) /\ Cardinality(Delivering(s)) \in Nat
  <1>1. IsFiniteSet(Sched)
    BY SizesAssumption, FS_Interval DEF Sched
  <1>2. \A s : Requesting(s) \subseteq Sched /\ Delivering(s) \subseteq Sched
    BY DEF Requesting, Delivering
  <1> QED
    BY <1>1, <1>2, FS_Subset, FS_CardinalityType

\* A step that concerns neither the requests in the lanes nor their counter.
SubmittedKept(s) ==
    /\ UNCHANGED <<submitted, subq, daemon>>
    /\ pc'[s] \in Donating <=> pc[s] \in Donating
    /\ pc[s] # "stealCount" /\ pc'[s] # "stealCount"
    /\ \A x \in Sched \ {s} : pc'[x] = pc[x] /\ scan'[x] = scan[x]

CompletedKept(s) ==
    /\ UNCHANGED <<completed, compq>>
    /\ pc'[s] \in Accepting <=> pc[s] \in Accepting
    /\ pc[s] # "handoffCount" /\ pc'[s] # "handoffCount"
    /\ \A x \in Sched \ {s} : pc'[x] = pc[x] /\ ev'[x] = ev[x]

LEMMA SubmittedKeeps ==
    ASSUME CountersInv, NEW s \in Sched, SubmittedKept(s)
    PROVE  \A x \in Sched : SubmittedRight(x)'
  <1> SUFFICES ASSUME NEW x \in Sched PROVE SubmittedRight(x)'
    OBVIOUS
  <1>1. Requesting(x)' = Requesting(x)
    BY DEF Requesting, SubmittedKept
  <1>2. pc'[x] \in Donating <=> pc[x] \in Donating
    BY DEF SubmittedKept
  <1>3. SubmittedRight(x) /\ UNCHANGED <<submitted, subq, daemon>>
    BY DEF CountersInv, SubmittedKept
  <1> QED
    BY <1>1, <1>2, <1>3 DEF SubmittedRight

LEMMA CompletedKeeps ==
    ASSUME CountersInv, NEW s \in Sched, CompletedKept(s)
    PROVE  \A x \in Sched : CompletedRight(x)'
  <1> SUFFICES ASSUME NEW x \in Sched PROVE CompletedRight(x)'
    OBVIOUS
  <1>1. Delivering(x)' = Delivering(x)
    BY DEF Delivering, CompletedKept
  <1>2. pc'[x] \in Accepting <=> pc[x] \in Accepting
    BY DEF CompletedKept
  <1>3. CompletedRight(x) /\ UNCHANGED <<completed, compq>>
    BY DEF CountersInv, CompletedKept
  <1> QED
    BY <1>1, <1>2, <1>3 DEF CompletedRight

LEMMA TakeRequestCounts ==
    ASSUME TypeInv, CountersInv, NEW s \in Sched, TakeRequest(s)
    PROVE  \A x \in Sched : SubmittedRight(x)'
  <1>a. PICK i \in Sched : i = idx[s]
    BY DEF TypeInv, TypeOK
  <1>1. /\ subq \in [Sched -> [Sched -> Seq(Request)]] /\ subq[s][i] # <<>>
        /\ subq' = [subq EXCEPT ![s][i] = Tail(@)]
    <2>1. subq[s][i] # <<>> /\ subq' = [subq EXCEPT ![s][i] = Tail(@)]
      BY <1>a DEF TakeRequest
    <2> QED
      BY <2>1 DEF TypeInv, TypeOK
  <1>2. /\ pc[s] = "drain" /\ pc'[s] = "donate" /\ \A x \in Sched \ {s} : pc'[x] = pc[x]
        /\ UNCHANGED <<submitted, scan, daemon>>
    BY DEF TakeRequest, At, Goto, TypeInv, TypeOK, counters, environment
  <1>3. /\ SumOverLanes(subq'[s]) = SumOverLanes(subq[s]) - 1
        /\ \A x \in Sched \ {s} : subq'[x] = subq[x]
    BY <1>1, TailChanges
  <1> SUFFICES ASSUME NEW x \in Sched PROVE SubmittedRight(x)'
    OBVIOUS
  <1>4. Requesting(x)' = Requesting(x)
    BY <1>2 DEF Requesting
  <1>5. /\ SumOverLanes(subq[x]) \in Int /\ submitted[x] \in Int
        /\ Cardinality(Requesting(x)) \in Nat /\ SubmittedRight(x)
    <2>1. subq[x] \in [Sched -> Seq(Request)]
      BY <1>1
    <2> QED
      BY <2>1, LensType, CountsAreFinite DEF TypeInv, TypeOK, CountersInv
  <1>6. CASE x = s
    BY <1>2, <1>3, <1>4, <1>5, <1>6 DEF SubmittedRight, Donating
  <1>7. CASE x # s
    BY <1>2, <1>3, <1>4, <1>5, <1>7 DEF SubmittedRight
  <1> QED
    BY <1>6, <1>7

LEMMA RequestServedCounts ==
    ASSUME TypeInv, CountersInv, NEW s \in Sched, RequestServed(s)
    PROVE  \A x \in Sched : SubmittedRight(x)'
  <1>1. /\ pc[s] = "donate" /\ pc'[s] \in {"mark", "drain"}
        /\ \A x \in Sched \ {s} : pc'[x] = pc[x]
        /\ submitted' = [submitted EXCEPT ![s] = @ + (-1)] /\ submitted \in [Sched -> Int]
        /\ UNCHANGED <<subq, scan, daemon>>
    BY DEF RequestServed, At, Goto, Add, TypeInv, TypeOK, lanes, environment
  <1> SUFFICES ASSUME NEW x \in Sched PROVE SubmittedRight(x)'
    OBVIOUS
  <1>2. Requesting(x)' = Requesting(x)
    BY <1>1 DEF Requesting
  <1>3. /\ SumOverLanes(subq[x]) \in Int /\ submitted[x] \in Int
        /\ Cardinality(Requesting(x)) \in Nat /\ SubmittedRight(x)
    <2>1. subq[x] \in [Sched -> Seq(Request)]
      BY DEF TypeInv, TypeOK
    <2> QED
      BY <2>1, LensType, CountsAreFinite DEF TypeInv, TypeOK, CountersInv
  <1>4. CASE x = s
    BY <1>1, <1>2, <1>3, <1>4 DEF SubmittedRight, Donating
  <1>5. CASE x # s
    BY <1>1, <1>2, <1>3, <1>5 DEF SubmittedRight
  <1> QED
    BY <1>4, <1>5

LEMMA StealSendCounts ==
    ASSUME TypeInv, CountersInv, NEW s \in Sched, StealSend(s)
    PROVE  \A x \in Sched : SubmittedRight(x)'
  <1>a. PICK d \in Sched : d = scan[s].donor
    BY DEF TypeInv, TypeOK
  <1>b. PICK q \in Request : q = [count |-> scan[s].ask, to |-> s]
    BY DEF TypeInv, TypeOK, Request
  <1>1. /\ subq \in [Sched -> [Sched -> Seq(Request)]]
        /\ subq' = [subq EXCEPT ![d][s] = Append(@, q)]
    <2>1. subq' = [subq EXCEPT ![d][s] = Append(@, q)]
      BY <1>a, <1>b DEF StealSend
    <2> QED
      BY <2>1 DEF TypeInv, TypeOK
  <1>2. /\ pc[s] = "stealSend" /\ pc'[s] = "stealCount" /\ \A x \in Sched \ {s} : pc'[x] = pc[x]
        /\ UNCHANGED <<submitted, scan, daemon>>
    BY DEF StealSend, At, Goto, TypeInv, TypeOK, counters, locals, environment
  <1>3. /\ SumOverLanes(subq'[d]) = SumOverLanes(subq[d]) + 1
        /\ \A x \in Sched \ {d} : subq'[x] = subq[x]
    <2>1. Appended(subq, subq', d, s, q)
      BY <1>1 DEF Appended
    <2>2. subq \in [Sched -> [Sched -> Seq(Request)]]
      BY <1>1
    <2>3. OneMore(subq, subq', d)
      BY <2>1, <2>2, AppendChanges
    <2> QED
      BY <2>3 DEF OneMore
  <1> SUFFICES ASSUME NEW x \in Sched PROVE SubmittedRight(x)'
    OBVIOUS
  <1>4. /\ SumOverLanes(subq[x]) \in Int /\ submitted[x] \in Int
        /\ Cardinality(Requesting(x)) \in Nat /\ SubmittedRight(x)
    <2>1. subq[x] \in [Sched -> Seq(Request)]
      BY <1>1
    <2> QED
      BY <2>1, LensType, CountsAreFinite DEF TypeInv, TypeOK, CountersInv
  <1>5. pc'[x] \in Donating <=> pc[x] \in Donating
    BY <1>2 DEF Donating
  <1>6. CASE x = d
    <2>1. Requesting(d)' = Requesting(d) \cup {s} /\ s \notin Requesting(d)
      BY <1>2, <1>a DEF Requesting
    <2>2. Cardinality(Requesting(d)') = Cardinality(Requesting(d)) + 1
      BY <2>1, CountsAreFinite, FS_AddElement
    <2> QED
      BY <1>2, <1>3, <1>4, <1>5, <1>6, <2>2 DEF SubmittedRight
  <1>7. CASE x # d
    <2>1. Requesting(x)' = Requesting(x)
      BY <1>2, <1>7, <1>a DEF Requesting
    <2> QED
      BY <1>2, <1>3, <1>4, <1>5, <1>7, <2>1 DEF SubmittedRight
  <1> QED
    BY <1>6, <1>7

LEMMA StealCountCounts ==
    ASSUME TypeInv, CountersInv, NEW s \in Sched, StealCount(s)
    PROVE  \A x \in Sched : SubmittedRight(x)'
  <1>a. PICK d \in Sched : d = scan[s].donor
    BY DEF TypeInv, TypeOK
  <1>1. /\ submitted \in [Sched -> Int] /\ submitted' = [submitted EXCEPT ![d] = @ + 1]
        /\ pc[s] = "stealCount" /\ pc'[s] = "stealMark"
        /\ \A x \in Sched \ {s} : pc'[x] = pc[x] /\ scan'[x] = scan[x]
        /\ UNCHANGED <<subq, daemon>>
    BY <1>a DEF StealCount, At, Goto, Add, TypeInv, TypeOK, lanes, environment
  <1> SUFFICES ASSUME NEW x \in Sched PROVE SubmittedRight(x)'
    OBVIOUS
  <1>2. /\ SumOverLanes(subq[x]) \in Int /\ submitted[x] \in Int
        /\ Cardinality(Requesting(x)) \in Nat /\ SubmittedRight(x)
    <2>1. subq[x] \in [Sched -> Seq(Request)]
      BY DEF TypeInv, TypeOK
    <2> QED
      BY <2>1, LensType, CountsAreFinite DEF TypeInv, TypeOK, CountersInv
  <1>3. pc'[x] \in Donating <=> pc[x] \in Donating
    BY <1>1 DEF Donating
  <1>4. CASE x = d
    <2>1. Requesting(d)' = Requesting(d) \ {s} /\ s \in Requesting(d)
      BY <1>1, <1>a DEF Requesting
    <2>2. Cardinality(Requesting(d)') = Cardinality(Requesting(d)) - 1
      BY <2>1, CountsAreFinite, FS_RemoveElement
    <2> QED
      BY <1>1, <1>2, <1>3, <1>4, <2>2 DEF SubmittedRight
  <1>5. CASE x # d
    <2>1. Requesting(x)' = Requesting(x)
      BY <1>1, <1>5, <1>a DEF Requesting
    <2> QED
      BY <1>1, <1>2, <1>3, <1>5, <2>1 DEF SubmittedRight
  <1> QED
    BY <1>4, <1>5

LEMMA DaemonSendCounts ==
    ASSUME TypeInv, CountersInv, NEW d \in Sched, NEW r \in Sched,
           NEW n \in 1 .. MaxTasksToSteal, DaemonSend(d, r, n)
    PROVE  CountersInv'
  <1>b. PICK q \in Request : q = [count |-> n, to |-> r]
    <2>1. [count |-> n, to |-> r] \in Request
      BY SizesAssumption DEF Request
    <2> QED
      BY <2>1
  <1>1. /\ subq \in [Sched -> [Sched -> Seq(Request)]]
        /\ subq' = [subq EXCEPT ![d][d] = Append(@, q)]
        /\ ~daemon.sending /\ daemon'.sending /\ daemon'.donor = d
        /\ UNCHANGED <<submitted, completed, compq, pc, ev, scan>>
    BY <1>b DEF DaemonSend, TypeInv, TypeOK, counters, locals
  <1>2. /\ SumOverLanes(subq'[d]) = SumOverLanes(subq[d]) + 1
        /\ \A x \in Sched \ {d} : subq'[x] = subq[x]
    <2>1. Appended(subq, subq', d, d, q)
      BY <1>1 DEF Appended
    <2>2. subq \in [Sched -> [Sched -> Seq(Request)]]
      BY <1>1
    <2>3. OneMore(subq, subq', d)
      BY <2>1, <2>2, AppendChanges
    <2> QED
      BY <2>3 DEF OneMore
  <1> SUFFICES ASSUME NEW x \in Sched PROVE SubmittedRight(x)' /\ CompletedRight(x)'
    BY DEF CountersInv
  <1>3. /\ SumOverLanes(subq[x]) \in Int /\ submitted[x] \in Int
        /\ Cardinality(Requesting(x)) \in Nat /\ SubmittedRight(x) /\ CompletedRight(x)
    <2>1. subq[x] \in [Sched -> Seq(Request)]
      BY <1>1
    <2> QED
      BY <2>1, LensType, CountsAreFinite DEF TypeInv, TypeOK, CountersInv
  <1>4. Requesting(x)' = Requesting(x) /\ Delivering(x)' = Delivering(x)
    BY <1>1 DEF Requesting, Delivering
  <1>5. CASE x = d
    <2>1. (daemon'.sending /\ daemon'.donor = x) /\ ~(daemon.sending /\ daemon.donor = x)
      BY <1>1, <1>5
    <2>2. SumOverLanes(subq'[x]) = SumOverLanes(subq[x]) + 1
      BY <1>2, <1>5
    <2>3. submitted[x] = SumOverLanes(subq[x]) + (IF pc[x] \in Donating THEN 1 ELSE 0)
                         - Cardinality(Requesting(x))
      BY <1>3, <2>1 DEF SubmittedRight
    <2>4. submitted'[x] = SumOverLanes(subq'[x]) + (IF pc'[x] \in Donating THEN 1 ELSE 0)
                          - Cardinality(Requesting(x)') - 1
      <3>1. /\ submitted'[x] = submitted[x] /\ pc'[x] = pc[x]
            /\ Cardinality(Requesting(x)') = Cardinality(Requesting(x))
        BY <1>1, <1>4
      <3>2. SumOverLanes(subq[x]) \in Int /\ Cardinality(Requesting(x)) \in Int
        BY <1>3
      <3>3. (IF pc[x] \in Donating THEN 1 ELSE 0) \in Int
        OBVIOUS
      <3> QED
        BY <2>2, <2>3, <3>1, <3>2, <3>3
    <2>5. SubmittedRight(x)'
      BY <2>1, <2>4 DEF SubmittedRight
    <2> QED
      BY <1>1, <1>3, <1>4, <2>5 DEF CompletedRight
  <1>6. CASE x # d
    BY <1>1, <1>2, <1>3, <1>4, <1>6 DEF SubmittedRight, CompletedRight
  <1> QED
    BY <1>5, <1>6

LEMMA DaemonCountCounts ==
    ASSUME TypeInv, CountersInv, DaemonCount
    PROVE  CountersInv'
  <1>a. PICK d \in Sched : d = daemon.donor
    BY DEF TypeInv, TypeOK
  <1>1. /\ submitted \in [Sched -> Int] /\ submitted' = [submitted EXCEPT ![d] = @ + 1]
        /\ daemon.sending /\ ~daemon'.sending
        /\ UNCHANGED <<subq, completed, compq, pc, ev, scan>>
    BY <1>a DEF DaemonCount, Add, TypeInv, TypeOK, lanes, locals
  <1> SUFFICES ASSUME NEW x \in Sched PROVE SubmittedRight(x)' /\ CompletedRight(x)'
    BY DEF CountersInv
  <1>2. /\ SumOverLanes(subq[x]) \in Int /\ submitted[x] \in Int
        /\ Cardinality(Requesting(x)) \in Nat /\ SubmittedRight(x) /\ CompletedRight(x)
    <2>1. subq[x] \in [Sched -> Seq(Request)]
      BY DEF TypeInv, TypeOK
    <2> QED
      BY <2>1, LensType, CountsAreFinite DEF TypeInv, TypeOK, CountersInv
  <1>3. Requesting(x)' = Requesting(x) /\ Delivering(x)' = Delivering(x)
    BY <1>1 DEF Requesting, Delivering
  <1>4. CASE x = d
    BY <1>1, <1>2, <1>3, <1>4, <1>a DEF SubmittedRight, CompletedRight
  <1>5. CASE x # d
    BY <1>1, <1>2, <1>3, <1>5, <1>a DEF SubmittedRight, CompletedRight
  <1> QED
    BY <1>4, <1>5

LEMMA HandoffCounts ==
    ASSUME TypeInv, CountersInv, NEW s \in Sched, Handoff(s)
    PROVE  \A x \in Sched : CompletedRight(x)'
  <1>a. PICK r \in Sched : r = ev[s].to
    BY DEF TypeInv, TypeOK, Request
  <1>b. PICK t \in Tasks : t = hand[s]
    BY DEF Handoff, At, TypeInv, HandHeld
  <1>1. /\ compq \in [Sched -> [Sched -> Seq(Tasks)]]
        /\ compq' = [compq EXCEPT ![r][s] = Append(@, t)]
    <2>1. compq' = [compq EXCEPT ![r][s] = Append(@, t)]
      BY <1>a, <1>b DEF Handoff
    <2> QED
      BY <2>1 DEF TypeInv, TypeOK
  <1>2. /\ pc[s] = "handoff" /\ pc'[s] = "handoffCount" /\ \A x \in Sched \ {s} : pc'[x] = pc[x]
        /\ UNCHANGED <<completed, ev>>
    BY DEF Handoff, At, Goto, TypeInv, TypeOK, counters
  <1>3. /\ SumOverLanes(compq'[r]) = SumOverLanes(compq[r]) + 1
        /\ \A x \in Sched \ {r} : compq'[x] = compq[x]
    <2>1. Appended(compq, compq', r, s, t)
      BY <1>1 DEF Appended
    <2>2. compq \in [Sched -> [Sched -> Seq(Tasks)]]
      BY <1>1
    <2>3. OneMore(compq, compq', r)
      BY <2>1, <2>2, AppendChanges
    <2> QED
      BY <2>3 DEF OneMore
  <1> SUFFICES ASSUME NEW x \in Sched PROVE CompletedRight(x)'
    OBVIOUS
  <1>4. /\ SumOverLanes(compq[x]) \in Int /\ completed[x] \in Int
        /\ Cardinality(Delivering(x)) \in Nat /\ CompletedRight(x)
    <2>1. compq[x] \in [Sched -> Seq(Tasks)]
      BY <1>1
    <2> QED
      BY <2>1, LensType, CountsAreFinite DEF TypeInv, TypeOK, CountersInv
  <1>5. pc'[x] \in Accepting <=> pc[x] \in Accepting
    BY <1>2 DEF Accepting
  <1>6. CASE x = r
    <2>1. Delivering(r)' = Delivering(r) \cup {s} /\ s \notin Delivering(r)
      BY <1>2, <1>a DEF Delivering
    <2>2. Cardinality(Delivering(r)') = Cardinality(Delivering(r)) + 1
      BY <2>1, CountsAreFinite, FS_AddElement
    <2> QED
      BY <1>2, <1>3, <1>4, <1>5, <1>6, <2>2 DEF CompletedRight
  <1>7. CASE x # r
    <2>1. Delivering(x)' = Delivering(x)
      BY <1>2, <1>7, <1>a DEF Delivering
    <2> QED
      BY <1>2, <1>3, <1>4, <1>5, <1>7, <2>1 DEF CompletedRight
  <1> QED
    BY <1>6, <1>7

LEMMA HandoffCountCounts ==
    ASSUME TypeInv, CountersInv, NEW s \in Sched, HandoffCount(s)
    PROVE  \A x \in Sched : CompletedRight(x)'
  <1>a. PICK r \in Sched : r = ev[s].to
    BY DEF TypeInv, TypeOK, Request
  <1>1. /\ completed \in [Sched -> Int] /\ completed' = [completed EXCEPT ![r] = @ + 1]
        /\ pc[s] = "handoffCount" /\ pc'[s] = "donate"
        /\ \A x \in Sched \ {s} : pc'[x] = pc[x]
        /\ UNCHANGED <<compq, ev>>
    BY <1>a DEF HandoffCount, At, Goto, Add, TypeInv, TypeOK, lanes
  <1> SUFFICES ASSUME NEW x \in Sched PROVE CompletedRight(x)'
    OBVIOUS
  <1>2. /\ SumOverLanes(compq[x]) \in Int /\ completed[x] \in Int
        /\ Cardinality(Delivering(x)) \in Nat /\ CompletedRight(x)
    <2>1. compq[x] \in [Sched -> Seq(Tasks)]
      BY DEF TypeInv, TypeOK
    <2> QED
      BY <2>1, LensType, CountsAreFinite DEF TypeInv, TypeOK, CountersInv
  <1>3. pc'[x] \in Accepting <=> pc[x] \in Accepting
    BY <1>1 DEF Accepting
  <1>4. CASE x = r
    <2>1. Delivering(r)' = Delivering(r) \ {s} /\ s \in Delivering(r)
      BY <1>1, <1>a DEF Delivering
    <2>2. Cardinality(Delivering(r)') = Cardinality(Delivering(r)) - 1
      BY <2>1, CountsAreFinite, FS_RemoveElement
    <2> QED
      BY <1>1, <1>2, <1>3, <1>4, <2>2 DEF CompletedRight
  <1>5. CASE x # r
    <2>1. Delivering(x)' = Delivering(x)
      BY <1>1, <1>5, <1>a DEF Delivering
    <2> QED
      BY <1>1, <1>2, <1>3, <1>5, <2>1 DEF CompletedRight
  <1> QED
    BY <1>4, <1>5

LEMMA TakeDonatedCounts ==
    ASSUME TypeInv, CountersInv, NEW s \in Sched, TakeDonated(s)
    PROVE  \A x \in Sched : CompletedRight(x)'
  <1>a. PICK i \in Sched : i = idx[s]
    BY DEF TypeInv, TypeOK
  <1>1. /\ compq \in [Sched -> [Sched -> Seq(Tasks)]] /\ compq[s][i] # <<>>
        /\ compq' = [compq EXCEPT ![s][i] = Tail(@)]
    <2>1. compq[s][i] # <<>> /\ compq' = [compq EXCEPT ![s][i] = Tail(@)]
      BY <1>a DEF TakeDonated
    <2> QED
      BY <2>1 DEF TypeInv, TypeOK
  <1>2. /\ pc[s] = "accept" /\ pc'[s] = "acceptSubmit" /\ \A x \in Sched \ {s} : pc'[x] = pc[x]
        /\ UNCHANGED <<completed, ev>>
    BY DEF TakeDonated, At, Goto, TypeInv, TypeOK, counters
  <1>3. /\ SumOverLanes(compq'[s]) = SumOverLanes(compq[s]) - 1
        /\ \A x \in Sched \ {s} : compq'[x] = compq[x]
    BY <1>1, TailChanges
  <1> SUFFICES ASSUME NEW x \in Sched PROVE CompletedRight(x)'
    OBVIOUS
  <1>4. Delivering(x)' = Delivering(x)
    BY <1>2 DEF Delivering
  <1>5. /\ SumOverLanes(compq[x]) \in Int /\ completed[x] \in Int
        /\ Cardinality(Delivering(x)) \in Nat /\ CompletedRight(x)
    <2>1. compq[x] \in [Sched -> Seq(Tasks)]
      BY <1>1
    <2> QED
      BY <2>1, LensType, CountsAreFinite DEF TypeInv, TypeOK, CountersInv
  <1>6. CASE x = s
    BY <1>2, <1>3, <1>4, <1>5, <1>6 DEF CompletedRight, Accepting
  <1>7. CASE x # s
    BY <1>2, <1>3, <1>4, <1>5, <1>7 DEF CompletedRight
  <1> QED
    BY <1>6, <1>7

LEMMA DonatedAcceptedCounts ==
    ASSUME TypeInv, CountersInv, NEW s \in Sched, DonatedAccepted(s)
    PROVE  \A x \in Sched : CompletedRight(x)'
  <1>1. /\ pc[s] = "acceptDec" /\ pc'[s] = "accept" /\ \A x \in Sched \ {s} : pc'[x] = pc[x]
        /\ completed' = [completed EXCEPT ![s] = @ + (-1)] /\ completed \in [Sched -> Int]
        /\ UNCHANGED <<compq, ev>>
    BY DEF DonatedAccepted, At, Goto, Add, TypeInv, TypeOK, lanes, locals
  <1> SUFFICES ASSUME NEW x \in Sched PROVE CompletedRight(x)'
    OBVIOUS
  <1>2. Delivering(x)' = Delivering(x)
    BY <1>1 DEF Delivering
  <1>3. /\ SumOverLanes(compq[x]) \in Int /\ completed[x] \in Int
        /\ Cardinality(Delivering(x)) \in Nat /\ CompletedRight(x)
    <2>1. compq[x] \in [Sched -> Seq(Tasks)]
      BY DEF TypeInv, TypeOK
    <2> QED
      BY <2>1, LensType, CountsAreFinite DEF TypeInv, TypeOK, CountersInv
  <1>4. CASE x = s
    BY <1>1, <1>2, <1>3, <1>4 DEF CompletedRight, Accepting
  <1>5. CASE x # s
    BY <1>1, <1>2, <1>3, <1>5 DEF CompletedRight
  <1> QED
    BY <1>4, <1>5

LEMMA OtherStepsKeepSubmitted ==
    ASSUME TypeInv, NEW s \in Sched, Step(s) \/ Fail(s),
           ~TakeRequest(s), ~RequestServed(s), ~StealSend(s), ~StealCount(s)
    PROVE  SubmittedKept(s)
  <1>1. pc \in [Sched -> Places] /\ scan \in [Sched -> [next : 0 .. N, total : Int, donor : Sched,
                                                         donorCount : Int, ask : Int]]
    BY DEF TypeInv, TypeOK
  <1> USE <1>1 DEF SubmittedKept, Donating, At, Goto, NextLane, queues, counters, io, lanes,
                   locals, environment, history
  <1>2. ASSUME NEW t \in Tasks, CollectIo(s, t) \/ DonateTask(s, t) \/ StartTask(s, t)
        PROVE  SubmittedKept(s)
    BY <1>2 DEF CollectIo, DonateTask, StartTask
  <1>3. ASSUME CheckSubmitted(s) \/ SubmissionLaneEmpty(s) \/ Handoff(s) \/ HandoffCount(s)
        PROVE  SubmittedKept(s)
    BY <1>3 DEF CheckSubmitted, SubmissionLaneEmpty, Handoff, HandoffCount
  <1>4. ASSUME MarkCompletion(s) \/ CheckCompleted(s) \/ CompletionLaneEmpty(s) \/ TakeDonated(s)
        PROVE  SubmittedKept(s)
    BY <1>4 DEF MarkCompletion, CheckCompleted, CompletionLaneEmpty, TakeDonated
  <1>5. ASSUME SubmitDonated(s) \/ DonatedAccepted(s) \/ CheckInProcess(s) \/ CheckDonated(s)
        PROVE  SubmittedKept(s)
    BY <1>5 DEF SubmitDonated, DonatedAccepted, CheckInProcess, CheckDonated
  <1>6. ASSUME ScanCount(s) PROVE SubmittedKept(s)
    BY <1>6 DEF ScanCount
  <1>7. ASSUME DecideToSteal(s) PROVE SubmittedKept(s)
    BY <1>7 DEF DecideToSteal
  <1>8. ASSUME StealMark(s) \/ ProcessReturns(s) \/ DeleteTask(s)
        PROVE  SubmittedKept(s)
    BY <1>8 DEF StealMark, ProcessReturns, DeleteTask
  <1>9. ASSUME NEW t \in Tasks, SubmitNextTask(s, t) PROVE SubmittedKept(s)
    BY <1>9 DEF SubmitNextTask
  <1>10. ASSUME Fail(s) PROVE SubmittedKept(s)
    BY <1>10 DEF Fail, IoFails, ProcessThrows, SubmitThrows
  <1> QED
    BY <1>2, <1>3, <1>4, <1>5, <1>6, <1>7, <1>8, <1>9, <1>10 DEF Step

LEMMA OtherStepsKeepCompleted ==
    ASSUME TypeInv, NEW s \in Sched, Step(s) \/ Fail(s),
           ~Handoff(s), ~HandoffCount(s), ~TakeDonated(s), ~DonatedAccepted(s)
    PROVE  CompletedKept(s)
  <1>1. pc \in [Sched -> Places] /\ ev \in [Sched -> Request]
    BY DEF TypeInv, TypeOK
  <1> USE <1>1 DEF CompletedKept, Accepting, At, Goto, NextLane, queues, counters, io, lanes,
                   locals, environment, history
  <1>2. ASSUME NEW t \in Tasks, CollectIo(s, t) \/ DonateTask(s, t) \/ StartTask(s, t)
        PROVE  CompletedKept(s)
    BY <1>2 DEF CollectIo, DonateTask, StartTask
  <1>3. ASSUME CheckSubmitted(s) \/ SubmissionLaneEmpty(s) \/ TakeRequest(s) \/ RequestServed(s)
        PROVE  CompletedKept(s)
    BY <1>3 DEF CheckSubmitted, SubmissionLaneEmpty, TakeRequest, RequestServed
  <1>4. ASSUME MarkCompletion(s) \/ CheckCompleted(s) \/ CompletionLaneEmpty(s) \/ SubmitDonated(s)
        PROVE  CompletedKept(s)
    BY <1>4 DEF MarkCompletion, CheckCompleted, CompletionLaneEmpty, SubmitDonated
  <1>5. ASSUME CheckInProcess(s) \/ CheckDonated(s) \/ ScanCount(s) \/ DecideToSteal(s)
        PROVE  CompletedKept(s)
    BY <1>5 DEF CheckInProcess, CheckDonated, ScanCount, DecideToSteal
  <1>6. ASSUME StealSend(s) \/ StealCount(s) \/ StealMark(s)
        PROVE  CompletedKept(s)
    BY <1>6 DEF StealSend, StealCount, StealMark
  <1>7. ASSUME ProcessReturns(s) \/ DeleteTask(s)
        PROVE  CompletedKept(s)
    BY <1>7 DEF ProcessReturns, DeleteTask
  <1>8. ASSUME NEW t \in Tasks, SubmitNextTask(s, t) PROVE CompletedKept(s)
    BY <1>8 DEF SubmitNextTask
  <1>9. ASSUME Fail(s) PROVE CompletedKept(s)
    BY <1>9 DEF Fail, IoFails, ProcessThrows, SubmitThrows
  <1> QED
    BY <1>2, <1>3, <1>4, <1>5, <1>6, <1>7, <1>8, <1>9 DEF Step

LEMMA StepCountersInv == TypeInv /\ CountersInv /\ [Next]_vars => CountersInv'
  <1> SUFFICES ASSUME TypeInv, CountersInv, [Next]_vars
               PROVE  CountersInv'
    OBVIOUS
  <1>0. ASSUME NEW d \in Sched, NEW r \in Sched, NEW n \in 1 .. MaxTasksToSteal, DaemonSend(d, r, n)
        PROVE  CountersInv'
    BY <1>0, DaemonSendCounts
  <1>1. ASSUME NEW s \in Sched, Step(s) \/ Fail(s) PROVE CountersInv'
    <2>1. \A x \in Sched : SubmittedRight(x)'
      BY <1>1, TakeRequestCounts, RequestServedCounts, StealSendCounts, StealCountCounts,
         OtherStepsKeepSubmitted, SubmittedKeeps
    <2>2. \A x \in Sched : CompletedRight(x)'
      BY <1>1, HandoffCounts, HandoffCountCounts, TakeDonatedCounts, DonatedAcceptedCounts,
         OtherStepsKeepCompleted, CompletedKeeps
    <2> QED
      BY <2>1, <2>2 DEF CountersInv
  <1>2. ASSUME UNCHANGED <<submitted, completed, subq, compq, pc, ev, scan, daemon>>
        PROVE  CountersInv'
    <2> SUFFICES ASSUME NEW x \in Sched PROVE SubmittedRight(x)' /\ CompletedRight(x)'
      BY DEF CountersInv
    <2>1. Requesting(x)' = Requesting(x) /\ Delivering(x)' = Delivering(x)
      BY <1>2 DEF Requesting, Delivering
    <2>2. SubmittedRight(x) /\ CompletedRight(x)
      BY DEF CountersInv
    <2> QED
      BY <1>2, <2>1, <2>2 DEF SubmittedRight, CompletedRight
  <1>3. ASSUME NEW s \in Sched, NEW t \in Tasks, IoFinishes(s, t) PROVE CountersInv'
    BY <1>2, <1>3 DEF IoFinishes, counters, lanes, locals, environment
  <1>4. CASE EnqueAssertFails
    BY <1>2, <1>4 DEF EnqueAssertFails, counters, lanes, locals, environment
  <1>5. CASE UNCHANGED vars
    BY <1>2, <1>5 DEF vars, counters, lanes, locals, environment
  <1> QED
    BY <1>0, <1>1, <1>3, <1>4, <1>5, DaemonCountCounts DEF Next

LEMMA InitCountersInv == Init => CountersInv
  <1> SUFFICES ASSUME Init, NEW s \in Sched
               PROVE  SubmittedRight(s) /\ CompletedRight(s)
    BY DEF CountersInv
  <1> DEFINE q == [i \in Sched |-> <<>>]
             zeros == [i \in Sched |-> Len(q[i])]
  <1>1. subq[s] = q /\ compq[s] = q
    BY DEF Init
  <1>2. SumOverLanes(q) = 0
    <2>1. q \in [Sched -> Seq(Tasks)] /\ \A i \in 0 .. N - 1 : zeros[i] = 0
      BY DEF Sched
    <2>2. zeros \in [0 .. N - 1 -> Int] /\ SumOverLanes(q) = SumTo(zeros, N)
      BY <2>1, LensType
    <2> HIDE DEF zeros
    <2> QED
      BY <2>1, <2>2, SumOfZeros, SizesAssumption
  <1>3. Requesting(s) = {} /\ Delivering(s) = {}
    BY DEF Init, Requesting, Delivering
  <1>4. /\ submitted[s] = 0 /\ completed[s] = 0 /\ pc[s] = "poll" /\ ~daemon.sending
    BY DEF Init
  <1> HIDE DEF q
  <1> QED
    BY <1>1, <1>2, <1>3, <1>4, FS_EmptySet
       DEF SubmittedRight, CompletedRight, Donating, Accepting

\* The two counters never drift from the contents of the lanes.
THEOREM CountersAlwaysMatch == Spec => []CountersMatchLanes
  <1>1. CountersInv => CountersMatchLanes
    BY DEF CountersInv, CountersMatchLanes, SubmittedRight, CompletedRight, Requesting,
           Delivering, Donating, Accepting
  <1>2. TypeInv /\ CountersInv /\ [Next]_vars => (TypeInv /\ CountersInv)'
    BY StepTypeInv, StepCountersInv
  <1> QED
    BY <1>1, <1>2, InitTypeInv, InitCountersInv, PTL DEF Spec

=============================================================================
