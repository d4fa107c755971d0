-------------------------- MODULE BalanceLoadProofs --------------------------
(***************************************************************************)
(* What the balancing daemon asks for, for any number of schedulers: the   *)
(* requests are the ones module WorkStealing lets it send, one round asks  *)
(* a donor at most once for the same recipient, and all the requests of a  *)
(* round together leave donors above the average and recipients below it.  *)
(***************************************************************************)
EXTENDS BalanceLoad, Numbers, TLAPS

Distributing == phase \in {"recipient", "donor", "give"}
Matching == phase \in {"donor", "give"}

\* The heaps are filled by the second loop only and in the order of the ids.
HeapsInv ==
    /\ ~Distributing => asked = Nothing
    /\ phase \in {"sleep", "sum"} => donors = {} /\ recipients = {}
    /\ phase = "sort" => \A s \in donors \cup recipients : s < next
    /\ \A d \in donors : seen[d] > average /\ rest[d] >= average
    /\ \A r \in recipients : seen[r] < average

\* The recipient in hand lacks tasks, the donor in hand is in its heap.
MatchInv ==
    /\ Matching =>
         /\ seen[recipient] < average
         /\ recipient \notin recipients
         /\ acceptable <= MaxTasksToSteal
    /\ phase = "give" => donor \in donors /\ acceptable > 0

\* A donor was asked for recipients that left the heap only; if the recipient
\* in hand still lacks tasks, that donor has nothing to spare any more.
OnceInv ==
    \A d, r \in Sched : asked[d][r] > 0 =>
        /\ r \notin recipients
        /\ Matching /\ r = recipient /\ acceptable > 0 => rest[d] = average

Inv == TypeOK /\ HeapsInv /\ MatchInv /\ OnceInv

LEMMA NothingIsAsked ==
    /\ Nothing \in [Sched -> [Sched -> Nat]]
    /\ \A d, r \in Sched : Nothing[d][r] = 0
    /\ Zero \in [Sched -> 0 .. LaneRoom] /\ Zero \in [Sched -> Counts]
    /\ 0 \in Sched
  BY SizesAssumption DEF Nothing, Zero, Sched, Counts

LEMMA InitInv == Init => Inv
  <1> SUFFICES ASSUME Init PROVE Inv
    OBVIOUS
  <1>1. TypeOK
    <2>1. [s \in Sched |-> TRUE] \in [Sched -> BOOLEAN]
      OBVIOUS
    <2> QED
      BY <2>1, NothingIsAsked DEF Init, TypeOK
  <1>2. HeapsInv /\ MatchInv
    BY DEF Init, HeapsInv, MatchInv, Distributing, Matching
  <1>3. OnceInv
    BY NothingIsAsked DEF Init, OnceInv
  <1> QED
    BY <1>1, <1>2, <1>3 DEF Inv

\* What NextScheduler does to the index.
LEMMA NextIndex ==
    ASSUME next \in Sched, NEW here, NEW after, NextScheduler(here, after)
    PROVE  /\ next' \in Sched
           /\ (phase' = here /\ next' = next + 1) \/ (phase' = after /\ next' = 0)
  <1>1. next + 1 < N => next + 1 \in Sched
    BY SizesAssumption DEF Sched
  <1>2. 0 \in Sched
    BY NothingIsAsked
  <1>3. CASE next + 1 < N
    BY <1>1, <1>3 DEF NextScheduler
  <1>4. CASE ~(next + 1 < N)
    BY <1>2, <1>4 DEF NextScheduler
  <1> QED
    BY <1>3, <1>4

LEMMA SumCountInv == ASSUME Inv, NEW c \in Counts, SumCount(c) PROVE Inv'
  <1>1. /\ phase = "sum" /\ phase' \in {"sum", "sort"} /\ next' \in Sched
        /\ donors = {} /\ recipients = {} /\ asked = Nothing
    BY NextIndex DEF Inv, TypeOK, HeapsInv, Distributing, SumCount, In
  <1>2. total' \in Nat /\ average' \in Nat
    <2>1. c \in Nat /\ total \in Nat /\ N \in Nat \ {0} /\ average \in Nat
      BY SizesAssumption DEF Counts, Inv, TypeOK
    <2>2. (total + c + N - 1) \div N \in Nat
      <3>1. total + c + N - 1 \in Nat
        BY <2>1
      <3> QED
        BY <2>1, <3>1
    <2> QED
      BY <2>1, <2>2 DEF SumCount
  <1>3. TypeOK'
    BY <1>1, <1>2 DEF Inv, TypeOK, SumCount, threads, heaps, locals
  <1>4. HeapsInv' /\ MatchInv'
    BY <1>1 DEF SumCount, heaps, HeapsInv, MatchInv, Distributing, Matching
  <1>5. OnceInv'
    BY <1>1, NothingIsAsked DEF SumCount, OnceInv
  <1> QED
    BY <1>3, <1>4, <1>5 DEF Inv

LEMMA SortCountInv == ASSUME Inv, NEW c \in Counts, SortCount(c) PROVE Inv'
  <1>1. /\ phase = "sort" /\ next \in Sched /\ next' \in Sched /\ asked = Nothing
        /\ \/ phase' = "sort" /\ next' = next + 1
           \/ phase' = "recipient" /\ next' = 0
    BY NextIndex DEF Inv, TypeOK, HeapsInv, Distributing, SortCount, In
  <1>2. /\ seen \in [Sched -> Counts] /\ seen' = [seen EXCEPT ![next] = c]
        /\ rest \in [Sched -> Counts] /\ rest' = [rest EXCEPT ![next] = c]
        /\ donors \subseteq Sched /\ recipients \subseteq Sched
        /\ average \in Nat /\ average' = average /\ asked' = asked
    BY DEF Inv, TypeOK, SortCount
  <1>3. TypeOK'
    BY <1>1, <1>2 DEF Inv, TypeOK, SortCount, threads, locals
  <1>4. \A s \in donors \cup recipients : s < next
    BY <1>1 DEF Inv, HeapsInv
  <1>5. \A s \in Sched : s < next => seen'[s] = seen[s] /\ rest'[s] = rest[s]
    BY <1>1, <1>2 DEF Sched
  <1>6. seen'[next] = c /\ rest'[next] = c
    BY <1>1, <1>2
  <1>7. /\ donors' = IF c > average THEN donors \cup {next} ELSE donors
        /\ recipients' = IF c < average THEN recipients \cup {next} ELSE recipients
    BY DEF SortCount
  <1>8. HeapsInv'
    <2>1. \A d \in donors' : seen'[d] > average /\ rest'[d] >= average
      <3>1. \A d \in donors : seen'[d] > average /\ rest'[d] >= average
        BY <1>2, <1>4, <1>5 DEF Inv, HeapsInv
      <3>2. c > average => seen'[next] > average /\ rest'[next] >= average
        BY <1>2, <1>6 DEF Counts
      <3> QED
        BY <1>7, <3>1, <3>2
    <2>2. \A r \in recipients' : seen'[r] < average
      <3>1. \A r \in recipients : seen'[r] < average
        BY <1>2, <1>4, <1>5 DEF Inv, HeapsInv
      <3> QED
        BY <1>6, <1>7, <3>1
    <2>3. phase' = "sort" => \A s \in donors' \cup recipients' : s < next'
      BY <1>1, <1>2, <1>4, <1>7 DEF Sched
    <2> QED
      BY <1>1, <1>2, <2>1, <2>2, <2>3 DEF HeapsInv, Distributing
  <1>9. MatchInv' /\ OnceInv'
    BY <1>1, <1>2, NothingIsAsked DEF MatchInv, OnceInv, Matching
  <1> QED
    BY <1>3, <1>8, <1>9 DEF Inv

LEMMA TakeRecipientInv == ASSUME Inv, NEW r \in Sched, TakeRecipient(r) PROVE Inv'
  <1>1. /\ phase = "recipient" /\ phase' = "donor" /\ r \in recipients
        /\ recipients' = recipients \ {r} /\ recipient' = r
        /\ acceptable' = Lesser(MaxTasksToSteal, average - seen[r])
        /\ seen[r] < average
    BY DEF TakeRecipient, In, Inv, HeapsInv
  <1>2. acceptable' \in Nat /\ acceptable' <= MaxTasksToSteal
    <2>1. seen[r] \in Nat /\ average \in Nat /\ MaxTasksToSteal \in Nat
      BY SizesAssumption DEF Inv, TypeOK, Counts
    <2> QED
      BY <1>1, <2>1 DEF Lesser
  <1>3. TypeOK'
    BY <1>1, <1>2 DEF Inv, TypeOK, TakeRecipient, threads, sums
  <1>4. HeapsInv' /\ MatchInv'
    BY <1>1, <1>2 DEF Inv, HeapsInv, MatchInv, Distributing, Matching, TakeRecipient, sums
  <1>5. OnceInv'
    BY <1>1 DEF Inv, OnceInv, TakeRecipient
  <1> QED
    BY <1>3, <1>4, <1>5 DEF Inv

LEMMA RoundDoneInv == ASSUME Inv, RoundDone PROVE Inv'
  <1>1. TypeOK'
    BY NothingIsAsked DEF Inv, TypeOK, RoundDone, threads
  <1>2. HeapsInv' /\ MatchInv'
    BY DEF RoundDone, HeapsInv, MatchInv, Distributing, Matching
  <1>3. OnceInv'
    BY NothingIsAsked DEF RoundDone, OnceInv
  <1> QED
    BY <1>1, <1>2, <1>3 DEF Inv

LEMMA DropDonorInv == ASSUME Inv, NEW d \in Sched, DropDonor(d) PROVE Inv'
  <1>1. TypeOK'
    BY DEF Inv, TypeOK, DropDonor, threads, sums
  <1>2. HeapsInv' /\ MatchInv' /\ OnceInv'
    BY DEF Inv, HeapsInv, MatchInv, OnceInv, Distributing, Matching, DropDonor, In, sums
  <1> QED
    BY <1>1, <1>2 DEF Inv

LEMMA TakeDonorInv == ASSUME Inv, NEW d \in Sched, TakeDonor(d) PROVE Inv'
  <1>1. TypeOK'
    BY DEF Inv, TypeOK, TakeDonor, threads, sums, heaps
  <1>2. HeapsInv' /\ MatchInv' /\ OnceInv'
    BY DEF Inv, HeapsInv, MatchInv, OnceInv, Distributing, Matching, TakeDonor, In,
           IsTop, sums, heaps
  <1> QED
    BY <1>1, <1>2 DEF Inv

\* A request asks for at least one task, for no more than the recipient may
\* get and for no more than the donor has above the average.
LEMMA CurrentBounds ==
    ASSUME Inv, phase = "give", Current > 0
    PROVE  /\ Current \in 1 .. MaxTasksToSteal
           /\ Current <= acceptable
           /\ Current <= rest[donor] - average
           /\ Current = acceptable \/ Current = rest[donor] - average
           /\ donor # recipient
  <1>1. /\ acceptable \in Nat /\ acceptable <= MaxTasksToSteal /\ average \in Nat
        /\ rest[donor] \in Int /\ seen[donor] \in Int /\ seen[recipient] \in Int
        /\ MaxTasksToSteal \in Nat
    BY SizesAssumption DEF Inv, TypeOK, MatchInv, Matching, Counts
  <1>2. seen[donor] > average /\ seen[recipient] < average
    BY DEF Inv, HeapsInv, MatchInv, Matching
  <1>3. donor # recipient
    BY <1>1, <1>2
  <1> QED
    BY <1>1, <1>3 DEF Current, Lesser

LEMMA GiveInv == ASSUME Inv, Give PROVE Inv'
  <1> DEFINE n == Current
  <1>1. /\ phase = "give" /\ phase' = "donor" /\ donor \in donors /\ donor \in Sched
        /\ recipient \in Sched
        /\ n \in 1 .. MaxTasksToSteal /\ n <= acceptable /\ n <= rest[donor] - average
        /\ n = acceptable \/ n = rest[donor] - average
    BY CurrentBounds DEF Give, In, Inv, TypeOK, MatchInv
  <1>2. /\ asked' = [asked EXCEPT ![donor][recipient] = @ + n]
        /\ acceptable' = acceptable - n
        /\ rest' = [rest EXCEPT ![donor] = @ - n]
        /\ donated' = donated + n
        /\ waiting' = [waiting EXCEPT ![donor] = @ + 1]
        /\ waiting[donor] < LaneRoom
    BY DEF Give
  <1> HIDE DEF n
  <1>3. /\ rest \in [Sched -> Counts] /\ average \in Nat /\ acceptable \in Nat
        /\ asked \in [Sched -> [Sched -> Nat]] /\ donated \in Nat /\ n \in Nat
        /\ waiting \in [Sched -> 0 .. LaneRoom] /\ LaneRoom \in Nat /\ MaxCount \in Nat
    BY <1>1, SizesAssumption DEF Inv, TypeOK
  <1>4. /\ rest'[donor] = rest[donor] - n
        /\ \A s \in Sched \ {donor} : rest'[s] = rest[s]
        /\ rest[donor] \in 0 .. MaxCount
    BY <1>1, <1>2, <1>3 DEF Counts
  <1>5. rest' \in [Sched -> Counts]
    <2>1. rest[donor] - n \in Counts
      BY <1>1, <1>3, <1>4 DEF Counts
    <2> QED
      BY <1>2, <1>3, <2>1
  <1>6. TypeOK'
    <2>1. waiting' \in [Sched -> 0 .. LaneRoom]
      <3>1. waiting[donor] + 1 \in 0 .. LaneRoom
        BY <1>1, <1>2, <1>3
      <3> QED
        BY <1>2, <1>3, <3>1
    <2>2. asked' \in [Sched -> [Sched -> Nat]]
      <3>1. asked[donor][recipient] + n \in Nat
        BY <1>1, <1>3
      <3> QED
        BY <1>2, <1>3, <3>1
    <2>3. acceptable' \in Nat /\ donated' \in Nat
      BY <1>1, <1>2, <1>3
    <2> QED
      BY <1>1, <1>5, <2>1, <2>2, <2>3 DEF Inv, TypeOK, Give, threads, sums
  <1>7. HeapsInv'
    <2>1. \A d \in donors : seen[d] > average /\ rest'[d] >= average
      BY <1>1, <1>3, <1>4 DEF Inv, HeapsInv, TypeOK
    <2> QED
      BY <1>1, <2>1 DEF Inv, HeapsInv, Distributing, Give, sums
  <1>8. MatchInv'
    BY <1>1, <1>2, <1>3, SizesAssumption DEF Inv, MatchInv, Matching, Give, sums
  <1>9. OnceInv'
    <2>1. ASSUME NEW d \in Sched, NEW r \in Sched, asked'[d][r] > 0
          PROVE  r \notin recipients /\ (r = recipient /\ acceptable' > 0 => rest'[d] = average)
      <3>1. CASE d = donor /\ r = recipient
        <4>1. recipient \notin recipients
          BY <1>1 DEF Inv, MatchInv, Matching
        <4>2. acceptable' > 0 => n = rest[donor] - average
          BY <1>1, <1>2, <1>3
        <4>3. acceptable' > 0 => rest'[donor] = average
          BY <1>3, <1>4, <4>2
        <4> QED
          BY <3>1, <4>1, <4>3
      <3>2. CASE ~(d = donor /\ r = recipient)
        <4>1. asked'[d][r] = asked[d][r]
          BY <1>2, <1>3, <3>2
        <4>2. /\ r \notin recipients
              /\ r = recipient /\ acceptable > 0 => rest[d] = average
          BY <1>1, <2>1, <4>1 DEF Inv, OnceInv, Matching
        <4>3. acceptable' > 0 => acceptable > 0
          BY <1>2, <1>3
        <4>4. r = recipient => d # donor
          BY <3>2
        <4> QED
          BY <1>4, <4>2, <4>3, <4>4
      <3> QED
        BY <3>1, <3>2
    <2>2. recipients' = recipients /\ recipient' = recipient /\ average' = average
      BY DEF Give, sums
    <2> QED
      BY <2>1, <2>2 DEF OnceInv
  <1> QED
    BY <1>6, <1>7, <1>8, <1>9 DEF Inv

LEMMA StepInv == Inv /\ [Next]_vars => Inv'
  <1> SUFFICES ASSUME Inv, [Next]_vars PROVE Inv'
    OBVIOUS
  <1>1. CASE WakeUp
    <2>1. TypeOK'
      BY <1>1 DEF Inv, TypeOK, WakeUp, threads, sums, heaps, locals
    <2> QED
      BY <1>1, <2>1 DEF Inv, HeapsInv, MatchInv, OnceInv, Distributing, Matching, WakeUp,
                        In, sums, heaps, locals
  <1>2. ASSUME NEW c \in Counts, SumCount(c) PROVE Inv'
    BY <1>2, SumCountInv
  <1>3. ASSUME NEW c \in Counts, SortCount(c) PROVE Inv'
    BY <1>3, SortCountInv
  <1>4. ASSUME NEW r \in Sched, TakeRecipient(r) PROVE Inv'
    BY <1>4, TakeRecipientInv
  <1>5. CASE RoundDone
    BY <1>5, RoundDoneInv
  <1>6. CASE RecipientDone \/ GiveNothing
    <2>1. TypeOK'
      BY <1>6 DEF Inv, TypeOK, RecipientDone, GiveNothing, threads, sums, heaps, locals
    <2>2. phase \in {"donor", "give"} /\ phase' \in {"recipient", "donor"}
      BY <1>6 DEF RecipientDone, GiveNothing, In
    <2>3. phase' = "donor" => phase = "give"
      BY <1>6 DEF RecipientDone, GiveNothing, In
    <2>4. UNCHANGED <<sums, heaps, locals, asked>>
      BY <1>6 DEF RecipientDone, GiveNothing
    <2> QED
      BY <2>1, <2>2, <2>3, <2>4
         DEF Inv, HeapsInv, MatchInv, OnceInv, Distributing, Matching, sums, heaps, locals
  <1>7. ASSUME NEW d \in Sched, DropDonor(d) PROVE Inv'
    BY <1>7, DropDonorInv
  <1>8. ASSUME NEW d \in Sched, TakeDonor(d) PROVE Inv'
    BY <1>8, TakeDonorInv
  <1>9. CASE Give
    BY <1>9, GiveInv
  <1>10. CASE UNCHANGED <<phase, sums, heaps, locals, asked>> /\ TypeOK'
    BY <1>10 DEF Inv, HeapsInv, MatchInv, OnceInv, Distributing, Matching, sums, heaps,
                 locals
  <1>11. CASE EnqueAssertFails
    BY <1>10, <1>11 DEF Inv, TypeOK, EnqueAssertFails, threads, sums, heaps, locals
  <1>12. ASSUME NEW s \in Sched, Serve(s) PROVE Inv'
    <2>1. waiting' \in [Sched -> 0 .. LaneRoom]
      BY <1>12, SizesAssumption DEF Inv, TypeOK, Serve
    <2> QED
      BY <1>10, <1>12, <2>1 DEF Inv, TypeOK, Serve, threads, sums, heaps, locals
  <1>13. ASSUME NEW s \in Sched, NEW c \in Counts, Dies(s, c) PROVE Inv'
    BY <1>10, <1>13 DEF Inv, TypeOK, Dies, threads, sums, heaps, locals
  <1>14. CASE UNCHANGED vars
    BY <1>10, <1>14 DEF Inv, TypeOK, vars, threads, sums, heaps, locals
  <1> QED
    BY <1>1, <1>2, <1>3, <1>4, <1>5, <1>6, <1>7, <1>8, <1>9, <1>11, <1>12, <1>13, <1>14
       DEF Next, Daemon

LEMMA Invariant == Spec => []Inv
  BY InitInv, StepInv, PTL DEF Spec

\* Every variable of the daemon keeps its type; in particular what a recipient
\* may still get and what a donor still has never become negative.
THEOREM Typing == Spec => []TypeOK
  <1>1. Inv => TypeOK
    BY DEF Inv
  <1> QED
    BY <1>1, Invariant, PTL

\* asked and waiting change in Give, Serve and at the end of a round only.
LEMMA OthersAskNothing ==
    ASSUME Inv, [Next]_vars
    PROVE  \/ Give
           \/ /\ asked' = asked \/ asked' = Nothing
              /\ \A d \in Sched : waiting'[d] <= waiting[d]
  <1>1. waiting \in [Sched -> 0 .. LaneRoom]
    BY DEF Inv, TypeOK
  <1>2. ASSUME NEW s \in Sched, Serve(s)
        PROVE  asked' = asked /\ \A d \in Sched : waiting'[d] <= waiting[d]
    BY <1>1, <1>2 DEF Serve
  <1>3. CASE waiting' = waiting /\ (asked' = asked \/ asked' = Nothing)
    BY <1>1, <1>3
  <1> QED
    BY <1>2, <1>3 DEF Next, Daemon, WakeUp, SumCount, SortCount, TakeRecipient, RoundDone,
       RecipientDone, DropDonor, TakeDonor, GiveNothing, EnqueAssertFails, Dies, vars

\* The daemon never puts any other request in a lane than module WorkStealing
\* allows it to (coordinator.cc:99-103).
THEOREM DaemonRequestsAreSound == Spec => RequestsAreSound
  <1> DEFINE Sound == \A d \in Sched : waiting'[d] > waiting[d] =>
                 \E r \in Sched \ {d} : asked'[d][r] - asked[d][r] \in 1 .. MaxTasksToSteal
  <1>1. Inv /\ [Next]_vars => [Sound]_vars
    <2> SUFFICES ASSUME Inv, [Next]_vars PROVE Sound
      OBVIOUS
    <2>1. waiting \in [Sched -> 0 .. LaneRoom] /\ asked \in [Sched -> [Sched -> Nat]]
      BY DEF Inv, TypeOK
    <2>2. CASE Give
      <3>1. /\ donor \in Sched /\ recipient \in Sched /\ donor # recipient
            /\ Current \in 1 .. MaxTasksToSteal
        BY <2>2, CurrentBounds DEF Give, In, Inv, TypeOK
      <3>2. PICK n \in 1 .. MaxTasksToSteal : n = Current
        BY <3>1
      <3>3. /\ asked' = [asked EXCEPT ![donor][recipient] = @ + n]
            /\ waiting' = [waiting EXCEPT ![donor] = @ + 1]
        BY <2>2, <3>2 DEF Give
      <3>4. asked'[donor][recipient] = asked[donor][recipient] + n
        BY <2>1, <3>1, <3>3
      <3>5. asked'[donor][recipient] - asked[donor][recipient] \in 1 .. MaxTasksToSteal
        BY <2>1, <3>1, <3>4
      <3>6. \A d \in Sched : waiting'[d] > waiting[d] => d = donor
        BY <2>1, <3>3
      <3> QED
        BY <3>1, <3>5, <3>6
    <2>3. CASE \A d \in Sched : waiting'[d] <= waiting[d]
      <3>1. waiting' \in [Sched -> 0 .. LaneRoom]
        BY StepInv DEF Inv, TypeOK
      <3>2. \A d \in Sched : ~(waiting'[d] > waiting[d])
        BY <2>1, <2>3, <3>1, SizesAssumption
      <3> QED
        BY <3>2
    <2> QED
      BY <2>2, <2>3, OthersAskNothing
  <1> QED
    BY <1>1, Invariant, PTL DEF Spec, RequestsAreSound

\* In one round no donor is asked twice for the same recipient, so that the
\* round puts at most N - 1 requests in its lane (coordinator.cc:91-108).
THEOREM EachPairIsAskedOnce == Spec => AskedOncePerPair
  <1> DEFINE Once == \A d, r \in Sched : asked[d][r] > 0 => asked'[d][r] \in {0, asked[d][r]}
  <1>1. Inv /\ [Next]_vars => [Once]_vars
    <2> SUFFICES ASSUME Inv, [Next]_vars, NEW d \in Sched, NEW r \in Sched, asked[d][r] > 0
                 PROVE  asked'[d][r] \in {0, asked[d][r]}
      OBVIOUS
    <2>1. CASE Give
      <3>1. /\ asked \in [Sched -> [Sched -> Nat]] /\ donor \in Sched /\ recipient \in Sched
            /\ rest[donor] \in Int /\ average \in Nat /\ acceptable \in Nat
        BY DEF Inv, TypeOK, Counts
      <3>2. phase = "give" /\ Current > 0 /\ acceptable > 0
        BY <2>1 DEF Give, In, Inv, MatchInv
      <3>3. Current <= rest[donor] - average /\ Current \in Int
        BY <3>2, CurrentBounds, SizesAssumption
      <3>4. rest[donor] # average
        BY <3>1, <3>2, <3>3
      <3>5. ~(d = donor /\ r = recipient)
        BY <3>2, <3>4 DEF Inv, OnceInv, Matching
      <3>6. PICK n : asked' = [asked EXCEPT ![donor][recipient] = n]
        BY <2>1 DEF Give
      <3> QED
        BY <3>1, <3>5, <3>6
    <2>2. CASE asked' = asked \/ asked' = Nothing
      BY <2>2, NothingIsAsked
    <2> QED
      BY <2>1, <2>2, OthersAskNothing
  <1> QED
    BY <1>1, Invariant, PTL DEF Spec, AskedOncePerPair

------------------------------------------------------------------------------
(* Donors and recipients.                                                   *)

\* The counts of donors that are left, and what a recipient may get, always add
\* up with what was asked to what they were at first.
RolesInv ==
    /\ \A s \in Sched :
           /\ rest[s] + AskedOf(s) = seen[s]
           /\ AskedOf(s) > 0 => rest[s] >= average
           /\ AskedFor(s) > 0 => seen[s] + AskedFor(s) <= average
           /\ AskedFor(s) <= MaxTasksToSteal
           /\ s \in recipients => AskedFor(s) = 0
    /\ Matching =>
           /\ AskedFor(recipient) + acceptable <= MaxTasksToSteal
           /\ seen[recipient] + AskedFor(recipient) + acceptable <= average

LEMMA SumOverSched ==
    ASSUME NEW f \in [Sched -> Int]
    PROVE  SumOf(f) = SumTo(f, N) /\ SumOf(f) \in Int
  <1>1. f \in [0 .. N - 1 -> Int] /\ N \in Nat
    BY SizesAssumption DEF Sched
  <1> QED
    BY <1>1, SumType DEF SumOf, SumTo

LEMMA OneMoreAsked ==
    ASSUME NEW f \in [Sched -> Int], NEW h \in [Sched -> Int], NEW k \in Sched, NEW n \in Int,
           h[k] = f[k] + n, \A i \in Sched \ {k} : h[i] = f[i]
    PROVE  SumOf(h) = SumOf(f) + n
  <1>1. f \in [0 .. N - 1 -> Int] /\ h \in [0 .. N - 1 -> Int] /\ N \in Nat /\ k \in 0 .. N - 1
    BY SizesAssumption DEF Sched
  <1>2. \A i \in (0 .. N - 1) \ {k} : h[i] = f[i]
    BY DEF Sched
  <1>3. SumTo(h, N) = SumTo(f, N) + n
    BY <1>1, <1>2, SumOfChanged
  <1> QED
    BY <1>3, SumOverSched

LEMMA NoneAsked ==
    ASSUME NEW f \in [Sched -> Int], \A i \in Sched : f[i] = 0
    PROVE  SumOf(f) = 0
  <1>1. f \in [0 .. N - 1 -> Int] /\ N \in Nat /\ \A i \in 0 .. N - 1 : f[i] = 0
    BY SizesAssumption DEF Sched
  <1> QED
    BY <1>1, SumOfZeros, SumOverSched

LEMMA AskedTypes ==
    ASSUME NEW h \in [Sched -> [Sched -> Nat]], NEW s \in Sched
    PROVE  /\ h[s] \in [Sched -> Int] /\ [d \in Sched |-> h[d][s]] \in [Sched -> Int]
           /\ SumOf(h[s]) \in Int /\ SumOf([d \in Sched |-> h[d][s]]) \in Int
  <1>1. /\ h[s] \in [Sched -> Int] /\ [d \in Sched |-> h[d][s]] \in [Sched -> Int]
    OBVIOUS
  <1> QED
    BY <1>1, SumOverSched

LEMMA NothingSums ==
    ASSUME NEW s \in Sched
    PROVE  SumOf(Nothing[s]) = 0 /\ SumOf([d \in Sched |-> Nothing[d][s]]) = 0
  <1> DEFINE f == [d \in Sched |-> Nothing[d][s]]
  <1>1. Nothing[s] \in [Sched -> Int] /\ \A i \in Sched : Nothing[s][i] = 0
    BY DEF Nothing, Zero
  <1>2. f \in [Sched -> Int] /\ \A i \in Sched : f[i] = 0
    BY DEF Nothing, Zero
  <1> HIDE DEF f
  <1>3. SumOf(f) = 0
    BY <1>2, NoneAsked
  <1> QED
    BY <1>1, <1>3, NoneAsked DEF f

\* Asking d for n more tasks for r turns what was asked from q into h.
Asks(q, h, d, r, n) == h = [q EXCEPT ![d][r] = @ + n]

\* ... so that n more are asked of d, and n more for r.
AddsUp(q, h, d, r, n) ==
    /\ SumOf(h[d]) = SumOf(q[d]) + n
    /\ \A s \in Sched \ {d} : SumOf(h[s]) = SumOf(q[s])
    /\ SumOf([x \in Sched |-> h[x][r]]) = SumOf([x \in Sched |-> q[x][r]]) + n
    /\ \A s \in Sched \ {r} : SumOf([x \in Sched |-> h[x][s]]) = SumOf([x \in Sched |-> q[x][s]])

LEMMA AskingAdds ==
    ASSUME NEW q \in [Sched -> [Sched -> Nat]], NEW h, NEW d \in Sched, NEW r \in Sched,
           NEW n \in Nat, Asks(q, h, d, r, n)
    PROVE  AddsUp(q, h, d, r, n)
  <1>1. /\ h \in [Sched -> [Sched -> Nat]] /\ h[d][r] = q[d][r] + n
        /\ \A x, y \in Sched : x # d \/ y # r => h[x][y] = q[x][y]
    <2>1. q[d][r] + n \in Nat
      OBVIOUS
    <2> QED
      BY <2>1 DEF Asks
  <1>2. SumOf(h[d]) = SumOf(q[d]) + n
    <2> DEFINE a == q[d]
               b == h[d]
    <2>1. /\ a \in [Sched -> Int] /\ b \in [Sched -> Int] /\ b[r] = a[r] + n /\ n \in Int
          /\ \A y \in Sched \ {r} : b[y] = a[y]
      BY <1>1, AskedTypes
    <2> HIDE DEF a, b
    <2>2. SumOf(b) = SumOf(a) + n
      BY <2>1, OneMoreAsked
    <2> QED
      BY <2>2 DEF a, b
  <1>3. ASSUME NEW s \in Sched \ {d} PROVE SumOf(h[s]) = SumOf(q[s])
    <2>1. h[s] = q[s]
      BY <1>1
    <2> QED
      BY <2>1
  <1>4. SumOf([x \in Sched |-> h[x][r]]) = SumOf([x \in Sched |-> q[x][r]]) + n
    <2> DEFINE a == [x \in Sched |-> q[x][r]]
               b == [x \in Sched |-> h[x][r]]
    <2>1. /\ a \in [Sched -> Int] /\ b \in [Sched -> Int] /\ b[d] = a[d] + n /\ n \in Int
          /\ \A y \in Sched \ {d} : b[y] = a[y]
      BY <1>1
    <2> HIDE DEF a, b
    <2>2. SumOf(b) = SumOf(a) + n
      BY <2>1, OneMoreAsked
    <2> QED
      BY <2>2 DEF a, b
  <1>5. ASSUME NEW s \in Sched \ {r}
        PROVE  SumOf([x \in Sched |-> h[x][s]]) = SumOf([x \in Sched |-> q[x][s]])
    <2>1. [x \in Sched |-> h[x][s]] = [x \in Sched |-> q[x][s]]
      BY <1>1
    <2> QED
      BY <2>1
  <1> QED
    BY <1>2, <1>3, <1>4, <1>5 DEF AddsUp

\* Before the daemon distributes, and once it has, nothing is asked.
LEMMA NothingAskedRoles ==
    ASSUME Inv', asked' = Nothing, ~Matching', \A s \in Sched : rest'[s] = seen'[s]
    PROVE  RolesInv'
  <1>1. ASSUME NEW s \in Sched PROVE AskedOf(s)' = 0 /\ AskedFor(s)' = 0
    BY NothingSums DEF AskedOf, AskedFor
  <1>2. ASSUME NEW s \in Sched PROVE rest'[s] \in Int /\ MaxTasksToSteal \in Nat
    BY SizesAssumption DEF Inv, TypeOK, Counts
  <1> QED
    BY <1>1, <1>2 DEF RolesInv

\* Nothing is asked, and the recipient in hand is the same or none.
LEMMA SameRoles ==
    ASSUME RolesInv, UNCHANGED <<asked, rest, seen, average>>, recipients' \subseteq recipients,
           Matching' => Matching /\ UNCHANGED <<recipient, acceptable>>
    PROVE  RolesInv'
  <1>1. ASSUME NEW s \in Sched PROVE AskedOf(s)' = AskedOf(s) /\ AskedFor(s)' = AskedFor(s)
    BY DEF AskedOf, AskedFor
  <1>2. Matching' => AskedFor(recipient)' = AskedFor(recipient)
    BY DEF AskedFor
  <1> QED
    BY <1>1, <1>2 DEF RolesInv

LEMMA TakeRecipientRoles ==
    ASSUME Inv, RolesInv, NEW r \in Sched, TakeRecipient(r)
    PROVE  RolesInv'
  <1>1. /\ r \in recipients /\ recipients' = recipients \ {r} /\ recipient' = r
        /\ acceptable' = Lesser(MaxTasksToSteal, average - seen[r])
        /\ UNCHANGED <<asked, rest, seen, average>>
        /\ seen[r] \in Int /\ average \in Int /\ MaxTasksToSteal \in Int
    BY SizesAssumption DEF TakeRecipient, sums, Inv, TypeOK, Counts
  <1>2. AskedFor(r) = 0
    BY <1>1 DEF RolesInv
  <1>3. acceptable' \in Int /\ acceptable' <= MaxTasksToSteal /\ seen[r] + acceptable' <= average
    BY <1>1 DEF Lesser
  <1>4. ASSUME NEW s \in Sched PROVE AskedOf(s)' = AskedOf(s) /\ AskedFor(s)' = AskedFor(s)
    BY <1>1 DEF AskedOf, AskedFor
  <1>5. AskedFor(recipient)' = 0
    BY <1>1, <1>2 DEF AskedFor
  <1>6. /\ (AskedFor(recipient) + acceptable <= MaxTasksToSteal)'
        /\ (seen[recipient] + AskedFor(recipient) + acceptable <= average)'
    BY <1>1, <1>3, <1>5
  <1> QED
    BY <1>1, <1>4, <1>6 DEF RolesInv

LEMMA GiveRoles ==
    ASSUME Inv, RolesInv, Give
    PROVE  RolesInv'
  <1>a. PICK d \in Sched : d = donor
    BY DEF Inv, TypeOK
  <1>b. PICK r \in Sched : r = recipient
    BY DEF Inv, TypeOK
  <1>1. phase = "give" /\ Current > 0 /\ Matching
    BY DEF Give, In, Matching
  <1>c. PICK n \in 1 .. MaxTasksToSteal : n = Current
    BY <1>1, CurrentBounds
  <1>2. n <= acceptable /\ n <= rest[d] - average /\ n \in Nat
    BY <1>1, <1>a, <1>c, CurrentBounds, SizesAssumption
  <1>3. /\ asked' = [asked EXCEPT ![d][r] = @ + n] /\ rest' = [rest EXCEPT ![d] = @ - n]
        /\ acceptable' = acceptable - n
        /\ UNCHANGED <<seen, average, recipients, recipient>>
    BY <1>a, <1>b, <1>c DEF Give, sums
  <1>4. /\ asked \in [Sched -> [Sched -> Nat]] /\ rest \in [Sched -> Counts]
        /\ seen \in [Sched -> Counts] /\ average \in Int /\ acceptable \in Int
        /\ MaxTasksToSteal \in Int /\ Counts \subseteq Int
    BY SizesAssumption DEF Inv, TypeOK, Counts
  <1>5. /\ AskedOf(d)' = AskedOf(d) + n
        /\ \A s \in Sched \ {d} : AskedOf(s)' = AskedOf(s)
        /\ AskedFor(r)' = AskedFor(r) + n
        /\ \A s \in Sched \ {r} : AskedFor(s)' = AskedFor(s)
    <2>1. Asks(asked, asked', d, r, n)
      BY <1>3 DEF Asks
    <2>2. AddsUp(asked, asked', d, r, n)
      BY <1>2, <1>4, <2>1, AskingAdds
    <2> QED
      BY <2>2 DEF AddsUp, AskedOf, AskedFor
  <1>6. \A s \in Sched : AskedOf(s) \in Int /\ AskedFor(s) \in Int
    BY <1>4, AskedTypes DEF AskedOf, AskedFor
  <1>7. /\ AskedFor(r) + acceptable <= MaxTasksToSteal
        /\ seen[r] + AskedFor(r) + acceptable <= average
        /\ r \notin recipients
    BY <1>1, <1>b DEF RolesInv, Inv, MatchInv
  <1>8. ASSUME NEW s \in Sched
        PROVE  /\ rest'[s] + AskedOf(s)' = seen[s]
               /\ AskedOf(s)' > 0 => rest'[s] >= average
    <2>1. rest[s] + AskedOf(s) = seen[s] /\ (AskedOf(s) > 0 => rest[s] >= average)
      BY DEF RolesInv
    <2>2. rest[s] \in Int /\ seen[s] \in Int /\ AskedOf(s) \in Int
      BY <1>4, <1>6
    <2>3. CASE s = d
      <3>1. rest'[s] = rest[s] - n
        BY <1>3, <1>4, <2>3
      <3> QED
        BY <1>2, <1>4, <1>5, <2>1, <2>2, <2>3, <3>1
    <2>4. CASE s # d
      <3>1. rest'[s] = rest[s]
        BY <1>3, <1>4, <2>4
      <3> QED
        BY <1>5, <2>1, <2>4, <3>1
    <2> QED
      BY <2>3, <2>4
  <1>9. ASSUME NEW s \in Sched
        PROVE  /\ AskedFor(s)' > 0 => seen[s] + AskedFor(s)' <= average
               /\ AskedFor(s)' <= MaxTasksToSteal
               /\ s \in recipients => AskedFor(s)' = 0
    <2>1. CASE s = r
      <3>1. seen[r] \in Int /\ AskedFor(r) \in Int
        BY <1>4, <1>6
      <3> QED
        BY <1>2, <1>4, <1>5, <1>7, <2>1, <3>1
    <2>2. CASE s # r
      BY <1>5, <2>2 DEF RolesInv
    <2> QED
      BY <2>1, <2>2
  <1>10. /\ AskedFor(r)' + acceptable' <= MaxTasksToSteal
         /\ seen[r] + AskedFor(r)' + acceptable' <= average
    <2>1. seen[r] \in Int /\ AskedFor(r) \in Int
      BY <1>4, <1>6
    <2> QED
      BY <1>2, <1>3, <1>4, <1>5, <1>7, <2>1
  <1>11. AskedFor(recipient)' = AskedFor(r)' /\ seen'[recipient'] = seen[r]
    BY <1>3, <1>b DEF AskedFor
  <1> QED
    BY <1>3, <1>8, <1>9, <1>10, <1>11 DEF RolesInv

LEMMA InitRolesInv == Init => RolesInv
  <1> SUFFICES ASSUME Init PROVE RolesInv
    OBVIOUS
  <1>1. ASSUME NEW s \in Sched PROVE AskedOf(s) = 0 /\ AskedFor(s) = 0
    BY NothingSums DEF Init, AskedOf, AskedFor
  <1>2. ~Matching /\ rest = Zero /\ seen = Zero /\ MaxTasksToSteal \in Nat
    BY SizesAssumption DEF Init, Matching
  <1> QED
    BY <1>1, <1>2 DEF RolesInv, Zero

LEMMA StepRolesInv == Inv /\ RolesInv /\ [Next]_vars => RolesInv'
  <1> SUFFICES ASSUME Inv, RolesInv, [Next]_vars PROVE RolesInv'
    OBVIOUS
  <1>i. Inv'
    BY StepInv
  <1>0. \A s \in Sched : asked = Nothing => rest[s] = seen[s]
    <2> SUFFICES ASSUME NEW s \in Sched, asked = Nothing PROVE rest[s] = seen[s]
      OBVIOUS
    <2>1. AskedOf(s) = 0
      BY NothingSums DEF AskedOf
    <2>2. rest[s] \in Int
      BY DEF Inv, TypeOK, Counts
    <2> QED
      BY <2>1, <2>2 DEF RolesInv
  <1>1. ASSUME NEW c \in Counts, SumCount(c) PROVE RolesInv'
    <2>1. phase = "sum" /\ phase' \in {"sum", "sort"} /\ UNCHANGED <<asked, rest, seen>>
      BY <1>1 DEF SumCount, In, NextScheduler, heaps
    <2>2. asked = Nothing
      BY <2>1 DEF Inv, HeapsInv, Distributing
    <2> QED
      BY <1>0, <1>i, <2>1, <2>2, NothingAskedRoles DEF Matching
  <1>2. ASSUME NEW c \in Counts, SortCount(c) PROVE RolesInv'
    <2>1. /\ phase = "sort" /\ phase' \in {"sort", "recipient"} /\ asked' = asked
          /\ seen' = [seen EXCEPT ![next] = c] /\ rest' = [rest EXCEPT ![next] = c]
      BY <1>2 DEF SortCount, In, NextScheduler
    <2>2. asked = Nothing
      BY <2>1 DEF Inv, HeapsInv, Distributing
    <2>3. \A s \in Sched : rest'[s] = seen'[s]
      <3>1. seen \in [Sched -> Counts] /\ rest \in [Sched -> Counts]
        BY DEF Inv, TypeOK
      <3> QED
        BY <1>0, <2>1, <2>2, <3>1
    <2> QED
      BY <1>i, <2>1, <2>2, <2>3, NothingAskedRoles DEF Matching
  <1>3. CASE RoundDone
    <2>1. asked' = Nothing /\ phase' = "sleep" /\ rest' = Zero /\ seen' = Zero
      BY <1>3 DEF RoundDone
    <2> QED
      BY <1>i, <2>1, NothingAskedRoles DEF Matching
  <1>4. ASSUME NEW r \in Sched, TakeRecipient(r) PROVE RolesInv'
    BY <1>4, TakeRecipientRoles
  <1>5. CASE Give
    BY <1>5, GiveRoles
  <1>6. CASE WakeUp \/ RecipientDone \/ GiveNothing
    BY <1>6, SameRoles
       DEF WakeUp, RecipientDone, GiveNothing, In, Matching, sums, heaps, locals
  <1>7. ASSUME NEW d \in Sched, DropDonor(d) \/ TakeDonor(d) PROVE RolesInv'
    BY <1>7, SameRoles DEF DropDonor, TakeDonor, In, Matching, sums, heaps
  <1>8. CASE UNCHANGED <<phase, sums, heaps, locals, asked>>
    BY <1>8, SameRoles DEF Matching, sums, heaps, locals
  <1> QED
    BY <1>1, <1>2, <1>3, <1>4, <1>5, <1>6, <1>7, <1>8
       DEF Next, Daemon, EnqueAssertFails, Serve, Dies, vars

\* A round never makes a donor of a recipient or the other way round, however
\* many of each it matches, and gives no recipient more than MAX_TASKS_TO_STEAL
\* (coordinator.cc:86-109).
THEOREM RolesAreAlwaysKept == Spec => []RolesAreKept
  <1>1. Inv /\ RolesInv => RolesAreKept
    <2> SUFFICES ASSUME Inv, RolesInv, NEW s \in Sched
                 PROVE  /\ AskedOf(s) > 0 => seen[s] - AskedOf(s) >= average
                        /\ AskedFor(s) > 0 => seen[s] + AskedFor(s) <= average
                        /\ AskedFor(s) <= MaxTasksToSteal
      BY DEF RolesAreKept, Inv
    <2>1. asked \in [Sched -> [Sched -> Nat]] /\ rest[s] \in Int
      BY DEF Inv, TypeOK, Counts
    <2>2. AskedOf(s) \in Int
      BY <2>1, AskedTypes DEF AskedOf
    <2> QED
      BY <2>1, <2>2 DEF RolesInv
  <1>2. Inv /\ RolesInv /\ [Next]_vars => (Inv /\ RolesInv)'
    BY StepInv, StepRolesInv
  <1> QED
    BY <1>1, <1>2, InitInv, InitRolesInv, PTL DEF Spec

==============================================================================
