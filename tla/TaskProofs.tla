------------------------------ MODULE TaskProofs ------------------------------
(***************************************************************************)
(* Proofs about tasks: their accounts and priorities (TaskPriority), their *)
(* history (History), and the chains they form (IoChain).                  *)
(*                                                                         *)
(* TaskPriority, for any widths and ranges in the proportions of           *)
(* WidthsAssumption, any clocks and any number of schedulers: what         *)
(* getPriority computes is in range, the subtraction in SCHED_TICK_TOTAL   *)
(* gives the length of the window, and the account of a chain fits it.     *)
(*                                                                         *)
(* History, for any threshold and events of any length: the sums that are  *)
(* kept beside the events are theirs, the penalty is right whatever the    *)
(* rounding, and the history is the sliding window of SlidingWindow.       *)
(*                                                                         *)
(* IoChain, for any number of chains of any length, any file numbers and   *)
(* any descriptors: what main links is executed in order, each task gets   *)
(* the input it expects, each request is of its own file, and what is      *)
(* written is what was read.                                               *)
(***************************************************************************)
EXTENDS TaskPriority, History, IoChain, Numbers, FiniteSetTheorems

LEMMA Sizes ==
  /\ UllMod \in Nat \ {0} /\ IntMax \in Nat \ {0} /\ Shift \in Nat \ {0}
  /\ Second \in Nat \ {0} /\ PriRange \in Nat \ {0} /\ InteractRange \in Nat \ {0}
  /\ Thresh \in Nat \ {0} /\ MaxNice \in Nat /\ Half \in Nat
BY SizesAssumption, InteractivityAssumption

LEMMA WindowSizes ==
  /\ Targ \in Nat \ {0} /\ TickMax \in Nat /\ Targ < TickMax
  /\ 2 * IntMax <= Targ /\ TickMax < UllMod
<1>1. TickSecs \in Nat \ {0} BY SizesAssumption
<1>2. Second * TickSecs \in Int BY <1>1, Sizes, Distribute
<1> QED BY <1>2, Sizes, WidthsAssumption DEF Targ, TickMax

LEMMA MinusType ==
  ASSUME NEW a \in Int, NEW b \in Int
  PROVE  Minus(a, b) \in Ull
BY Sizes, RemainderLemma DEF Minus, Ull

\* The subtraction wraps around in one direction only.
LEMMA MinusIsExact ==
  ASSUME NEW a \in Int, NEW b \in Int, a - b \in Ull
  PROVE  Minus(a, b) = a - b
BY Sizes, SmallMod DEF Minus, Ull

------------------------------------------------------------------------------
(* getPriority.                                                             *)

\* The use of the processor, in units of the range, fits in an int.
LEMMA PriTicksFit ==
  ASSUME TypeOK
  PROVE  PriTicks \in Nat /\ AsInt(PriTicks) = PriTicks
<1> DEFINE use == ticks \div Shift
           most == (UllMod - 1) \div Shift
           unit == (TickTotal + PriRange - 1) \div PriRange
           least == Second \div PriRange
<1>1. use \in Nat /\ most \in Nat /\ use <= most
  <2>1. ticks \in Nat /\ UllMod - 1 \in Nat /\ ticks <= UllMod - 1
    BY Sizes DEF TypeOK, Ull
  <2> QED BY <2>1, Sizes, DivisionLemma, QuotientAtMost
<1>2. TickTotal \in Nat /\ TickTotal >= Second
  <2>1. Minus(ltick, ftick) \in Nat BY MinusType DEF TypeOK, Ull
  <2> QED BY <2>1, Sizes DEF TickTotal, Larger
<1>3. unit \in Nat /\ least \in Nat /\ least <= unit
  <2>1. TickTotal + PriRange - 1 \in Nat /\ Second <= TickTotal + PriRange - 1
    BY <1>2, Sizes
  <2>2. unit \in Nat BY <2>1, Sizes, DivisionLemma
  <2>3. least \in Nat BY Sizes, DivisionLemma
  <2>4. least <= unit
    <3>1. Second \in Nat /\ PriRange <= PriRange BY Sizes
    <3> QED BY <2>1, <3>1, Sizes, QuotientAtMost
  <2> QED BY <2>2, <2>3, <2>4
<1>4. least \in Nat \ {0}
  <2>1. Second = least * PriRange + (Second % PriRange) /\ Second % PriRange < PriRange
    BY Sizes, DivisionLemma
  <2>2. PriRange <= Second BY WidthsAssumption
  <2>3. least # 0 BY <2>1, <2>2, Sizes
  <2> QED BY <1>3, <2>3
<1>5. most \div least < IntMax BY WidthsAssumption
<1> HIDE DEF use, most, unit, least
<1>6. use \div unit \in Nat /\ use \div unit <= most \div least /\ most \div least \in Nat
  <2>1. unit \in Nat \ {0} BY <1>3, <1>4
  <2> QED BY <1>1, <1>3, <1>4, <2>1, DivisionLemma, QuotientAtMost
<1>7. PriTicks = use \div unit BY DEF PriTicks, use, unit
<1>8. PriTicks \in Nat /\ PriTicks < IntMax BY <1>5, <1>6, <1>7, Sizes
<1>9. PriTicks % (2 * IntMax) = PriTicks BY <1>8, Sizes, SmallMod
<1> QED BY <1>8, <1>9 DEF AsInt

\* Neither class of priorities is left.
LEMMA ComputedInRange ==
  ASSUME TypeOK, NEW penalty \in Nat
  PROVE  /\ InRange(penalty, Computed(penalty))
         /\ Computed(penalty) \in PriMinInteract .. PriMaxBatch
<1> DEFINE score == Larger(0, penalty + niceness)
<1>1. niceness \in Int /\ -MaxNice <= niceness /\ niceness <= MaxNice
  BY Sizes DEF TypeOK, Niceness
<1>2. score \in Nat BY <1>1 DEF Larger
<1>3. CASE IsInteractive(score)
  <2> DEFINE p == (InteractRange * score) \div Thresh
  <2>1. score <= Thresh - 1 /\ Thresh - 1 \in Nat BY <1>2, <1>3, Sizes DEF IsInteractive
  <2>2. InteractRange * score \in Nat /\ InteractRange * score <= InteractRange * (Thresh - 1)
    BY <1>2, <2>1, Sizes, ProductAtMost
  <2>3. InteractRange * (Thresh - 1) < InteractRange * Thresh
    BY Sizes
  <2>4. p < InteractRange /\ p \in Nat
    <3>1. InteractRange * (Thresh - 1) \in Int /\ InteractRange * Thresh \in Int BY Sizes
    <3>2. InteractRange * score < InteractRange * Thresh BY <2>2, <2>3, <3>1
    <3> QED BY <2>2, <3>2, Sizes, QuotientLess, DivisionLemma
  <2>5. Computed(penalty) = PriMinInteract + p BY <1>3 DEF Computed
  <2> HIDE DEF p
  <2>6. PriMinInteract + p \in PriMinInteract .. PriMaxInteract /\ PriMaxInteract <= PriMaxBatch
    BY <2>4, Sizes DEF PriMinInteract, PriMaxInteract, PriMaxBatch, PriMinBatch
  <2> QED BY <1>3, <2>5, <2>6, Sizes
          DEF InRange, PriMinInteract, PriMaxInteract, PriMaxBatch, PriMinBatch
<1>4. CASE ~IsInteractive(score) /\ ticks = 0
  <2>1. Computed(penalty) = SchedPriMin BY <1>4 DEF Computed
  <2>2. SchedPriMin \in PriMinInteract .. PriMaxBatch
    BY Sizes DEF SchedPriMin, PriMinInteract, PriMaxBatch, PriMinBatch
  <2> QED BY <1>4, <2>1, <2>2 DEF InRange
<1>5. CASE ~IsInteractive(score) /\ ticks # 0
  <2>1. Computed(penalty) = SchedPriMin + Lesser(PriTicks, PriRange - 1) + niceness
    BY <1>5, PriTicksFit DEF Computed, UsedBatch
  <2>2. Lesser(PriTicks, PriRange - 1) \in 0 .. PriRange - 1
    BY PriTicksFit, Sizes DEF Lesser
  <2>3. SchedPriMin + Lesser(PriTicks, PriRange - 1) + niceness \in PriMinBatch .. PriMaxBatch
    BY <1>1, <2>2, Sizes DEF SchedPriMin, PriMaxBatch, PriMinBatch
  <2>4. PriMinInteract <= PriMinBatch /\ PriMinBatch \in Int
    BY Sizes DEF PriMinInteract, PriMinBatch
  <2>5. PriMinBatch .. PriMaxBatch \subseteq PriMinInteract .. PriMaxBatch
    BY <2>4 DEF PriMinInteract
  <2> QED BY <1>5, <2>1, <2>3, <2>5 DEF InRange
<1> QED BY <1>3, <1>4, <1>5

------------------------------------------------------------------------------
(* updateCpuUtilization.                                                    *)

\* The time since the last update is cut to an unsigned int.
LEMMA NeverLongIdle ==
  ASSUME NEW t \in Int, ltick \in Int
  PROVE  ~LongIdle(t)
<1>1. Minus(t, ltick) % (2 * IntMax) \in 0 .. 2 * IntMax - 1
  <2>1. Minus(t, ltick) \in Int BY MinusType DEF Ull
  <2>2. 2 * IntMax \in Nat \ {0} BY Sizes
  <2> QED BY <2>1, <2>2, RemainderLemma
<1> QED BY <1>1, Sizes, WindowSizes DEF LongIdle

LEMMA UpdateTypes ==
  ASSUME TypeOK, NEW t \in Ull, NEW ran \in BOOLEAN, Update(t, ran)
  PROVE  ticks' \in Ull /\ ftick' \in Ull /\ ltick' \in Ull
<1>1. ftick' \in Ull /\ ltick' \in Ull
  <2>1. Minus(t, Targ) \in Ull BY MinusType, WindowSizes DEF Ull
  <2> QED BY <2>1 DEF Update, NewFtick, TypeOK
<1>2. Kept(t) \in Int
  <2>1. ~LongIdle(t) BY NeverLongIdle DEF TypeOK, Ull
  <2>2. CASE WindowOver(t)
    <3>1. Minus(ltick, ftick) \in Nat \ {0} 
      <4>1. ltick # ftick BY <2>2 DEF Update, DividesByZero
      <4>2. Minus(ltick, ftick) # 0
        BY <4>1, Sizes DEF Minus, TypeOK, Ull
      <4> QED BY <4>2, MinusType DEF TypeOK, Ull
    <3>2. ticks \div Minus(ltick, ftick) \in Nat BY <3>1, DivisionLemma DEF TypeOK, Ull
    <3>3. Minus(ltick, Minus(t, Targ)) \in Int BY MinusType, WindowSizes DEF TypeOK, Ull
    <3>4. (ticks \div Minus(ltick, ftick)) * Minus(ltick, Minus(t, Targ)) \in Int
      BY <3>2, <3>3, Distribute
    <3> QED BY <2>1, <2>2, <3>4, Sizes, RemainderLemma DEF Kept
  <2>3. CASE ~WindowOver(t) BY <2>1, <2>3 DEF Kept, TypeOK, Ull
  <2> QED BY <2>2, <2>3
<1>3. Minus(t, ltick) * Shift \in Int
  BY MinusType, Sizes, Distribute DEF TypeOK, Ull
<1>4. Kept(t) + (IF ran THEN Minus(t, ltick) * Shift ELSE 0) \in Int
  BY <1>2, <1>3
<1> QED BY <1>1, <1>4, Sizes, RemainderLemma DEF Update, Ull

LEMMA InitTypes == Init => TypeOK
<1> SUFFICES ASSUME Init PROVE TypeOK
  OBVIOUS
<1>1. 0 \in Ull /\ 0 \in 0 .. MaxClock /\ 0 \in Sched
  BY SizesAssumption DEF Ull, Sched
<1>2. PriMinInteract \in PriMinInteract .. PriMaxBatch
  BY Sizes DEF PriMinInteract, PriMaxBatch, PriMinBatch
<1> QED BY <1>1, <1>2 DEF Init, TypeOK

LEMMA NextTypes == TypeOK /\ [Next]_vars => TypeOK'
<1> SUFFICES ASSUME TypeOK, [Next]_vars PROVE TypeOK'
  OBVIOUS
<1>1. PriMinInteract \in PriMinInteract .. PriMaxBatch
  BY Sizes DEF PriMinInteract, PriMaxBatch, PriMinBatch
<1>2. MaxClock \in Nat /\ 0 .. MaxClock \subseteq Ull BY SizesAssumption DEF Ull
<1>3. CASE UNCHANGED vars BY <1>3 DEF vars, accounts, TypeOK
<1>4. ASSUME NEW penalty \in 0 .. 2 * Half, Submit(penalty) PROVE TypeOK'
  <2>1. priority' \in PriMinInteract .. PriMaxBatch
    BY <1>4, Sizes, ComputedInRange DEF Submit
  <2> QED BY <1>4, <2>1 DEF Submit, TypeOK, accounts
<1>5. ASSUME NEW s \in Sched, NEW d \in RunTimes, OtherRuns(s, d) PROVE TypeOK'
  <2>1. d \in Nat BY SizesAssumption
  <2>2. clock[s] + d \in 0 .. MaxClock BY <1>2, <1>5, <2>1 DEF OtherRuns, TypeOK
  <2> QED BY <1>5, <2>2 DEF OtherRuns, TypeOK, accounts
<1>6. ASSUME NEW s \in Sched, Donated(s) PROVE TypeOK'
  BY <1>1, <1>6 DEF Donated, TypeOK, accounts
<1>7. CASE Start
  <2>1. clock[at] \in Ull BY <1>2 DEF TypeOK
  <2>2. ticks' \in Ull /\ ftick' \in Ull /\ ltick' \in Ull
    BY <1>7, <2>1, UpdateTypes DEF Start
  <2> QED BY <1>1, <1>7, <2>2 DEF Start, TypeOK
<1>8. ASSUME NEW d \in RunTimes, NEW n \in Niceness, Finish(d, n) PROVE TypeOK'
  <2>1. d \in Nat BY SizesAssumption
  <2>2. clock[at] + d \in 0 .. MaxClock BY <1>2, <1>8, <2>1 DEF Finish, TypeOK
  <2>3. ticks' \in Ull /\ ftick' \in Ull /\ ltick' \in Ull
    BY <1>2, <1>8, <2>2, UpdateTypes DEF Finish
  <2>4. known' \in BOOLEAN BY <1>8 DEF Finish, TypeOK
  <2> QED BY <1>8, <2>2, <2>3, <2>4 DEF Finish, TypeOK
<1>9. CASE StartCrashes BY <1>9 DEF StartCrashes, TypeOK, accounts
<1>10. ASSUME NEW d \in RunTimes, FinishCrashes(d) PROVE TypeOK'
  BY <1>10 DEF FinishCrashes, TypeOK, accounts
<1> QED BY <1>3, <1>4, <1>5, <1>6, <1>7, <1>8, <1>9, <1>10 DEF Next

\* The accounts, priorities and clocks stay within the widths of the code.
THEOREM Typing == Spec => []TypeOK
BY InitTypes, NextTypes, PTL DEF Spec

\* getPriority never throws, whatever the accounts, penalty and niceness.
THEOREM PrioritiesAreAlwaysInRange == Spec => []PrioritiesAreInRange
<1>1. TypeOK => PrioritiesAreInRange
  <2>1. PenaltiesNow \subseteq Nat BY Sizes DEF PenaltiesNow
  <2> QED BY <2>1, ComputedInRange DEF PrioritiesAreInRange
<1> QED BY <1>1, Typing, PTL

------------------------------------------------------------------------------
(* The window.                                                              *)

\* Every step leaves the accounts alone or brings them up to date by the clock
\* of the scheduler the task is at.
LEMMA StepUpdates ==
  ASSUME TypeOK, [Next]_vars
  PROVE  \/ UNCHANGED accounts
         \/ clock'[at] \in Ull /\ \E ran \in BOOLEAN : Update(clock'[at], ran)
<1>1. 0 .. MaxClock \subseteq Ull BY SizesAssumption DEF Ull
<1>2. clock' \in [Sched -> 0 .. MaxClock] /\ clock'[at] \in Ull
  BY <1>1, NextTypes DEF TypeOK
<1>3. CASE Start BY <1>2, <1>3 DEF Start
<1>4. ASSUME NEW d \in RunTimes, NEW n \in Niceness, Finish(d, n)
      PROVE  \E ran \in BOOLEAN : Update(clock'[at], ran)
  <2>1. clock'[at] = clock[at] + d BY <1>4 DEF Finish, TypeOK
  <2> QED BY <1>4, <2>1 DEF Finish
<1>5. CASE \/ UNCHANGED vars
           \/ \E penalty \in 0 .. 2 * Half : Submit(penalty)
           \/ \E s \in Sched : \E d \in RunTimes : OtherRuns(s, d)
           \/ \E s \in Sched : Donated(s)
           \/ StartCrashes
           \/ \E d \in RunTimes : FinishCrashes(d)
  BY <1>5 DEF vars, Submit, OtherRuns, Donated, StartCrashes, FinishCrashes
<1> QED BY <1>2, <1>3, <1>4, <1>5 DEF Next

\* SCHED_TICK_TOTAL is computed without wrapping around: the window is always
\* shorter than SCHED_TICK_MAX.
Short == Minus(ltick, ftick) < TickMax

\* The window is shorter than SCHED_TICK_MAX even when ftick has wrapped around
\* or a donated task has met a clock that is behind, so that rounding it up to
\* the range in SCHED_PRI_TICKS does not overflow (task.cc:97-101 and :119-120).
THEOREM WindowIsShort == Spec => []Short
<1>1. Init => Short
  <2>1. ASSUME Init PROVE Minus(ltick, ftick) = 0
    BY <2>1, Sizes, MinusIsExact DEF Init, Ull
  <2> QED BY <2>1, WindowSizes DEF Short
<1>2. TypeOK /\ Short /\ [Next]_vars => Short'
  <2> SUFFICES ASSUME TypeOK, Short, [Next]_vars PROVE Short'
    OBVIOUS
  <2>1. CASE UNCHANGED accounts BY <2>1 DEF Short, accounts, Minus
  <2>2. ASSUME NEW ran \in BOOLEAN, clock'[at] \in Ull, Update(clock'[at], ran) PROVE Short'
    <3> DEFINE t == clock'[at]
    <3>1. t \in Int /\ 0 <= t /\ t < UllMod /\ ltick \in Int /\ ~LongIdle(t)
      BY <2>2, Sizes, NeverLongIdle DEF TypeOK, Ull
    <3>2. ltick' = t /\ ftick' = NewFtick(t) BY <2>2 DEF Update
    <3> HIDE DEF t
    <3>3. CASE WindowOver(t)
      <4>1. ftick' = Minus(t, Targ) BY <3>2, <3>3 DEF NewFtick
      <4>2. Minus(t, Targ) = t - Targ \/ Minus(t, Targ) = t - Targ + UllMod
        <5>1. CASE t >= Targ
          <6>1. t - Targ \in Ull BY <3>1, <5>1, WindowSizes, Sizes DEF Ull
          <6> QED BY <3>1, <6>1, WindowSizes, MinusIsExact
        <5>2. CASE t < Targ
          <6>1. Minus(t, Targ) = (t - Targ) % UllMod BY DEF Minus
          <6>2. -UllMod <= t - Targ /\ t - Targ < 0 BY <3>1, <5>2, WindowSizes, Sizes
          <6>3. t - Targ \in Int BY <3>1, WindowSizes
          <6> QED BY <6>1, <6>2, <6>3, Sizes, NegativeMod
        <5> QED BY <3>1, <5>1, <5>2, WindowSizes
      <4>3. Minus(t, t - Targ) = Targ /\ Minus(t, t - Targ + UllMod) = Targ
        <5>1. t - (t - Targ) \in Ull /\ Targ \in Ull BY <3>1, WindowSizes, Sizes DEF Ull
        <5>2. Minus(t, t - Targ) = Targ BY <3>1, <5>1, WindowSizes, MinusIsExact
        <5>3. (Targ - UllMod) % UllMod = Targ BY WindowSizes, Sizes, NegativeMod
        <5>4. t - (t - Targ + UllMod) = Targ - UllMod BY <3>1, WindowSizes, Sizes
        <5> QED BY <5>2, <5>3, <5>4 DEF Minus
      <4>4. Minus(ltick', ftick') = Targ BY <3>2, <4>1, <4>2, <4>3
      <4> QED BY <4>4, WindowSizes DEF Short, Minus
    <3>4. CASE ~WindowOver(t)
      <4>1. ftick' = ftick BY <3>1, <3>2, <3>4 DEF NewFtick
      <4>2. Minus(t, ftick) < TickMax
        <5>1. Minus(t, ftick) \in Int BY <3>1, MinusType DEF TypeOK, Ull
        <5> QED BY <3>1, <3>4, <5>1, WindowSizes DEF WindowOver
      <4> QED BY <3>2, <4>1, <4>2 DEF Short, Minus
    <3> QED BY <3>3, <3>4
  <2> QED BY <2>1, <2>2, StepUpdates
<1> QED BY <1>1, <1>2, Typing, PTL DEF Spec

------------------------------------------------------------------------------
(* The account.                                                             *)

\* Between updates by clocks that do not go back, nothing wraps around.
LEMMA UpdateForward ==
  ASSUME TypeOK, NEW t \in Ull, ltick <= t, ftick <= ltick
  PROVE  /\ Minus(t, ltick) = t - ltick
         /\ Minus(t, ftick) = t - ftick
         /\ Minus(ltick, ftick) = ltick - ftick
         /\ WindowOver(t) => TickMax <= t - ftick /\ Minus(t, Targ) = t - Targ
<1>1. t - ltick \in Ull /\ t - ftick \in Ull /\ ltick - ftick \in Ull /\ t \in Int
      /\ ltick \in Int /\ ftick \in Int
  BY Sizes DEF TypeOK, Ull
<1>2. /\ Minus(t, ltick) = t - ltick
      /\ Minus(t, ftick) = t - ftick
      /\ Minus(ltick, ftick) = ltick - ftick
  BY <1>1, MinusIsExact
<1>3. ASSUME WindowOver(t) PROVE TickMax <= t - ftick /\ Minus(t, Targ) = t - Targ
  <2>1. TickMax <= t - ftick BY <1>1, <1>2, <1>3, WindowSizes DEF WindowOver
  <2>2. t - Targ \in Ull BY <1>1, <2>1, WindowSizes, Sizes DEF TypeOK, Ull
  <2> QED BY <1>1, <2>1, <2>2, WindowSizes, MinusIsExact
<1> QED BY <1>2, <1>3

\* However the window moves on, it does not get empty by itself.
THEOREM WindowAlwaysStaysOpen == Spec => WindowStaysOpen
<1>1. TypeOK /\ [Next]_vars =>
        [ltick > ftick /\ clock'[at] >= ltick => ltick' > ftick']_vars
  <2> SUFFICES ASSUME TypeOK, [Next]_vars, ltick > ftick, clock'[at] >= ltick
               PROVE  ltick' > ftick'
    OBVIOUS
  <2>1. CASE UNCHANGED accounts BY <2>1 DEF accounts
  <2>2. ASSUME NEW ran \in BOOLEAN, clock'[at] \in Ull, Update(clock'[at], ran)
        PROVE  ltick' > ftick'
    <3> DEFINE t == clock'[at]
    <3>1. t \in Ull /\ t \in Int /\ ltick <= t /\ ftick <= ltick /\ ftick < t
          /\ ltick \in Int /\ ftick \in Int
      BY <2>2, Sizes DEF TypeOK, Ull
    <3>2. ltick' = t /\ ftick' = NewFtick(t) BY <2>2 DEF Update
    <3> HIDE DEF t
    <3>3. CASE WindowOver(t)
      <4>1. ftick' = t - Targ BY <3>1, <3>2, <3>3, UpdateForward DEF NewFtick
      <4> QED BY <3>1, <3>2, <4>1, WindowSizes
    <3>4. CASE ~WindowOver(t)
      <4>1. ftick' = ftick BY <3>1, <3>2, <3>4, NeverLongIdle DEF NewFtick
      <4> QED BY <3>1, <3>2, <4>1
    <3> QED BY <3>3, <3>4
  <2> QED BY <2>1, <2>2, StepUpdates
<1> QED BY <1>1, Typing, PTL DEF Spec, WindowStaysOpen

LEMMA FitsAfterUpdate ==
  ASSUME TypeOK, NEW t \in Ull, NEW ran \in BOOLEAN, Update(t, ran), Fits,
         t - ltick \in 0 .. Targ
  PROVE  Fits'
<1> DEFINE w == ltick - ftick
           d == t - ltick
<1>1. /\ t \in Int /\ ltick \in Int /\ ftick \in Int /\ ticks \in Nat
      /\ d \in Nat /\ d <= Targ /\ w \in Int
  BY WindowSizes, Sizes DEF TypeOK, Ull
<1>2. ticks <= Shift * w BY DEF Fits
<1>3. w \in Nat
  <2>1. CASE w >= 0 BY <1>1, <2>1
  <2>2. CASE w < 0
    <3>1. Shift * w < 0 BY <1>1, <2>2, Sizes
    <3>2. Shift * w \in Int BY <1>1, Sizes
    <3> QED BY <1>1, <1>2, <3>1, <3>2
  <2> QED BY <1>1, <2>1, <2>2
<1>4. /\ Minus(t, ltick) = d
      /\ Minus(ltick, ftick) = w
      /\ ~LongIdle(t)
      /\ WindowOver(t) => TickMax <= t - ftick /\ Minus(t, Targ) = t - Targ
  BY <1>1, <1>3, UpdateForward, NeverLongIdle
<1>5. /\ ticks' = (Kept(t) + (IF ran THEN d * Shift ELSE 0)) % UllMod
      /\ ltick' = t /\ ftick' = NewFtick(t)
  BY <1>4 DEF Update
<1> DEFINE added == IF ran THEN d * Shift ELSE 0
<1>6. d * Shift \in Nat /\ added \in Nat /\ added <= d * Shift
  BY <1>1, Sizes
<1>7. CASE ~WindowOver(t)
  <2>1. Kept(t) = ticks /\ ftick' = ftick BY <1>4, <1>5, <1>7 DEF Kept, NewFtick
  <2>2. ticks + added \in Nat /\ ticks' <= ticks + added
    <3>1. ticks + added \in Nat BY <1>1, <1>6
    <3>2. ticks' = (ticks + added) % UllMod BY <1>5, <2>1
    <3> QED BY <3>1, <3>2, Sizes, RemainderAtMost
  <2>3. Shift * (w + d) = Shift * w + d * Shift /\ Shift * w \in Int
    BY <1>1, Sizes
  <2>4. ticks' \in Int BY <1>5, <2>1, <2>2, Sizes, RemainderLemma
  <2>5. ticks' <= Shift * (w + d)
    BY <1>2, <1>6, <2>2, <2>3, <2>4, <1>1
  <2>6. ltick' - ftick' = w + d BY <1>1, <1>5, <2>1
  <2> QED BY <2>5, <2>6 DEF Fits
<1>8. CASE WindowOver(t)
  <2> DEFINE q == ticks \div w
             rest == Targ - d
  <2>1. w \in Nat \ {0}
    <3>1. ltick # ftick BY <1>8 DEF Update, DividesByZero
    <3> QED BY <1>1, <1>3, <3>1
  <2>2. q \in Nat /\ q <= Shift
    <3>1. Shift + 1 \in Nat /\ (Shift + 1) * w = Shift * w + w
      BY <1>1, Sizes, Distribute
    <3>2. Shift * w \in Int BY <1>1, Sizes
    <3>3. ticks < (Shift + 1) * w BY <1>1, <1>2, <2>1, <3>1, <3>2
    <3>4. q < Shift + 1 /\ q \in Nat
      BY <1>1, <2>1, <3>1, <3>3, QuotientLess, DivisionLemma
    <3> QED BY <3>4, Sizes
  <2>3. rest \in Nat /\ Minus(ltick, Minus(t, Targ)) = rest
    <3>1. Targ \in Int /\ Targ < UllMod BY WindowSizes, Sizes
    <3>2. ltick - (t - Targ) = rest /\ t - Targ \in Int BY <1>1, <3>1
    <3>3. rest \in Nat /\ rest < UllMod BY <1>1, <3>1, Sizes
    <3>4. ltick - (t - Targ) \in Ull BY <3>2, <3>3, Sizes DEF Ull
    <3>5. Minus(t, Targ) = t - Targ BY <1>4, <1>8
    <3> HIDE DEF rest, d, w
    <3> QED BY <1>1, <3>2, <3>3, <3>4, <3>5, MinusIsExact
  <2>4. Kept(t) = (q * rest) % UllMod BY <1>4, <1>8, <2>3 DEF Kept
  <2> HIDE DEF q, rest, added
  <2>5. q * rest \in Nat /\ Shift * rest \in Nat /\ q * rest <= Shift * rest
    BY <2>2, <2>3, Sizes, ProductAtMost
  <2>6. Kept(t) \in Nat /\ Kept(t) <= Shift * rest
    <3>1. Kept(t) <= q * rest /\ Kept(t) \in Nat
      BY <2>4, <2>5, Sizes, RemainderAtMost
    <3> QED BY <2>5, <3>1, Sizes
  <2>7. ticks' \in Nat /\ ticks' <= Kept(t) + added
    <3>1. Kept(t) + added \in Nat BY <1>6, <2>6
    <3>2. ticks' = (Kept(t) + added) % UllMod BY <1>5 DEF added
    <3> QED BY <3>1, <3>2, Sizes, RemainderAtMost
  <2>8. Shift * rest + d * Shift = Shift * Targ
    BY <1>1, WindowSizes, Sizes DEF rest
  <2>9. Shift * Targ \in Int BY WindowSizes, Sizes
  <2>10. ticks' <= Shift * Targ BY <1>6, <2>5, <2>6, <2>7, <2>8, <2>9
  <2>11. ftick' = t - Targ BY <1>4, <1>5, <1>8 DEF NewFtick
  <2>12. ltick' - ftick' = Targ BY <1>1, <1>5, <2>11, WindowSizes
  <2> QED BY <2>10, <2>12 DEF Fits
<1> QED BY <1>7, <1>8

\* The account never says that more time was used than there was, unless a chain
\* waits or runs for longer than SCHED_TICK_SECS, or changes to a clock behind.
THEOREM UseAlwaysFitsWindow == Spec => UseFitsWindow
<1>1. TypeOK /\ [Next]_vars =>
        [Fits /\ clock'[at] - ltick \in 0 .. Targ => Fits']_vars
  <2> SUFFICES ASSUME TypeOK, [Next]_vars, Fits, clock'[at] - ltick \in 0 .. Targ
               PROVE  Fits'
    OBVIOUS
  <2>1. CASE UNCHANGED accounts BY <2>1 DEF accounts, Fits
  <2> QED BY <2>1, StepUpdates, FitsAfterUpdate
<1> QED BY <1>1, Typing, PTL DEF Spec, UseFitsWindow

------------------------------------------------------------------------------
(* History.                                                                 *)

LEMMA HistorySizes ==
  /\ Threshold \in Nat \ {0} /\ Half \in Nat \ {0}
  /\ Thresh \in Nat \ {0} /\ Thresh <= Half /\ Durations \subseteq Nat
BY HistoryAssumption, InteractivityAssumption

------------------------------------------------------------------------------
(* The penalty.                                                             *)

\* The shorter time is less than Half parts in Half of the longer one.
LEMMA ShareOfTime ==
  ASSUME NEW a \in Nat, NEW b \in Nat, a < b
  PROVE  LET q == (Half * a) \div b
             r == (Half * a) % b IN
         /\ q \in Nat /\ q < Half
         /\ r \in 0 .. b - 1
         /\ Half * a \in Nat /\ q * b \in Nat
         /\ Half * a = q * b + r
         /\ a > 0 /\ r = 0 => q > 0
<1> DEFINE q == (Half * a) \div b
           r == (Half * a) % b
<1>1. b \in Nat \ {0} /\ Half \in Nat \ {0} BY HistorySizes
<1>2. Half * a \in Nat /\ Half * b \in Nat BY <1>1, ProductAtMost
<1>3. q \in Nat /\ r \in 0 .. b - 1 /\ Half * a = q * b + r
  BY <1>1, <1>2, DivisionLemma
<1>4. Half * a < Half * b
  <2>1. Half * (a + 1) <= Half * b /\ Half * (a + 1) \in Nat BY <1>1, ProductAtMost
  <2>2. Half * (a + 1) = Half * a + Half
    <3>1. (a + 1) * Half = a * Half + Half BY <1>1, Distribute
    <3> QED BY <3>1, <1>1
  <2> QED BY <1>1, <1>2, <2>1, <2>2
<1>5. q < Half BY <1>1, <1>2, <1>4, QuotientLess
<1>6. q * b \in Nat BY <1>3, ProductAtMost
<1>7. ASSUME a > 0, r = 0 PROVE q > 0
  <2>1. Half * 1 <= Half * a BY <1>1, <1>7, ProductAtMost
  <2>2. q * b > 0 BY <1>1, <1>2, <1>3, <1>7, <2>1
  <2>3. CASE q = 0 BY <2>2, <2>3, <1>1
  <2> QED BY <1>3, <2>3
<1> QED BY <1>2, <1>3, <1>5, <1>6, <1>7

\* The penalty is at least the share of the time that was run, in parts of Half,
\* but for rounding.
LEMMA PenaltyOfSleepers ==
  ASSUME NEW run \in Nat, NEW sleep \in Nat, run < sleep,
         NEW p \in Scaled(run, sleep)
  PROVE  /\ p \in 0 .. 2 * Half
         /\ p < Thresh => Half * run <= Thresh * sleep
<1> DEFINE q == (Half * run) \div sleep
           r == (Half * run) % sleep
<1>1. /\ q \in Nat /\ q < Half /\ r \in 0 .. sleep - 1
      /\ Half * run \in Nat /\ q * sleep \in Nat /\ Half * run = q * sleep + r
      /\ run > 0 /\ r = 0 => q > 0
  BY ShareOfTime
<1>2. p = q \/ (p = q - 1 /\ r = 0 /\ run > 0)
  BY DEF Scaled
<1> HIDE DEF q, r
<1>3. Half \in Nat /\ Thresh \in Nat BY HistorySizes
<1>4. ASSUME p < Thresh PROVE Half * run <= Thresh * sleep
  <2>1. CASE r = 0
    <3>1. q <= Thresh BY <1>1, <1>2, <1>3, <1>4
    <3>2. q * sleep <= Thresh * sleep BY <1>1, <1>3, <3>1, ProductAtMost
    <3> QED BY <1>1, <2>1, <3>2
  <2>2. CASE r # 0
    <3>1. q + 1 <= Thresh /\ q + 1 \in Nat BY <1>1, <1>2, <1>3, <1>4, <2>2
    <3>2. (q + 1) * sleep <= Thresh * sleep /\ (q + 1) * sleep \in Nat /\ Thresh * sleep \in Nat
      BY <1>3, <3>1, ProductAtMost
    <3>3. (q + 1) * sleep = q * sleep + sleep BY <1>1, Distribute
    <3> QED BY <1>1, <3>2, <3>3
  <2> QED BY <2>1, <2>2
<1>5. p \in 0 .. 2 * Half BY <1>1, <1>2, <1>3
<1> QED BY <1>4, <1>5

\* One that slept less has at least the penalty of one that slept as long as it ran.
LEMMA PenaltyOfRunners ==
  ASSUME NEW run \in Nat, NEW sleep \in Nat, sleep < run,
         NEW p \in ScaledFromAbove(sleep, run)
  PROVE  p \in Half .. 2 * Half
<1> DEFINE q == (Half * sleep) \div run
           r == (Half * sleep) % run
<1>1. q \in Nat /\ q < Half /\ (sleep > 0 /\ r = 0 => q > 0)
  BY ShareOfTime
<1>2. p = 2 * Half \/ p = 2 * Half - q - 1 \/ (p = 2 * Half - q /\ sleep > 0 /\ r = 0)
  <2>1. CASE sleep = 0
    <3>1. ScaledFromAbove(sleep, run) = {2 * Half} BY <2>1 DEF ScaledFromAbove
    <3> QED BY <3>1
  <2>2. CASE sleep # 0 /\ r = 0
    <3>1. ScaledFromAbove(sleep, run) = {2 * Half - q - 1, 2 * Half - q}
      BY <2>2 DEF ScaledFromAbove
    <3>2. sleep > 0 BY <2>2
    <3> QED BY <2>2, <3>1, <3>2
  <2>3. CASE sleep # 0 /\ r # 0
    <3>1. ScaledFromAbove(sleep, run) = {2 * Half - q - 1}
      BY <2>3 DEF ScaledFromAbove
    <3> QED BY <3>1
  <2> QED BY <2>1, <2>2, <2>3
<1> HIDE DEF q, r
<1>3. Half \in Nat BY HistorySizes
<1> QED BY <1>1, <1>2, <1>3

LEMMA PenaltiesAreRight ==
  ASSUME HistoryTypeOK
  PROVE  OnlySleepersAreInteractive
<1> SUFFICES ASSUME NEW p \in Penalties(runTime, sleepTime)
             PROVE  /\ p \in 0 .. 2 * Half
                    /\ p < Thresh => Half * runTime <= Thresh * sleepTime
                    /\ sleepTime < runTime => p >= Half
  BY DEF OnlySleepersAreInteractive
<1>1. runTime \in Nat /\ sleepTime \in Nat /\ Half \in Nat /\ Thresh \in Nat /\ Thresh <= Half
  BY HistorySizes DEF HistoryTypeOK
<1>2. CASE runTime < sleepTime
  <2>1. p \in Scaled(runTime, sleepTime) BY <1>1, <1>2 DEF Penalties
  <2>2. p \in 0 .. 2 * Half /\ (p < Thresh => Half * runTime <= Thresh * sleepTime)
    BY <1>1, <1>2, <2>1, PenaltyOfSleepers
  <2> QED BY <1>1, <1>2, <2>2
<1>3. CASE sleepTime < runTime
  <2>1. p \in ScaledFromAbove(sleepTime, runTime) BY <1>1, <1>3 DEF Penalties
  <2>2. p \in Half .. 2 * Half BY <1>1, <1>3, <2>1, PenaltyOfRunners
  <2> QED BY <1>1, <2>2
<1>4. CASE sleepTime = runTime
  <2>1. p = Half BY <1>1, <1>4 DEF Penalties
  <2> QED BY <1>1, <1>4, <2>1
<1> QED BY <1>1, <1>2, <1>3, <1>4

------------------------------------------------------------------------------
(* The sums.                                                                *)

\* The times of the events of a type, for SumTo.
TimesOf(type, seq) ==
  [i \in 0 .. Len(seq) - 1 |-> IF seq[i + 1].type = type THEN seq[i + 1].duration ELSE 0]

LEMMA TimesType ==
  ASSUME NEW seq \in Seq(Event), NEW type
  PROVE  /\ Len(seq) \in Nat
         /\ TimesOf(type, seq) \in [0 .. Len(seq) - 1 -> Nat]
         /\ TimesOf(type, seq) \in [0 .. Len(seq) - 1 -> Int]
<1>1. Len(seq) \in Nat OBVIOUS
<1>2. ASSUME NEW i \in 0 .. Len(seq) - 1
      PROVE  (IF seq[i + 1].type = type THEN seq[i + 1].duration ELSE 0) \in Nat
  <2>1. i + 1 \in 1 .. Len(seq) BY <1>1
  <2>2. seq[i + 1] \in Event BY <2>1
  <2> QED BY <2>2 DEF Event
<1>3. TimesOf(type, seq) \in [0 .. Len(seq) - 1 -> Nat] BY <1>2 DEF TimesOf
<1> QED BY <1>1, <1>3

LEMMA TimeIsSum ==
  ASSUME NEW seq \in Seq(Event), NEW type
  PROVE  TimeOf(type, seq) = SumTo(TimesOf(type, seq), Len(seq))
<1> DEFINE n == Len(seq)
           f == TimesOf(type, seq)
           Sum(g) == g = [i \in 0 .. n |-> IF i = 0 THEN 0
                          ELSE g[i - 1] + (IF seq[i].type = type THEN seq[i].duration ELSE 0)]
           s == CHOOSE g : Sum(g)
<1>1. n \in Nat /\ f \in [0 .. n - 1 -> Int] BY TimesType
<1>2. ASSUME NEW i \in 1 .. n
      PROVE  f[i - 1] = (IF seq[i].type = type THEN seq[i].duration ELSE 0)
  <2>1. i - 1 \in 0 .. n - 1 /\ (i - 1) + 1 = i BY <1>1
  <2> QED BY <2>1 DEF TimesOf
<1>3. PICK g : Adds(g, f, n) BY <1>1, SumsExist
<1>4. Sum(g)
  <2>1. \A i \in 0 .. n : g[i] = IF i = 0 THEN 0
             ELSE g[i - 1] + (IF seq[i].type = type THEN seq[i].duration ELSE 0)
    <3> TAKE i \in 0 .. n
    <3> HIDE DEF f
    <3>1. CASE i = 0 BY <1>3, <3>1 DEF Adds
    <3>2. CASE i # 0
      <4>1. i \in 1 .. n BY <1>1, <3>2
      <4> HIDE DEF n
      <4>2. g[i] = g[i - 1] + f[i - 1] BY <1>3, <4>1 DEF Adds
      <4> QED BY <1>2, <3>2, <4>1, <4>2
    <3> QED BY <3>1, <3>2
  <2>2. g \in [0 .. n -> Int] BY <1>3 DEF Adds
  <2> QED BY <2>1, <2>2
<1>5. Sum(s) BY <1>4
<1>6. TimeOf(type, seq) = s[n] BY DEF TimeOf
<1> HIDE DEF s, f, n
<1>7. s[0] = 0 /\ \A i \in 1 .. n : s[i] = s[i - 1] + f[i - 1]
  <2>1. 0 \in 0 .. n /\ \A i \in 1 .. n : i \in 0 .. n /\ i # 0 BY <1>1
  <2>2. s[0] = 0 BY <1>5, <2>1
  <2>3. ASSUME NEW i \in 1 .. n PROVE s[i] = s[i - 1] + f[i - 1]
    <3>1. s[i] = s[i - 1] + (IF seq[i].type = type THEN seq[i].duration ELSE 0)
      BY <1>5, <2>1
    <3> QED BY <1>2, <3>1
  <2> QED BY <2>2, <2>3
<1>8. s[n] = SumTo(f, n) BY <1>1, <1>7, SumIsUnique
<1> QED BY <1>6, <1>8 DEF n, f

\* No time is negative.
LEMMA TimeType ==
  ASSUME NEW seq \in Seq(Event), NEW type
  PROVE  TimeOf(type, seq) \in Nat
BY TimesType, TimeIsSum, SumOfNaturals

\* What an event adds to the time of a type.
TimeIn(type, e) == IF e.type = type THEN e.duration ELSE 0

LEMMA TimeOfNone ==
  ASSUME NEW type
  PROVE  TimeOf(type, <<>>) = 0
<1>1. <<>> \in Seq(Event) /\ Len(<<>>) = 0 OBVIOUS
<1>2. TimesOf(type, <<>>) \in [0 .. 0 - 1 -> Int] BY <1>1, TimesType
<1>3. SumTo(TimesOf(type, <<>>), 0) = 0
  <2>1. \A i \in 0 .. 0 - 1 : FALSE OBVIOUS
  <2> QED BY <1>2, <2>1, SumOfZeros
<1> QED BY <1>1, <1>3, TimeIsSum

LEMMA TimeOfAppended ==
  ASSUME NEW seq \in Seq(Event), NEW e \in Event, NEW type
  PROVE  TimeOf(type, Append(seq, e)) = TimeOf(type, seq) + TimeIn(type, e)
<1> DEFINE n == Len(seq)
           longer == Append(seq, e)
           f == TimesOf(type, seq)
           h == TimesOf(type, longer)
<1>1. n \in Nat /\ f \in [0 .. n - 1 -> Int] BY TimesType
<1>2. longer \in Seq(Event) /\ Len(longer) = n + 1 OBVIOUS
<1>3. h \in [0 .. n -> Int]
  <2>1. h \in [0 .. Len(longer) - 1 -> Int] BY <1>2, TimesType
  <2> QED BY <1>1, <1>2, <2>1
<1>4. ASSUME NEW i \in 0 .. n - 1 PROVE h[i] = f[i]
  <2>1. i + 1 \in 1 .. n /\ i \in 0 .. Len(longer) - 1 BY <1>1, <1>2
  <2>2. longer[i + 1] = seq[i + 1] BY <1>1, <2>1
  <2> QED BY <2>1, <2>2 DEF TimesOf
<1>5. h[n] = TimeIn(type, e)
  <2>1. longer[n + 1] = e /\ n \in 0 .. Len(longer) - 1 BY <1>1, <1>2
  <2> QED BY <2>1 DEF TimesOf, TimeIn
<1>6. TimeOf(type, seq) = SumTo(f, n) BY TimeIsSum
<1>7. TimeOf(type, longer) = SumTo(h, n + 1) BY <1>2, TimeIsSum
<1> HIDE DEF n, f, h, longer
<1>8. SumTo(h, n + 1) = SumTo(f, n) + h[n] BY <1>1, <1>3, <1>4, SumOfOneMore
<1> QED BY <1>5, <1>6, <1>7, <1>8 DEF longer

LEMMA TimeOfRest ==
  ASSUME NEW seq \in Seq(Event), NEW type, seq # <<>>
  PROVE  /\ Head(seq) \in Event
         /\ Tail(seq) \in Seq(Event)
         /\ TimeOf(type, seq) = TimeIn(type, Head(seq)) + TimeOf(type, Tail(seq))
<1> DEFINE rest == Tail(seq)
           n == Len(rest)
           f == TimesOf(type, seq)
           h == TimesOf(type, rest)
<1>1. rest \in Seq(Event) /\ n \in Nat /\ Len(seq) = n + 1 /\ Head(seq) = seq[1]
      /\ Head(seq) \in Event
  OBVIOUS
<1>2. f \in [0 .. n -> Int]
  <2>1. f \in [0 .. Len(seq) - 1 -> Int] BY TimesType
  <2> QED BY <1>1, <2>1
<1>3. h \in [0 .. n - 1 -> Int] BY <1>1, TimesType
<1>4. ASSUME NEW i \in 0 .. n - 1 PROVE h[i] = f[i + 1]
  <2>1. i + 1 \in 1 .. n /\ i + 1 \in 0 .. Len(seq) - 1 BY <1>1
  <2>2. rest[i + 1] = seq[(i + 1) + 1] BY <1>1, <2>1
  <2> QED BY <2>1, <2>2 DEF TimesOf
<1>5. f[0] = TimeIn(type, Head(seq))
  <2>1. 0 \in 0 .. Len(seq) - 1 /\ 0 + 1 = 1 BY <1>1
  <2> QED BY <1>1, <2>1 DEF TimesOf, TimeIn
<1>6. TimeOf(type, seq) = SumTo(f, n + 1) BY <1>1, TimeIsSum
<1>7. TimeOf(type, rest) = SumTo(h, n) BY <1>1, TimeIsSum
<1> HIDE DEF n, f, h, rest
<1>8. SumTo(f, n + 1) = f[0] + SumTo(h, n) BY <1>1, <1>2, <1>3, <1>4, SumOfRest
<1> QED BY <1>1, <1>5, <1>6, <1>7, <1>8 DEF rest

\* Taking n off the first event takes n off the time of its type.
LEMMA TimeOfShortened ==
  ASSUME NEW seq \in Seq(Event), NEW type, seq # <<>>,
         NEW n \in Nat, n <= Head(seq).duration
  PROVE  LET less == [seq EXCEPT ![1].duration = @ - n] IN
         /\ less \in Seq(Event)
         /\ TimeOf(type, less) = TimeOf(type, seq) - (IF Head(seq).type = type THEN n ELSE 0)
<1> DEFINE less == [seq EXCEPT ![1].duration = @ - n]
<1>1. Head(seq) = seq[1] /\ seq[1] \in Event /\ Len(seq) \in Nat /\ 1 \in 1 .. Len(seq)
  OBVIOUS
<1>2. seq[1].duration - n \in Nat /\ seq[1].duration \in Nat BY <1>1 DEF Event
<1>3. less[1] = [seq[1] EXCEPT !.duration = @ - n] BY <1>1
<1>4. less[1] \in Event /\ less[1].type = seq[1].type /\ less[1].duration = seq[1].duration - n
  BY <1>1, <1>2, <1>3 DEF Event
<1>5. /\ less \in Seq(Event) /\ Len(less) = Len(seq)
      /\ \A i \in 2 .. Len(seq) : less[i] = seq[i]
  BY <1>1, <1>4
<1>6. Tail(less) = Tail(seq) /\ less # <<>> /\ Head(less) = less[1]
  BY <1>1, <1>5
<1> HIDE DEF less
<1>7. TimeOf(type, seq) = TimeIn(type, Head(seq)) + TimeOf(type, Tail(seq)) /\ Tail(seq) \in Seq(Event)
  BY TimeOfRest
<1>8. TimeOf(type, less) = TimeIn(type, Head(less)) + TimeOf(type, Tail(less))
  BY <1>5, <1>6, TimeOfRest
<1>9. TimeIn(type, Head(less)) = TimeIn(type, Head(seq)) - (IF Head(seq).type = type THEN n ELSE 0)
  <2>1. Head(less).type = Head(seq).type /\ Head(less).duration = Head(seq).duration - n
    BY <1>1, <1>4, <1>6
  <2>2. CASE Head(seq).type = type BY <2>1, <2>2 DEF TimeIn
  <2>3. CASE Head(seq).type # type BY <2>1, <2>3 DEF TimeIn
  <2> QED BY <2>2, <2>3
<1>10. TimeOf(type, Tail(seq)) \in Nat BY <1>7, TimeType
<1>11. TimeIn(type, Head(seq)) \in Nat BY <1>1, <1>2 DEF TimeIn
<1>12. TimeOf(type, less) = TimeOf(type, seq) - (IF Head(seq).type = type THEN n ELSE 0)
  <2> DEFINE off == IF Head(seq).type = type THEN n ELSE 0
             old == TimeIn(type, Head(seq))
             rest == TimeOf(type, Tail(seq))
  <2>1. off \in Nat /\ old \in Nat /\ rest \in Nat BY <1>10, <1>11
  <2>2. TimeOf(type, seq) = old + rest BY <1>7
  <2>3. TimeOf(type, less) = (old - off) + rest BY <1>6, <1>8, <1>9
  <2> HIDE DEF off, old, rest
  <2>4. TimeOf(type, less) = TimeOf(type, seq) - off BY <2>1, <2>2, <2>3
  <2> QED BY <2>4 DEF off
<1> QED BY <1>5, <1>12 DEF less

LEMMA InitSums == HistoryInit => SumsMatchEvents
<1> SUFFICES ASSUME HistoryInit PROVE SumsMatchEvents
  OBVIOUS
<1>1. events = <<>> /\ runTime = 0 /\ sleepTime = 0 /\ trimming = FALSE BY DEF HistoryInit
<1>2. <<>> \in Seq(Event) OBVIOUS
<1>3. HistoryTypeOK BY <1>1, <1>2 DEF HistoryTypeOK
<1> QED BY <1>1, <1>3, TimeOfNone DEF SumsMatchEvents

LEMMA AddSums ==
  ASSUME SumsMatchEvents,
         NEW type \in Types, NEW d \in Durations, AddEvent(type, d)
  PROVE  SumsMatchEvents'
<1> DEFINE e == [type |-> type, duration |-> d]
<1>1. d \in Nat BY HistorySizes
<1>2. e \in Event BY <1>1 DEF Event
<1>3. events \in Seq(Event) /\ runTime \in Nat /\ sleepTime \in Nat /\ trimming \in BOOLEAN
      /\ runTime = TimeOf("CPU", events) /\ sleepTime = TimeOf("IO", events)
  BY DEF SumsMatchEvents, HistoryTypeOK
<1>4. e.type = type /\ e.duration = d /\ type \in {"CPU", "IO"} BY DEF Types
<1>5. events' = Append(events, e) BY DEF AddEvent
<1>6. events' \in Seq(Event) BY <1>2, <1>3, <1>5
<1>7. runTime' = runTime + TimeIn("CPU", e) /\ sleepTime' = sleepTime + TimeIn("IO", e)
  BY <1>1, <1>3, <1>4 DEF AddEvent, TimeIn
<1>8. TimeIn("CPU", e) \in Nat /\ TimeIn("IO", e) \in Nat BY <1>1, <1>4 DEF TimeIn
<1> HIDE DEF e
<1>9. TimeOf("CPU", Append(events, e)) = TimeOf("CPU", events) + TimeIn("CPU", e)
      /\ TimeOf("IO", Append(events, e)) = TimeOf("IO", events) + TimeIn("IO", e)
  BY <1>2, <1>3, TimeOfAppended
<1>10. HistoryTypeOK'
  <2>1. runTime' \in Nat /\ sleepTime' \in Nat BY <1>3, <1>7, <1>8
  <2>2. trimming' = TRUE BY DEF AddEvent
  <2> QED BY <1>6, <2>1, <2>2 DEF HistoryTypeOK
<1>11. runTime' = TimeOf("CPU", events') /\ sleepTime' = TimeOf("IO", events')
  BY <1>3, <1>5, <1>7, <1>9
<1> QED BY <1>10, <1>11 DEF SumsMatchEvents

\* The oldest event is no longer than all the events of its type.
LEMMA HeadFits ==
  ASSUME SumsMatchEvents, events # <<>>
  PROVE  /\ Head(events) \in Event /\ Head(events).duration \in Nat
         /\ Head(events).type \in {"CPU", "IO"}
         /\ Head(events).type = "CPU" => Head(events).duration <= runTime
         /\ Head(events).type = "IO" => Head(events).duration <= sleepTime
<1>1. events \in Seq(Event) BY DEF SumsMatchEvents, HistoryTypeOK
<1>2. Head(events) \in Event /\ Tail(events) \in Seq(Event) BY <1>1, TimeOfRest
<1>3. Head(events).duration \in Nat /\ Head(events).type \in {"CPU", "IO"}
  BY <1>2 DEF Event, Types
<1>4. ASSUME NEW type, Head(events).type = type
      PROVE  Head(events).duration <= TimeOf(type, events)
  <2>1. TimeOf(type, events) = TimeIn(type, Head(events)) + TimeOf(type, Tail(events))
    BY <1>1, TimeOfRest
  <2>2. TimeOf(type, Tail(events)) \in Nat BY <1>2, TimeType
  <2> QED BY <1>3, <1>4, <2>1, <2>2 DEF TimeIn
<1> QED BY <1>2, <1>3, <1>4 DEF SumsMatchEvents

LEMMA ShortenSums ==
  ASSUME SumsMatchEvents, ShortenOldest
  PROVE  SumsMatchEvents'
<1> DEFINE extra == Total - Threshold
           type == Head(events).type
<1>1. events \in Seq(Event) /\ runTime \in Nat /\ sleepTime \in Nat /\ trimming \in BOOLEAN
      /\ runTime = TimeOf("CPU", events) /\ sleepTime = TimeOf("IO", events)
  BY DEF SumsMatchEvents, HistoryTypeOK
<1>2. events # <<>> /\ Total > Threshold /\ Total - Head(events).duration < Threshold
  BY DEF ShortenOldest, TooLong
<1>3. /\ Head(events).duration \in Nat /\ type \in {"CPU", "IO"}
      /\ type = "CPU" => Head(events).duration <= runTime
      /\ type = "IO" => Head(events).duration <= sleepTime
  BY <1>2, HeadFits
<1>4. extra \in Nat /\ extra <= Head(events).duration
  <2>1. Total \in Nat /\ Threshold \in Nat BY <1>1, HistorySizes DEF Total
  <2> QED BY <1>2, <1>3, <2>1
<1>5. events' = [events EXCEPT ![1].duration = @ - extra] BY DEF ShortenOldest
<1>6. runTime' = runTime - (IF type = "CPU" THEN extra ELSE 0)
      /\ sleepTime' = sleepTime - (IF type = "IO" THEN extra ELSE 0) /\ trimming' = trimming
  BY <1>1, <1>4 DEF ShortenOldest, TakeOff
<1> HIDE DEF extra
<1>7. /\ events' \in Seq(Event)
      /\ TimeOf("CPU", events') = TimeOf("CPU", events) - (IF type = "CPU" THEN extra ELSE 0)
      /\ TimeOf("IO", events') = TimeOf("IO", events) - (IF type = "IO" THEN extra ELSE 0)
  BY <1>1, <1>2, <1>4, <1>5, TimeOfShortened
<1> HIDE DEF type
<1>8. HistoryTypeOK' BY <1>1, <1>3, <1>4, <1>6, <1>7 DEF HistoryTypeOK
<1> QED BY <1>1, <1>6, <1>7, <1>8 DEF SumsMatchEvents

LEMMA DropSums ==
  ASSUME SumsMatchEvents, DropOldest
  PROVE  SumsMatchEvents'
<1> DEFINE d == Head(events).duration
           type == Head(events).type
<1>1. events \in Seq(Event) /\ runTime \in Nat /\ sleepTime \in Nat /\ trimming \in BOOLEAN
      /\ runTime = TimeOf("CPU", events) /\ sleepTime = TimeOf("IO", events)
  BY DEF SumsMatchEvents, HistoryTypeOK
<1>2. events # <<>> /\ events' = Tail(events)
  BY DEF DropOldest, TooLong
<1>3. /\ d \in Nat /\ type \in {"CPU", "IO"}
      /\ type = "CPU" => d <= runTime
      /\ type = "IO" => d <= sleepTime
  BY <1>2, HeadFits
<1>4. runTime' = runTime - TimeIn("CPU", Head(events))
      /\ sleepTime' = sleepTime - TimeIn("IO", Head(events)) /\ trimming' = trimming
  BY <1>1, <1>3 DEF DropOldest, TakeOff, TimeIn
<1>5. /\ Tail(events) \in Seq(Event)
      /\ TimeOf("CPU", events) = TimeIn("CPU", Head(events)) + TimeOf("CPU", Tail(events))
      /\ TimeOf("IO", events) = TimeIn("IO", Head(events)) + TimeOf("IO", Tail(events))
  BY <1>1, <1>2, TimeOfRest
<1>6. TimeOf("CPU", Tail(events)) \in Nat /\ TimeOf("IO", Tail(events)) \in Nat
  BY <1>5, TimeType
<1>7. TimeIn("CPU", Head(events)) \in Nat /\ TimeIn("IO", Head(events)) \in Nat
  BY <1>3 DEF TimeIn
<1>8. runTime' = TimeOf("CPU", events') /\ sleepTime' = TimeOf("IO", events')
  <2>1. runTime' = TimeOf("CPU", Tail(events)) BY <1>1, <1>4, <1>5, <1>6, <1>7
  <2>2. sleepTime' = TimeOf("IO", Tail(events)) BY <1>1, <1>4, <1>5, <1>6, <1>7
  <2> QED BY <1>2, <2>1, <2>2
<1>9. HistoryTypeOK' BY <1>1, <1>2, <1>4, <1>5, <1>6, <1>8 DEF HistoryTypeOK
<1> QED BY <1>8, <1>9 DEF SumsMatchEvents

LEMMA NextSums ==
  ASSUME SumsMatchEvents, [HistoryNext]_historyVars
  PROVE  SumsMatchEvents'
<1>1. ASSUME NEW type \in Types, NEW d \in Durations, AddEvent(type, d)
      PROVE  SumsMatchEvents'
  BY <1>1, AddSums
<1>2. CASE ShortenOldest BY <1>2, ShortenSums
<1>3. CASE DropOldest BY <1>3, DropSums
<1>4. CASE EventAdded BY <1>4 DEF EventAdded, SumsMatchEvents, HistoryTypeOK
<1>5. CASE UNCHANGED historyVars BY <1>5 DEF historyVars, SumsMatchEvents, HistoryTypeOK
<1> QED BY <1>1, <1>2, <1>3, <1>4, <1>5 DEF HistoryNext, Trim

\* run_time and sleep_time are what the events say, for any threshold and events
\* of any length.
THEOREM SumsAlwaysMatch == HistorySpec => []SumsMatchEvents
<1>1. SumsMatchEvents /\ [HistoryNext]_historyVars => SumsMatchEvents' BY NextSums
<1> QED BY <1>1, InitSums, PTL DEF HistorySpec

\* No chain that runs for longer than it sleeps is interactive.
THEOREM OnlySleepersAreAlwaysInteractive ==
  HistorySpec => []OnlySleepersAreInteractive
<1>1. SumsMatchEvents => OnlySleepersAreInteractive
  BY PenaltiesAreRight DEF SumsMatchEvents
<1>2. HistorySpec => []SumsMatchEvents BY SumsAlwaysMatch
<1> QED BY <1>1, <1>2, PTL

------------------------------------------------------------------------------
(* The window.                                                              *)

LEMMA SameSequence ==
  ASSUME NEW s \in Seq(Types), NEW t \in Seq(Types), Len(s) = Len(t),
         \A i \in 1 .. Len(s) : s[i] = t[i]
  PROVE  s = t
OBVIOUS

LEMMA Concatenated ==
  ASSUME NEW s \in Seq(Types), NEW t \in Seq(Types)
  PROVE  /\ s \o t \in Seq(Types)
         /\ Len(s) \in Nat /\ Len(t) \in Nat
         /\ Len(s \o t) = Len(s) + Len(t)
         /\ \A i \in 1 .. Len(s) : (s \o t)[i] = s[i]
         /\ \A i \in 1 .. Len(t) : (s \o t)[Len(s) + i] = t[i]
OBVIOUS

LEMMA ConcatenatedThree ==
  ASSUME NEW r \in Seq(Types), NEW s \in Seq(Types), NEW t \in Seq(Types)
  PROVE  (r \o s) \o t = r \o (s \o t)
OBVIOUS

\* The milliseconds of one event.
Block(e) == [j \in 1 .. e.duration |-> e.type]

LEMMA BlockType ==
  ASSUME NEW e \in Event
  PROVE  /\ Block(e) \in Seq(Types)
         /\ Len(Block(e)) = e.duration
         /\ e.duration \in Nat /\ e.type \in Types
<1>1. e.duration \in Nat /\ e.type \in Types BY DEF Event
<1> QED BY <1>1 DEF Block

\* g has the milliseconds of the first n events of seq.
Joins(g, seq, n) ==
  /\ g \in [0 .. n -> Seq(Types)]
  /\ g[0] = <<>>
  /\ \A i \in 1 .. n : g[i] = g[i - 1] \o Block(seq[i])

\* Those of all the events.
Flat(seq) ==
  LET flat[i \in 0 .. Len(seq)] ==
        IF i = 0 THEN <<>>
        ELSE flat[i - 1] \o [j \in 1 .. seq[i].duration |-> seq[i].type]
  IN flat[Len(seq)]

LEMMA FlatEvents == Milliseconds = Flat(events)
BY DEF Milliseconds, Flat

LEMMA JoinsExist ==
  ASSUME NEW seq \in Seq(Event)
  PROVE  \E g : Joins(g, seq, Len(seq))
<1> DEFINE n == Len(seq)
           S == {m \in Nat : m <= n => \E g : Joins(g, seq, m)}
<1>1. n \in Nat OBVIOUS
<1>2. 0 \in S
  <2>1. <<>> \in Seq(Types) OBVIOUS
  <2>2. Joins([i \in 0 .. 0 |-> <<>>], seq, 0) BY <2>1 DEF Joins
  <2> QED BY <2>2
<1>3. ASSUME NEW m \in Nat, m \in S PROVE m + 1 \in S
  <2> SUFFICES ASSUME m + 1 <= n PROVE \E g : Joins(g, seq, m + 1)
    OBVIOUS
  <2>1. PICK g : Joins(g, seq, m) BY <1>1, <1>3
  <2> DEFINE last == g[m] \o Block(seq[m + 1])
             h == [i \in 0 .. m + 1 |-> IF i <= m THEN g[i] ELSE last]
  <2>2. g[m] \in Seq(Types) BY <2>1 DEF Joins
  <2>3. last \in Seq(Types)
    <3>1. seq[m + 1] \in Event BY <1>1
    <3>2. Block(seq[m + 1]) \in Seq(Types) BY <3>1, BlockType
    <3> QED BY <2>2, <3>2, Concatenated
  <2> HIDE DEF last
  <2>4. h \in [0 .. m + 1 -> Seq(Types)] BY <2>1, <2>3 DEF Joins
  <2>5. h[0] = <<>> BY <2>1 DEF Joins
  <2>6. ASSUME NEW i \in 1 .. m + 1 PROVE h[i] = h[i - 1] \o Block(seq[i])
    <3>1. CASE i <= m
      <4>1. h[i] = g[i] /\ h[i - 1] = g[i - 1] /\ i \in 1 .. m BY <3>1
      <4> HIDE DEF h
      <4> QED BY <2>1, <4>1 DEF Joins
    <3>2. CASE i = m + 1
      <4>1. h[i] = last /\ h[i - 1] = g[m] BY <3>2
      <4> HIDE DEF h
      <4> QED BY <3>2, <4>1 DEF last
    <3> QED BY <3>1, <3>2
  <2> HIDE DEF h
  <2>7. Joins(h, seq, m + 1) BY <2>4, <2>5, <2>6 DEF Joins
  <2> QED BY <2>7
<1>4. Nat \subseteq S
  <2> HIDE DEF S
  <2> QED BY <1>2, <1>3, SetInduction
<1> QED BY <1>1, <1>4

LEMMA FlatIsLast ==
  ASSUME NEW seq \in Seq(Event)
  PROVE  \E g : Joins(g, seq, Len(seq)) /\ Flat(seq) = g[Len(seq)]
<1> DEFINE n == Len(seq)
           Joined(g) == g = [i \in 0 .. n |->
                 IF i = 0 THEN <<>>
                 ELSE g[i - 1] \o [j \in 1 .. seq[i].duration |-> seq[i].type]]
           s == CHOOSE g : Joined(g)
<1>1. PICK g : Joins(g, seq, n) BY JoinsExist
<1>2. n \in Nat OBVIOUS
<1>3. Joined(g)
  <2>1. \A i \in 1 .. n : g[i] = g[i - 1] \o [j \in 1 .. seq[i].duration |-> seq[i].type]
    BY <1>1 DEF Joins, Block
  <2>2. g \in [0 .. n -> Seq(Types)] /\ g[0] = <<>> BY <1>1 DEF Joins
  <2> HIDE DEF n
  <2>3. \A i \in 0 .. n : i # 0 => i \in 1 .. n BY <1>2
  <2> QED BY <2>1, <2>2, <2>3
<1>4. Joined(s) BY <1>3
<1>5. Flat(seq) = s[n] BY DEF Flat
<1> HIDE DEF s, n
<1>6. s[0] = <<>> /\ \A i \in 1 .. n : s[i] = s[i - 1] \o Block(seq[i])
  <2>1. 0 \in 0 .. n /\ \A i \in 1 .. n : i \in 0 .. n /\ i # 0 BY <1>2
  <2> QED BY <1>4, <2>1 DEF Block
<1> DEFINE S == {m \in Nat : m <= n => s[m] = g[m]}
<1>7. 0 \in S BY <1>1, <1>6 DEF Joins
<1>8. ASSUME NEW m \in Nat, m \in S PROVE m + 1 \in S
  <2> SUFFICES ASSUME m + 1 <= n PROVE s[m + 1] = g[m + 1]
    OBVIOUS
  <2>1. m + 1 \in 1 .. n /\ (m + 1) - 1 = m BY <1>2
  <2>2. g[m + 1] = g[m] \o Block(seq[m + 1]) BY <1>1, <2>1 DEF Joins
  <2>3. s[m + 1] = s[m] \o Block(seq[m + 1]) BY <1>6, <2>1
  <2>4. s[m] = g[m] BY <1>2, <1>8
  <2> QED BY <2>2, <2>3, <2>4
<1>9. Nat \subseteq S
  <2> HIDE DEF S
  <2> QED BY <1>7, <1>8, SetInduction
<1>10. s[n] = g[n] BY <1>2, <1>9
<1> QED BY <1>1, <1>5, <1>10 DEF n

LEMMA FlatType ==
  ASSUME NEW seq \in Seq(Event)
  PROVE  Flat(seq) \in Seq(Types)
<1>1. PICK g : Joins(g, seq, Len(seq)) /\ Flat(seq) = g[Len(seq)] BY FlatIsLast
<1>2. Len(seq) \in 0 .. Len(seq) OBVIOUS
<1> QED BY <1>1, <1>2 DEF Joins

LEMMA FlatOfNone == Flat(<<>>) = <<>>
<1>1. <<>> \in Seq(Event) /\ Len(<<>>) = 0 OBVIOUS
<1>2. PICK g : Joins(g, <<>>, 0) /\ Flat(<<>>) = g[0] BY <1>1, FlatIsLast
<1> QED BY <1>2 DEF Joins

LEMMA FlatOfAppended ==
  ASSUME NEW seq \in Seq(Event), NEW e \in Event
  PROVE  Flat(Append(seq, e)) = Flat(seq) \o Block(e)
<1> DEFINE n == Len(seq)
           longer == Append(seq, e)
<1>1. n \in Nat /\ longer \in Seq(Event) /\ Len(longer) = n + 1 /\ longer[n + 1] = e
      /\ \A i \in 1 .. n : longer[i] = seq[i]
  OBVIOUS
<1>2. PICK a : Joins(a, seq, n) /\ Flat(seq) = a[n] BY FlatIsLast
<1>3. PICK b : Joins(b, longer, n + 1) /\ Flat(longer) = b[n + 1] BY <1>1, FlatIsLast
<1> HIDE DEF n, longer
<1> DEFINE S == {m \in Nat : m <= n => b[m] = a[m]}
<1>4. 0 \in S BY <1>2, <1>3 DEF Joins
<1>5. ASSUME NEW m \in Nat, m \in S PROVE m + 1 \in S
  <2> SUFFICES ASSUME m + 1 <= n PROVE b[m + 1] = a[m + 1]
    OBVIOUS
  <2>1. m + 1 \in 1 .. n /\ m + 1 \in 1 .. n + 1 /\ (m + 1) - 1 = m BY <1>1
  <2>2. a[m + 1] = a[m] \o Block(seq[m + 1]) BY <1>2, <2>1 DEF Joins
  <2>3. b[m + 1] = b[m] \o Block(longer[m + 1]) BY <1>3, <2>1 DEF Joins
  <2>4. b[m] = a[m] BY <1>1, <1>5
  <2> QED BY <1>1, <2>1, <2>2, <2>3, <2>4
<1>6. Nat \subseteq S
  <2> HIDE DEF S
  <2> QED BY <1>4, <1>5, SetInduction
<1>7. b[n] = a[n] BY <1>1, <1>6
<1>8. n + 1 \in 1 .. n + 1 /\ (n + 1) - 1 = n BY <1>1
<1>9. b[n + 1] = b[n] \o Block(longer[n + 1]) BY <1>3, <1>8 DEF Joins
<1> QED BY <1>1, <1>2, <1>3, <1>7, <1>9 DEF longer

LEMMA FlatOfRest ==
  ASSUME NEW seq \in Seq(Event), seq # <<>>
  PROVE  Flat(seq) = Block(Head(seq)) \o Flat(Tail(seq))
<1> DEFINE rest == Tail(seq)
           n == Len(rest)
           first == Block(Head(seq))
<1>1. n \in Nat /\ rest \in Seq(Event) /\ Len(seq) = n + 1 /\ Head(seq) = seq[1]
      /\ Head(seq) \in Event /\ \A i \in 1 .. n : rest[i] = seq[i + 1]
  OBVIOUS
<1>2. PICK a : Joins(a, rest, n) /\ Flat(rest) = a[n] BY <1>1, FlatIsLast
<1>3. PICK b : Joins(b, seq, n + 1) /\ Flat(seq) = b[n + 1] BY <1>1, FlatIsLast
<1>4. first \in Seq(Types) BY <1>1, BlockType
<1> DEFINE S == {m \in Nat : m <= n => b[m + 1] = first \o a[m]}
<1> HIDE DEF n, rest
<1>5. 0 \in S
  <2>1. 1 \in 1 .. n + 1 /\ 1 - 1 = 0 BY <1>1
  <2>2. b[1] = b[0] \o Block(seq[1]) BY <1>3, <2>1 DEF Joins
  <2>3. b[0] = <<>> /\ a[0] = <<>> BY <1>2, <1>3 DEF Joins
  <2>4. b[1] = <<>> \o first BY <1>1, <2>2, <2>3
  <2> HIDE DEF first
  <2>5. <<>> \o first = first \o <<>> BY <1>4
  <2>6. b[0 + 1] = first \o a[0] BY <2>3, <2>4, <2>5
  <2> QED BY <2>6
<1> HIDE DEF first
<1>6. ASSUME NEW m \in Nat, m \in S PROVE m + 1 \in S
  <2> SUFFICES ASSUME m + 1 <= n PROVE b[m + 1 + 1] = first \o a[m + 1]
    OBVIOUS
  <2>1. /\ m + 1 \in 1 .. n /\ m + 1 + 1 \in 1 .. n + 1
        /\ (m + 1) - 1 = m /\ (m + 1 + 1) - 1 = m + 1 /\ m \in 0 .. n
    BY <1>1
  <2>2. a[m + 1] = a[m] \o Block(rest[m + 1]) BY <1>2, <2>1 DEF Joins
  <2>3. b[m + 1 + 1] = b[m + 1] \o Block(seq[m + 1 + 1]) BY <1>3, <2>1 DEF Joins
  <2>4. b[m + 1] = first \o a[m] BY <1>1, <1>6
  <2>5. rest[m + 1] = seq[m + 1 + 1] BY <1>1, <2>1
  <2>6. a[m] \in Seq(Types) BY <1>2, <2>1 DEF Joins
  <2>7. rest[m + 1] \in Event BY <1>1, <2>1
  <2>8. Block(rest[m + 1]) \in Seq(Types) BY <2>7, BlockType
  <2>9. (first \o a[m]) \o Block(rest[m + 1]) = first \o (a[m] \o Block(rest[m + 1]))
    BY <1>4, <2>6, <2>8, ConcatenatedThree
  <2> QED BY <2>2, <2>3, <2>4, <2>5, <2>9
<1>7. Nat \subseteq S
  <2> HIDE DEF S
  <2> QED BY <1>5, <1>6, SetInduction
<1>8. b[n + 1] = first \o a[n]
  <2>1. n \in S BY <1>1, <1>7
  <2> QED BY <1>1, <2>1
<1> QED BY <1>2, <1>3, <1>8 DEF rest, first

\* The history is as long as its events.
LEMMA FlatLength ==
  ASSUME NEW seq \in Seq(Event)
  PROVE  Len(Flat(seq)) = TimeOf("CPU", seq) + TimeOf("IO", seq)
<1> DEFINE n == Len(seq)
           f == TimesOf("CPU", seq)
           h == TimesOf("IO", seq)
<1>1. n \in Nat /\ f \in [0 .. n - 1 -> Int] /\ h \in [0 .. n - 1 -> Int] BY TimesType
<1>2. PICK g : Joins(g, seq, n) /\ Flat(seq) = g[n] BY FlatIsLast
<1>3. PICK a : Adds(a, f, n) /\ SumTo(f, n) = a[n] BY <1>1, SumIsLast
<1>4. PICK b : Adds(b, h, n) /\ SumTo(h, n) = b[n] BY <1>1, SumIsLast
<1>5. TimeOf("CPU", seq) = a[n] /\ TimeOf("IO", seq) = b[n] BY <1>3, <1>4, TimeIsSum
<1>6. ASSUME NEW m \in 0 .. n - 1
      PROVE  Len(Block(seq[m + 1])) = f[m] + h[m] /\ Block(seq[m + 1]) \in Seq(Types)
  <2>1. seq[m + 1] \in Event BY <1>1
  <2>2. seq[m + 1].duration \in Nat /\ seq[m + 1].type \in {"CPU", "IO"}
    BY <2>1 DEF Event, Types
  <2>3. f[m] = (IF seq[m + 1].type = "CPU" THEN seq[m + 1].duration ELSE 0)
    BY DEF TimesOf
  <2>4. h[m] = (IF seq[m + 1].type = "IO" THEN seq[m + 1].duration ELSE 0)
    BY DEF TimesOf
  <2>5. Len(Block(seq[m + 1])) = seq[m + 1].duration /\ Block(seq[m + 1]) \in Seq(Types)
    BY <2>1, BlockType
  <2> HIDE DEF f, h
  <2>6. CASE seq[m + 1].type = "CPU" BY <2>2, <2>3, <2>4, <2>5, <2>6
  <2>7. CASE seq[m + 1].type = "IO" BY <2>2, <2>3, <2>4, <2>5, <2>7
  <2> QED BY <2>2, <2>6, <2>7
<1> HIDE DEF n, f, h
<1> DEFINE S == {m \in Nat : m <= n => Len(g[m]) = a[m] + b[m]}
<1>7. 0 \in S BY <1>2, <1>3, <1>4 DEF Joins, Adds
<1>8. ASSUME NEW m \in Nat, m \in S PROVE m + 1 \in S
  <2> SUFFICES ASSUME m + 1 <= n PROVE Len(g[m + 1]) = a[m + 1] + b[m + 1]
    OBVIOUS
  <2>1. m + 1 \in 1 .. n /\ (m + 1) - 1 = m /\ m \in 0 .. n - 1 /\ m \in 0 .. n BY <1>1
  <2>2. g[m + 1] = g[m] \o Block(seq[m + 1]) /\ g[m] \in Seq(Types)
    BY <1>2, <2>1 DEF Joins
  <2>3. Len(g[m + 1]) = Len(g[m]) + (f[m] + h[m])
    <3>1. Len(Block(seq[m + 1])) = f[m] + h[m] /\ Block(seq[m + 1]) \in Seq(Types)
      BY <1>6, <2>1
    <3>2. Len(g[m] \o Block(seq[m + 1])) = Len(g[m]) + Len(Block(seq[m + 1]))
      BY <2>2, <3>1, Concatenated
    <3> QED BY <2>2, <3>1, <3>2
  <2>4. a[m + 1] = a[m] + f[m] /\ b[m + 1] = b[m] + h[m]
    BY <1>3, <1>4, <2>1 DEF Adds
  <2>5. a[m] \in Int /\ b[m] \in Int /\ f[m] \in Int /\ h[m] \in Int
    BY <1>1, <1>3, <1>4, <2>1 DEF Adds
  <2>6. Len(g[m]) = a[m] + b[m] BY <1>1, <1>8
  <2> QED BY <2>3, <2>4, <2>5, <2>6
<1>9. Nat \subseteq S
  <2> HIDE DEF S
  <2> QED BY <1>7, <1>8, SetInduction
<1> QED BY <1>1, <1>2, <1>5, <1>9

\* The last milliseconds of a sequence, as many as the threshold says.
LastOf(seq) ==
  IF Len(seq) <= Threshold THEN seq
  ELSE SubSeq(seq, Len(seq) - Threshold + 1, Len(seq))

LEMMA LastType ==
  ASSUME NEW s \in Seq(Types)
  PROVE  /\ LastOf(s) \in Seq(Types)
         /\ Len(s) \in Nat
         /\ Len(s) <= Threshold => LastOf(s) = s
         /\ Len(s) >= Threshold =>
               /\ Len(LastOf(s)) = Threshold
               /\ \A i \in 1 .. Threshold : LastOf(s)[i] = s[Len(s) - Threshold + i]
<1>1. Threshold \in Nat \ {0} BY HistorySizes
<1>2. Len(s) \in Nat OBVIOUS
<1>3. CASE Len(s) < Threshold
  <2>1. LastOf(s) = s BY <1>1, <1>2, <1>3 DEF LastOf
  <2> QED BY <1>1, <1>2, <1>3, <2>1
<1>4. CASE Len(s) = Threshold
  <2>1. LastOf(s) = s BY <1>1, <1>2, <1>4 DEF LastOf
  <2>2. \A i \in 1 .. Threshold : Len(s) - Threshold + i = i BY <1>1, <1>2, <1>4
  <2> QED BY <1>1, <1>2, <1>4, <2>1, <2>2
<1>5. CASE Len(s) > Threshold
  <2>1. LastOf(s) = SubSeq(s, Len(s) - Threshold + 1, Len(s)) BY <1>1, <1>2, <1>5 DEF LastOf
  <2>2. Len(s) - Threshold + 1 \in 1 .. Len(s) BY <1>1, <1>2, <1>5
  <2>3. LastOf(s) \in Seq(Types) BY <2>1, <2>2
  <2>4. Len(LastOf(s)) = Threshold BY <1>1, <1>2, <1>5, <2>1, <2>2
  <2>5. ASSUME NEW i \in 1 .. Threshold PROVE LastOf(s)[i] = s[Len(s) - Threshold + i]
    <3>1. i \in Int /\ (Len(s) - Threshold + 1) + i - 1 = Len(s) - Threshold + i
          /\ i \in 1 .. Len(s) - (Len(s) - Threshold + 1) + 1
      BY <1>1, <1>2, <1>5
    <3> QED BY <2>1, <2>2, <3>1, <1>2
  <2> QED BY <1>1, <1>2, <1>5, <2>3, <2>4, <2>5
<1> QED BY <1>1, <1>2, <1>3, <1>4, <1>5

\* What comes before the last milliseconds does not matter.
LEMMA LastOfSuffix ==
  ASSUME NEW s \in Seq(Types), NEW t \in Seq(Types), Len(t) >= Threshold
  PROVE  LastOf(s \o t) = LastOf(t)
<1>1. Threshold \in Nat BY HistorySizes
<1>2. /\ s \o t \in Seq(Types) /\ Len(s) \in Nat /\ Len(t) \in Nat
      /\ Len(s \o t) = Len(s) + Len(t)
      /\ \A i \in 1 .. Len(t) : (s \o t)[Len(s) + i] = t[i]
  BY Concatenated
<1> DEFINE whole == s \o t
<1> HIDE DEF whole
<1>3. /\ LastOf(t) \in Seq(Types) /\ Len(LastOf(t)) = Threshold
      /\ \A i \in 1 .. Threshold : LastOf(t)[i] = t[Len(t) - Threshold + i]
  BY LastType
<1>4. whole \in Seq(Types) /\ Len(whole) = Len(s) + Len(t) /\ Len(whole) >= Threshold
  BY <1>1, <1>2 DEF whole
<1>5. /\ LastOf(whole) \in Seq(Types) /\ Len(LastOf(whole)) = Threshold
      /\ \A i \in 1 .. Threshold : LastOf(whole)[i] = whole[Len(whole) - Threshold + i]
  BY <1>4, LastType
<1>6. ASSUME NEW i \in 1 .. Threshold PROVE LastOf(whole)[i] = LastOf(t)[i]
  <2>1. Len(t) - Threshold + i \in 1 .. Len(t)
        /\ Len(whole) - Threshold + i = Len(s) + (Len(t) - Threshold + i)
    BY <1>1, <1>2, <1>4
  <2>2. whole[Len(s) + (Len(t) - Threshold + i)] = t[Len(t) - Threshold + i]
    BY <1>2, <2>1 DEF whole
  <2> QED BY <1>3, <1>5, <2>1, <2>2
<1>7. LastOf(whole) = LastOf(t) BY <1>3, <1>5, <1>6, SameSequence
<1> QED BY <1>7 DEF whole

\* The last milliseconds after some more follow from those before.
LEMMA LastOfMore ==
  ASSUME NEW s \in Seq(Types), NEW t \in Seq(Types)
  PROVE  LastOf(LastOf(s) \o t) = LastOf(s \o t)
<1>1. Threshold \in Nat BY HistorySizes
<1>2. Len(s) \in Nat /\ Len(t) \in Nat /\ LastOf(s) \in Seq(Types) BY LastType
<1>3. CASE Len(s) <= Threshold BY <1>3, LastType
<1>4. CASE Len(s) > Threshold
  <2> DEFINE k == Len(s) - Threshold
             old == SubSeq(s, 1, k)
  <2>1. k \in 1 .. Len(s) BY <1>1, <1>2, <1>4
  <2>2. old \in Seq(Types) /\ Len(old) = k /\ \A i \in 1 .. k : old[i] = s[i]
    BY <1>2, <2>1
  <2>3. /\ Len(LastOf(s)) = Threshold
        /\ \A i \in 1 .. Threshold : LastOf(s)[i] = s[Len(s) - Threshold + i]
    BY <1>1, <1>2, <1>4, LastType
  <2> HIDE DEF old
  <2>4. /\ old \o LastOf(s) \in Seq(Types) /\ Len(old \o LastOf(s)) = k + Threshold
        /\ \A i \in 1 .. k : (old \o LastOf(s))[i] = old[i]
        /\ \A i \in 1 .. Threshold : (old \o LastOf(s))[k + i] = LastOf(s)[i]
    <3>1. /\ old \o LastOf(s) \in Seq(Types) /\ Len(old \o LastOf(s)) = Len(old) + Len(LastOf(s))
          /\ \A i \in 1 .. Len(old) : (old \o LastOf(s))[i] = old[i]
          /\ \A i \in 1 .. Len(LastOf(s)) : (old \o LastOf(s))[Len(old) + i] = LastOf(s)[i]
      BY <1>2, <2>2, Concatenated
    <3>2. Len(old) = k /\ Len(LastOf(s)) = Threshold BY <2>2, <2>3
    <3> QED BY <3>1, <3>2, Zenon
  <2> DEFINE again == old \o LastOf(s)
  <2>5. again = s
    <3>1. Len(again) = Len(s) BY <1>1, <1>2, <2>4
    <3>2. ASSUME NEW i \in 1 .. Len(s) PROVE again[i] = s[i]
      <4>1. CASE i <= k
        <5>1. i \in 1 .. k BY <4>1, <2>1
        <5>2. again[i] = old[i] BY <2>4, <5>1
        <5>3. old[i] = s[i] BY <2>2, <5>1
        <5> QED BY <5>2, <5>3
      <4>2. CASE i > k
        <5>1. i - k \in 1 .. Threshold /\ k + (i - k) = i
              /\ Len(s) - Threshold + (i - k) = i
          BY <4>2, <2>1, <1>1, <1>2
        <5>2. again[k + (i - k)] = LastOf(s)[i - k] BY <2>4, <5>1
        <5>3. LastOf(s)[i - k] = s[Len(s) - Threshold + (i - k)] BY <2>3, <5>1
        <5> QED BY <5>1, <5>2, <5>3
      <4>3. i <= k \/ i > k BY <1>1, <1>2
      <4> QED BY <4>1, <4>2, <4>3
    <3>3. again \in Seq(Types) BY <2>4
    <3> HIDE DEF again
    <3> QED BY <3>1, <3>2, <3>3, SameSequence
  <2>6. s \o t = old \o (LastOf(s) \o t)
    <3>1. again \o t = old \o (LastOf(s) \o t) BY <1>2, <2>2, ConcatenatedThree, Zenon
    <3> HIDE DEF again
    <3> QED BY <2>5, <3>1
  <2>7. LastOf(s) \o t \in Seq(Types) /\ Len(LastOf(s) \o t) >= Threshold
    <3>1. LastOf(s) \o t \in Seq(Types) /\ Len(LastOf(s) \o t) = Len(LastOf(s)) + Len(t)
      BY <1>2, Concatenated
    <3> QED BY <1>1, <1>2, <2>3, <3>1
  <2> DEFINE tail == LastOf(s) \o t
  <2> HIDE DEF tail
  <2>8. LastOf(old \o tail) = LastOf(tail)
    BY <2>2, <2>7, LastOfSuffix DEF tail
  <2> QED BY <2>6, <2>8 DEF tail
<1> QED BY <1>1, <1>2, <1>3, <1>4

\* The window that the events stand for.
LEMMA WindowIsLast ==
  (IF Len(Milliseconds) <= Threshold THEN Milliseconds
   ELSE SubSeq(Milliseconds, Len(Milliseconds) - Threshold + 1, Len(Milliseconds)))
  = LastOf(Flat(events))
BY FlatEvents DEF LastOf

LEMMA AddSlides ==
  ASSUME SumsMatchEvents,
         NEW type \in Types, NEW d \in Durations, AddEvent(type, d)
  PROVE  LastOf(Flat(events')) = LastOf(LastOf(Flat(events)) \o [i \in 1 .. d |-> type])
<1> DEFINE e == [type |-> type, duration |-> d]
<1>1. d \in Nat BY HistorySizes
<1>2. e \in Event /\ Block(e) = [i \in 1 .. d |-> type] BY <1>1 DEF Event, Block
<1>3. events \in Seq(Event) BY DEF SumsMatchEvents, HistoryTypeOK
<1>4. events' = Append(events, e) BY DEF AddEvent
<1> HIDE DEF e
<1>5. Flat(events') = Flat(events) \o Block(e) BY <1>2, <1>3, <1>4, FlatOfAppended
<1>6. Flat(events) \in Seq(Types) /\ Block(e) \in Seq(Types) BY <1>2, <1>3, FlatType, BlockType
<1>7. LastOf(LastOf(Flat(events)) \o Block(e)) = LastOf(Flat(events) \o Block(e))
  BY <1>6, LastOfMore
<1> QED BY <1>2, <1>5, <1>7

\* Taking time off the oldest event takes what is before the last milliseconds.
LEMMA ShortenKeeps ==
  ASSUME SumsMatchEvents, ShortenOldest
  PROVE  LastOf(Flat(events')) = LastOf(Flat(events))
<1> DEFINE extra == Total - Threshold
           oldest == Head(events)
           rest == Tail(events)
           gone == [type |-> oldest.type, duration |-> extra]
           left == [oldest EXCEPT !.duration = @ - extra]
<1>1. SumsMatchEvents' BY ShortenSums
<1>2. /\ events \in Seq(Event) /\ events' \in Seq(Event)
      /\ runTime \in Nat /\ sleepTime \in Nat /\ runTime' \in Nat /\ sleepTime' \in Nat
      /\ runTime' = TimeOf("CPU", events') /\ sleepTime' = TimeOf("IO", events')
  BY <1>1 DEF SumsMatchEvents, HistoryTypeOK
<1>3. events # <<>> /\ Total > Threshold /\ Total - oldest.duration < Threshold
  BY DEF ShortenOldest, TooLong
<1>4. oldest \in Event /\ oldest.duration \in Nat /\ oldest.type \in {"CPU", "IO"}
  BY <1>3, HeadFits
<1>5. extra \in Nat /\ extra <= oldest.duration /\ Threshold \in Nat
  BY <1>2, <1>3, <1>4, HistorySizes DEF Total
<1>6. oldest.duration - extra \in Nat BY <1>4, <1>5
<1>7. /\ gone \in Event /\ gone.type = oldest.type /\ gone.duration = extra
      /\ left \in Event /\ left.type = oldest.type /\ left.duration = oldest.duration - extra
  BY <1>4, <1>5, <1>6 DEF Event, Types
<1>8. events' # <<>> /\ Head(events') = left /\ Tail(events') = rest
  <2>1. events' = [events EXCEPT ![1].duration = @ - extra] BY DEF ShortenOldest
  <2>2. Len(events) \in Nat /\ 1 \in 1 .. Len(events) /\ oldest = events[1] BY <1>2, <1>3
  <2>3. events'[1] = left /\ Len(events') = Len(events)
        /\ \A i \in 2 .. Len(events) : events'[i] = events[i]
    BY <1>2, <2>1, <2>2
  <2> HIDE DEF left, oldest
  <2> QED BY <1>2, <2>2, <2>3
<1> HIDE DEF gone, left, oldest, rest, extra
<1>9. Flat(events') = Block(left) \o Flat(rest) BY <1>2, <1>8, FlatOfRest
<1>10. Flat(events) = Block(oldest) \o Flat(rest) BY <1>2, <1>3, FlatOfRest DEF oldest, rest
<1>11. rest \in Seq(Event) BY <1>2, <1>3, TimeOfRest DEF rest
<1>12. /\ Flat(rest) \in Seq(Types) /\ Block(gone) \in Seq(Types) /\ Block(left) \in Seq(Types)
       /\ Block(oldest) \in Seq(Types) /\ Len(Block(oldest)) = oldest.duration
       /\ Len(Block(gone)) = extra /\ Len(Block(left)) = oldest.duration - extra
  BY <1>4, <1>7, <1>11, FlatType, BlockType
<1>13. Block(oldest) = Block(gone) \o Block(left)
  <2> DEFINE both == Block(gone) \o Block(left)
  <2>1. /\ both \in Seq(Types) /\ Len(both) = extra + (oldest.duration - extra)
        /\ \A i \in 1 .. extra : both[i] = Block(gone)[i]
        /\ \A i \in 1 .. oldest.duration - extra : both[extra + i] = Block(left)[i]
    <3>1. /\ both \in Seq(Types) /\ Len(both) = Len(Block(gone)) + Len(Block(left))
          /\ \A i \in 1 .. Len(Block(gone)) : both[i] = Block(gone)[i]
          /\ \A i \in 1 .. Len(Block(left)) : both[Len(Block(gone)) + i] = Block(left)[i]
      BY <1>12, Concatenated
    <3> HIDE DEF both
    <3> QED BY <1>12, <3>1, Zenon
  <2> HIDE DEF both
  <2>2. Len(both) = Len(Block(oldest)) BY <1>4, <1>5, <1>12, <2>1
  <2>3. ASSUME NEW i \in 1 .. Len(both) PROVE both[i] = Block(oldest)[i]
    <3>1. i \in 1 .. oldest.duration BY <2>2, <1>12
    <3>2. Block(oldest)[i] = oldest.type BY <3>1 DEF Block
    <3>3. CASE i <= extra
      <4>1. i \in 1 .. extra BY <3>1, <3>3, <1>5
      <4>2. Block(gone)[i] = gone.type BY <1>7, <4>1 DEF Block
      <4> QED BY <1>7, <2>1, <3>2, <4>1, <4>2
    <3>4. CASE i > extra
      <4>1. i - extra \in 1 .. oldest.duration - extra /\ extra + (i - extra) = i
        BY <3>1, <3>4, <1>4, <1>5
      <4>2. Block(left)[i - extra] = left.type BY <1>7, <4>1 DEF Block
      <4> QED BY <1>7, <2>1, <3>2, <4>1, <4>2
    <3> QED BY <3>1, <3>3, <3>4, <1>5, <1>4
  <2>4. both = Block(oldest) BY <1>12, <2>1, <2>2, <2>3, SameSequence
  <2> QED BY <2>4 DEF both
<1>14. Flat(events) = Block(gone) \o Flat(events')
  <2>1. (Block(gone) \o Block(left)) \o Flat(rest) = Block(gone) \o (Block(left) \o Flat(rest))
    BY <1>12, ConcatenatedThree
  <2> QED BY <1>9, <1>10, <1>13, <2>1
<1>15. Len(Flat(events')) >= Threshold
  <2>1. Len(Flat(events')) = runTime' + sleepTime' BY <1>2, FlatLength
  <2>2. CASE oldest.type = "CPU"
    <3>1. runTime' = runTime - extra /\ sleepTime' = sleepTime
      BY <2>2 DEF ShortenOldest, TakeOff, extra, oldest
    <3> QED BY <1>2, <1>5, <2>1, <3>1 DEF extra, Total
  <2>3. CASE oldest.type = "IO"
    <3>1. runTime' = runTime /\ sleepTime' = sleepTime - extra
      BY <2>3 DEF ShortenOldest, TakeOff, extra, oldest
    <3> QED BY <1>2, <1>5, <2>1, <3>1 DEF extra, Total
  <2> QED BY <1>4, <2>2, <2>3
<1>16. Flat(events') \in Seq(Types) BY <1>2, FlatType
<1> QED BY <1>12, <1>14, <1>15, <1>16, LastOfSuffix

LEMMA DropKeeps ==
  ASSUME SumsMatchEvents, DropOldest
  PROVE  LastOf(Flat(events')) = LastOf(Flat(events))
<1>1. SumsMatchEvents' BY DropSums
<1>2. /\ events \in Seq(Event) /\ events' \in Seq(Event)
      /\ runTime \in Nat /\ sleepTime \in Nat
      /\ runTime' = TimeOf("CPU", events') /\ sleepTime' = TimeOf("IO", events')
  BY <1>1 DEF SumsMatchEvents, HistoryTypeOK
<1>3. events # <<>> /\ events' = Tail(events) /\ Total - Head(events).duration >= Threshold
  BY DEF DropOldest, TooLong
<1>4. Head(events) \in Event /\ Head(events).duration \in Nat /\ Head(events).type \in {"CPU", "IO"}
  BY <1>3, HeadFits
<1>5. Flat(events) = Block(Head(events)) \o Flat(events') BY <1>2, <1>3, FlatOfRest
<1>6. Block(Head(events)) \in Seq(Types) /\ Flat(events') \in Seq(Types)
  BY <1>2, <1>4, BlockType, FlatType
<1>7. Len(Flat(events')) >= Threshold
  <2>1. Len(Flat(events')) = runTime' + sleepTime' BY <1>2, FlatLength
  <2>2. CASE Head(events).type = "CPU"
    <3>1. runTime' = runTime - Head(events).duration /\ sleepTime' = sleepTime
      BY <2>2 DEF DropOldest, TakeOff
    <3> QED BY <1>2, <1>3, <1>4, <2>1, <3>1, HistorySizes DEF Total
  <2>3. CASE Head(events).type = "IO"
    <3>1. runTime' = runTime /\ sleepTime' = sleepTime - Head(events).duration
      BY <2>3 DEF DropOldest, TakeOff
    <3> QED BY <1>2, <1>3, <1>4, <2>1, <3>1, HistorySizes DEF Total
  <2> QED BY <1>4, <2>2, <2>3
<1> QED BY <1>5, <1>6, <1>7, LastOfSuffix

\* The history is the window of the last milliseconds, for any threshold: each
\* step of addEvent is one of SlidingWindow or leaves the window alone.
THEOREM HistoryImplementsWindow == HistorySpec => ImplementsWindow
<1> DEFINE window == IF Len(Milliseconds) <= Threshold THEN Milliseconds
                     ELSE SubSeq(Milliseconds, Len(Milliseconds) - Threshold + 1,
                                 Len(Milliseconds))
<1>1. HistoryInit => Window!WindowInit
  <2> SUFFICES ASSUME HistoryInit PROVE window = <<>>
    BY DEF Window!WindowInit
  <2>1. events = <<>> BY DEF HistoryInit
  <2>2. Flat(events) = <<>> BY <2>1, FlatOfNone
  <2>3. <<>> \in Seq(Types) /\ Len(<<>>) = 0 /\ 0 <= Threshold BY HistorySizes
  <2>4. LastOf(<<>>) = <<>> BY <2>3, LastType
  <2> QED BY <2>2, <2>4, WindowIsLast
<1>2. SumsMatchEvents /\ [HistoryNext]_historyVars => [Window!WindowNext]_window
  <2> SUFFICES ASSUME SumsMatchEvents, [HistoryNext]_historyVars
               PROVE  Window!WindowNext \/ window' = window
    OBVIOUS
  <2>1. window = LastOf(Flat(events)) BY WindowIsLast
  <2>2. window' = LastOf(Flat(events'))
    <3>1. Milliseconds' = Flat(events') BY DEF Milliseconds, Flat
    <3> QED BY <3>1 DEF LastOf
  <2> HIDE DEF window
  <2>3. ASSUME NEW type \in Types, NEW d \in Durations, AddEvent(type, d)
        PROVE  Window!WindowNext
    <3>1. window' = LastOf(window \o [i \in 1 .. d |-> type])
      BY <2>1, <2>2, <2>3, AddSlides
    <3>2. Window!Spend(type, d)
      BY <3>1 DEF Window!Spend, Window!Latest, LastOf, window
    <3> QED BY <3>2 DEF Window!WindowNext
  <2>4. CASE ShortenOldest BY <2>1, <2>2, <2>4, ShortenKeeps
  <2>5. CASE DropOldest BY <2>1, <2>2, <2>5, DropKeeps
  <2>6. CASE EventAdded \/ UNCHANGED historyVars
    BY <2>1, <2>2, <2>6 DEF EventAdded, historyVars
  <2> QED BY <2>3, <2>4, <2>5, <2>6 DEF HistoryNext, Trim
<1>3. HistorySpec => []SumsMatchEvents BY SumsAlwaysMatch
<1> QED BY <1>1, <1>2, <1>3, PTL DEF HistorySpec, ImplementsWindow, Window!WindowSpec

------------------------------------------------------------------------------
(* Chains of file tasks: the inductive invariant.                           *)

\* The steps that are linked into the chain: not the fork of cpu_task that the
\* last turn of the loop leaves.
Reached == Steps \ {LastStep - 1}

\* What comes after a step of the chain, and how many steps come before it.
After(i) == IF i = LastStep - 2 THEN LastStep ELSE i + 1
Link(i) == IF i = LastStep THEN NoTask ELSE Main(After(i))
Before(i) == IF i = LastStep THEN LastStep - 1 ELSE i

Live(c) == place[c] \in {"queued", "ring", "complete"}

\* Only reading and writing are done in two parts, the second one in the ring.
StepInv(c) ==
  /\ current[c].step \in Reached
  /\ current[c].async => KindOf(current[c].step) \in {"read", "write"}
  /\ place[c] \in {"ring", "complete"} => current[c].async

\* The part of the chain that is still to be executed is linked as it should be.
LinksInv(c) ==
  /\ next[c][current[c]] = Link(current[c].step)
  /\ \A i \in Reached : i > current[c].step => next[c][Main(i)] = Link(i)

WorkLogged(c) == place[c] = "complete" \/ (place[c] = "queued" /\ current[c].async)

\* The log has the steps before the current one, and that one if it is done.
LogInv(c) ==
  /\ \A j \in 1 .. Len(log[c]) : log[c][j] = Intended[j]
  /\ Live(c) =>
        Len(log[c]) = Before(current[c].step) + (IF WorkLogged(c) THEN 1 ELSE 0)
  /\ place[c] = "finished" => Len(log[c]) = LastStep
  /\ place[c] = "failed" => Len(log[c]) \in {Before(current[c].step), Before(current[c].step) + 1}

\* Computing hands on the input of the write after it.
InputInv(c) ==
  Live(c) => input[c] = CASE current[c].step = 0 -> "openInput"
                          [] current[c].step = 3 -> "openInputExtension"
                          [] OTHER               -> "fileInput"

\* The files of a chain.
FilesOf(c) == {<<c, "in">>, <<c, "out">>}
Side(i) == IF i < 3 THEN "in" ELSE "out"
Holds(i) == i \in {1, 2} \/ i >= FirstWrite

\* A chain has the file open that its steps are about, by the descriptor that
\* its FileTaskInput has, and no other one.
FdInv(c) ==
  /\ Live(c) /\ Holds(current[c].step) =>
        /\ fileFd[c] \in Fds
        /\ owner[fileFd[c]] = <<c, Side(current[c].step)>>
        /\ \A f \in Fds : owner[f] \in FilesOf(c) => f = fileFd[c]
  /\ (Live(c) /\ ~Holds(current[c].step)) \/ place[c] = "finished" =>
        \A f \in Fds : owner[f] \notin FilesOf(c)
  /\ \A f, g \in Fds : owner[f] \in FilesOf(c) /\ owner[g] \in FilesOf(c) => f = g

RingInv(c) == place[c] \in {"ring", "complete"} => ringFd[c] = fileFd[c]

\* The iovecs hold the file once it was read.
BuffersInv(c) == Len(log[c]) >= 2 => buffers[c] \/ FileNo[c] \in short

\* Once a chain has written, the output is a copy, or another chain has emptied
\* it and is about to write it.
ContentInv(c) ==
  Len(log[c]) > FirstWrite =>
      \/ copied[FileNo[c]]
      \/ FileNo[c] \in short
      \/ \E d \in Chains \ {c} : FileNo[d] = FileNo[c] /\ Len(log[d]) = FirstWrite

\* What is true of a chain whatever the other chains do.
OwnInv(c) ==
  /\ StepInv(c) /\ LinksInv(c) /\ LogInv(c) /\ InputInv(c)
  /\ FdInv(c) /\ RingInv(c) /\ BuffersInv(c)

IoInv == ChainTypeOK /\ \A c \in Chains : OwnInv(c) /\ ContentInv(c)

------------------------------------------------------------------------------
(* The steps of a chain.                                                    *)

LEMMA ChainSizes ==
  /\ Length \in Nat \ {0} /\ LastStep \in Nat /\ LastStep = 4 + 2 * Length
  /\ FirstWrite = 4 /\ Fds \subseteq Nat /\ NoFd \notin Fds
  /\ FileNo \in [Chains -> Nat] /\ NoTask \notin Task
<1>1. Length \in Nat \ {0} /\ LastStep = 4 + 2 * Length /\ LastStep \in Nat
  BY ChainAssumption DEF LastStep, FirstWrite
<1>2. Steps \subseteq Nat BY <1>1 DEF Steps
<1>3. NoTask \notin [step : Nat, async : BOOLEAN] BY ChainAssumption
<1>4. NoTask \notin Task BY <1>2, <1>3 DEF Task
<1> QED BY <1>1, <1>4, ChainAssumption DEF FirstWrite

\* What the tasks of a chain do: the even steps of the loop write, the odd ones
\* compute.
LEMMA Kinds ==
  /\ KindOf(0) = "open" /\ KindOf(1) = "read" /\ KindOf(2) = "close" /\ KindOf(3) = "open"
  /\ KindOf(LastStep) = "close"
  /\ \A i \in LoopSteps : KindOf(i) = IF (i - 4) % 2 = 0 THEN "write" ELSE "cpu"
<1>1. Length \in Nat \ {0} /\ LastStep = 4 + 2 * Length /\ FirstWrite = 4 BY ChainSizes
<1>2. \A i \in LoopSteps : i \in Nat /\ i >= 4 /\ i < LastStep BY <1>1 DEF LoopSteps
<1>3. \A i \in {0, 1, 2, 3, LastStep} : i \notin LoopSteps BY <1>1, <1>2
<1>4. ASSUME NEW i \in LoopSteps PROVE (i - 4) % 2 \in {0, 1}
  <2> DEFINE k == i - 4
  <2>1. k \in Int BY <1>2
  <2> HIDE DEF k
  <2>2. k % 2 \in {0, 1} BY <2>1
  <2> QED BY <2>2 DEF k
<1>5. ASSUME NEW i \in LoopSteps
      PROVE  KindOf(i) = IF (i - 4) % 2 = 0 THEN "write" ELSE "cpu"
  <2>1. i # 0 /\ i # 1 /\ i # 2 /\ i # 3 /\ i # LastStep BY <1>1, <1>2
  <2>2. CASE (i - 4) % 2 = 0 BY <1>1, <2>1, <2>2 DEF KindOf
  <2>3. CASE (i - 4) % 2 = 1 BY <1>1, <2>1, <2>3 DEF KindOf
  <2> QED BY <1>4, <2>2, <2>3
<1>6. LastStep \notin {0, 1, 2, 3} BY <1>1
<1>7. KindOf(0) = "open" /\ KindOf(1) = "read" /\ KindOf(2) = "close" /\ KindOf(3) = "open"
  <2>1. 0 \notin LoopSteps /\ 1 \notin LoopSteps /\ 2 \notin LoopSteps /\ 3 \notin LoopSteps
    BY <1>3
  <2> QED BY <1>6, <2>1 DEF KindOf
<1>8. KindOf(LastStep) = "close"
  <2>1. LastStep \notin LoopSteps BY <1>3
  <2> QED BY <1>6, <2>1 DEF KindOf
<1> QED BY <1>5, <1>7, <1>8

\* Which steps do what.
LEMMA StepsOfKinds ==
  ASSUME NEW i \in Steps
  PROVE  /\ KindOf(i) = "open" => i \in {0, 3}
         /\ KindOf(i) = "read" => i = 1
         /\ KindOf(i) = "close" => i \in {2, LastStep}
         /\ KindOf(i) \in {"write", "cpu"} => i \in LoopSteps
         /\ KindOf(i) \in {"open", "read", "close", "write", "cpu"}
<1>1. i \in {0, 1, 2, 3, LastStep} \/ i \in LoopSteps
  BY ChainSizes DEF Steps, LoopSteps
<1>2. CASE i \in LoopSteps BY <1>2, Kinds
<1> QED BY <1>1, <1>2, Kinds

LEMMA ReachedSteps ==
  /\ Reached \subseteq Steps
  /\ {0, 1, 2, 3, 4, LastStep} \subseteq Reached
  /\ \A i \in Reached : i \in Nat /\ i <= LastStep /\ i # LastStep - 1
BY ChainSizes DEF Reached, Steps

\* Every step but the last one is followed by another one, which is later, and
\* the one before it in what the chain is for.
LEMMA AfterIsReached ==
  ASSUME NEW i \in Reached, i # LastStep
  PROVE  /\ After(i) \in Reached
         /\ After(i) > i /\ After(i) \in Nat
         /\ Before(i) = i /\ Before(After(i)) = i + 1
         /\ Link(i) = Main(After(i)) /\ Main(After(i)) # NoTask
<1>1. i \in Nat /\ i < LastStep - 1 /\ LastStep \in Nat BY ReachedSteps, ChainSizes
<1>2. After(i) \in Reached /\ After(i) > i /\ After(i) \in Nat /\ Before(After(i)) = i + 1
  BY <1>1 DEF After, Reached, Steps, Before
<1>3. Main(After(i)) \in Task BY <1>2 DEF Main, Task, Reached
<1> QED BY <1>1, <1>2, <1>3, ChainSizes DEF Link, Before

Work == {"open", "read", "write", "cpu", "close"}

LEMMA TwoWorks ==
  ASSUME NEW s \in Seq(Work), NEW t \in Seq(Work)
  PROVE  /\ s \o t \in Seq(Work)
         /\ Len(s) \in Nat /\ Len(t) \in Nat
         /\ Len(s \o t) = Len(s) + Len(t)
         /\ \A i \in 1 .. Len(s) : (s \o t)[i] = s[i]
         /\ \A i \in 1 .. Len(t) : (s \o t)[Len(s) + i] = t[i]
OBVIOUS

\* What is intended are the steps that are reached, in their order.
LEMMA IntendedSteps ==
  /\ Intended \in Seq(Work)
  /\ Len(Intended) = LastStep
  /\ \A i \in Reached : Intended[Before(i) + 1] = KindOf(i)
<1> DEFINE n == 2 * Length - 1
           head == <<"open", "read", "close", "open">>
           last == <<"close">>
           mid == [i \in 1 .. n |-> IF i % 2 = 1 THEN "write" ELSE "cpu"]
<1>1. n \in Nat /\ n + 5 = LastStep BY ChainSizes
<1>2. head \in Seq(Work) /\ Len(head) = 4 BY DEF Work
<1>3. mid \in Seq(Work) /\ Len(mid) = n
  <2>1. \A i \in 1 .. n : (IF i % 2 = 1 THEN "write" ELSE "cpu") \in Work BY DEF Work
  <2> HIDE DEF n
  <2> QED BY <1>1, <2>1
<1>4. last \in Seq(Work) /\ Len(last) = 1 /\ last[1] = "close" BY DEF Work
<1>5. Intended = head \o mid \o last BY DEF Intended
<1>6. \A i \in 1 .. n : mid[i] = IF i % 2 = 1 THEN "write" ELSE "cpu" OBVIOUS
<1>7. head[1] = "open" /\ head[2] = "read" /\ head[3] = "close" /\ head[4] = "open" OBVIOUS
<1> HIDE DEF n, head, last, mid
<1> DEFINE most == head \o mid
<1>8. most \in Seq(Work) /\ Len(most) = 4 + n /\ (\A i \in 1 .. 4 : most[i] = head[i])
      /\ (\A i \in 1 .. n : most[4 + i] = mid[i])
  <2>1. /\ most \in Seq(Work) /\ Len(most) = Len(head) + Len(mid)
        /\ \A i \in 1 .. Len(head) : most[i] = head[i]
        /\ \A i \in 1 .. Len(mid) : most[Len(head) + i] = mid[i]
    BY <1>2, <1>3, TwoWorks
  <2> QED BY <1>2, <1>3, <2>1
<1>9. Intended = most \o last BY <1>5
<1> HIDE DEF most
<1>10. /\ Intended \in Seq(Work) /\ Len(Intended) = n + 5
       /\ Intended[n + 5] = "close"
       /\ \A i \in 1 .. n + 4 : Intended[i] = most[i]
  <2>1. /\ Intended \in Seq(Work) /\ Len(Intended) = Len(most) + Len(last)
        /\ \A i \in 1 .. Len(most) : Intended[i] = most[i]
        /\ \A i \in 1 .. Len(last) : Intended[Len(most) + i] = last[i]
    BY <1>4, <1>8, <1>9, TwoWorks
  <2>2. 1 \in 1 .. Len(last) /\ Len(most) + 1 = n + 5 BY <1>1, <1>4, <1>8
  <2> QED BY <1>1, <1>4, <1>8, <2>1, <2>2
<1>11. ASSUME NEW i \in Reached PROVE Intended[Before(i) + 1] = KindOf(i)
  <2>1. CASE i = LastStep
    <3>1. Before(i) + 1 = n + 5 BY <1>1, <2>1, ChainSizes DEF Before
    <3> QED BY <1>10, <2>1, <3>1, Kinds
  <2>2. CASE i \in {0, 1, 2, 3}
    <3>1. Before(i) = i BY <2>2, ChainSizes DEF Before
    <3>2. i + 1 \in 1 .. 4 /\ i + 1 \in 1 .. n + 4 BY <1>1, <2>2
    <3>3. Intended[i + 1] = head[i + 1] BY <1>8, <1>10, <3>2
    <3> QED BY <1>7, <2>2, <3>1, <3>3, Kinds
  <2>3. CASE i \in LoopSteps
    <3>1. i \in Nat /\ i >= 4 /\ i < LastStep - 1 /\ Before(i) = i
      BY <2>3, ReachedSteps, ChainSizes DEF Before, LoopSteps
    <3>2. i - 3 \in 1 .. n /\ i + 1 = 4 + (i - 3) /\ i + 1 \in 1 .. n + 4 BY <1>1, <3>1
    <3>3. Intended[i + 1] = mid[i - 3] BY <1>8, <1>10, <3>2
    <3>4. (i - 3) % 2 = 1 <=> (i - 4) % 2 = 0 BY <3>1
    <3> QED BY <1>6, <2>3, <3>1, <3>2, <3>3, <3>4, Kinds
  <2> QED BY <2>1, <2>2, <2>3, ReachedSteps, ChainSizes DEF LoopSteps
<1> QED BY <1>1, <1>10, <1>11

------------------------------------------------------------------------------
(* How main links the tasks of a chain.                                     *)

\* g has the links after each of the first n turns of the loop.
Turns(g, n) ==
  /\ g[0] = Head4
  /\ \A i \in 1 .. n : g[i] = OneTurn(g[i - 1], FirstWrite + 2 * (i - 1))

\* Some links have been made up to a task.
LinkedUpTo(links, i) ==
  /\ links \in [Task -> Task \cup {NoTask}]
  /\ \A j \in 0 .. i : links[Main(j)] = Main(j + 1)

LEMMA StepsAreTasks ==
  /\ \A i \in Steps : Main(i) \in Task /\ Main(i) # NoTask /\ AsyncOf(i) \in Task
  /\ \A i, j \in Steps : i # j => Main(i) # Main(j)
  /\ \A i, j \in Steps : Main(i) # AsyncOf(j)
<1>1. ASSUME NEW i \in Steps PROVE Main(i) \in Task /\ Main(i) # NoTask /\ AsyncOf(i) \in Task
  <2>1. Main(i) \in Task /\ AsyncOf(i) \in Task BY DEF Main, AsyncOf, Task
  <2> QED BY <2>1, ChainSizes
<1>2. ASSUME NEW i \in Steps, NEW j \in Steps, Main(i) = Main(j) PROVE i = j
  <2>1. Main(i).step = i /\ Main(j).step = j BY DEF Main
  <2> QED BY <1>2, <2>1
<1>3. ASSUME NEW i \in Steps, NEW j \in Steps PROVE Main(i) # AsyncOf(j)
  <2>1. Main(i).async = FALSE /\ AsyncOf(j).async = TRUE BY DEF Main, AsyncOf
  <2> QED BY <2>1
<1> QED BY <1>1, <1>2, <1>3

LEMMA HeadLinks == LinkedUpTo(Head4, 3)
<1>1. \A t \in Task : t.step \in Steps /\ t.async \in BOOLEAN BY DEF Task
<1>2. FirstWrite = 4 /\ \A i \in 0 .. 4 : i \in Steps BY ChainSizes DEF Steps
<1>3. ASSUME NEW t \in Task
      PROVE  (IF ~t.async /\ t.step < FirstWrite THEN Main(t.step + 1) ELSE NoTask)
                \in Task \cup {NoTask}
  <2> SUFFICES ASSUME t.step < FirstWrite PROVE Main(t.step + 1) \in Task
    OBVIOUS
  <2>1. t.step \in Steps /\ t.step < 4 BY <1>1, <1>2
  <2>2. t.step + 1 \in Steps BY <2>1, ChainSizes DEF Steps
  <2> QED BY <2>2, StepsAreTasks
<1>4. Head4 \in [Task -> Task \cup {NoTask}] BY <1>3 DEF Head4
<1>5. ASSUME NEW j \in 0 .. 3 PROVE Head4[Main(j)] = Main(j + 1)
  <2>1. j \in Steps /\ j < FirstWrite BY <1>2
  <2>2. Main(j) \in Task BY <2>1, StepsAreTasks
  <2>3. Main(j).step = j /\ ~Main(j).async BY DEF Main
  <2> QED BY <2>1, <2>2, <2>3 DEF Head4
<1> QED BY <1>4, <1>5 DEF LinkedUpTo

\* A turn of the loop links two more tasks, whatever the last of the four tasks
\* it looks at is linked to.
LEMMA TurnLinks ==
  ASSUME NEW n \in Nat, n + 1 < Length, NEW links, LinkedUpTo(links, 3 + 2 * n)
  PROVE  LinkedUpTo(OneTurn(links, FirstWrite + 2 * n), 3 + 2 * (n + 1))
<1> DEFINE w == FirstWrite + 2 * n
           more == OneTurn(links, w)
<1>1. w = 4 + 2 * n /\ w \in Nat /\ w + 3 <= LastStep BY ChainSizes
<1>2. w \in Steps /\ w + 1 \in Steps /\ w + 2 \in Steps /\ w + 3 \in Steps
      /\ \A j \in 0 .. w - 1 : j \in Steps
  BY <1>1, ChainSizes DEF Steps
<1> HIDE DEF w
<1> DEFINE a == Main(w)
           b == Main(w + 1)
           c == Main(w + 2)
           d == Main(w + 3)
<1>3. a \in Task /\ b \in Task /\ c \in Task /\ d \in Task BY <1>2, StepsAreTasks
<1>4. a # b /\ a # c /\ a # d /\ b # c /\ b # d /\ c # d
  <2>1. w # w + 1 /\ w # w + 2 /\ w # w + 3 /\ w + 1 # w + 2 /\ w + 1 # w + 3 /\ w + 2 # w + 3
    BY <1>1
  <2> QED BY <1>2, <2>1, StepsAreTasks
<1>5. links \in [Task -> Task \cup {NoTask}] BY DEF LinkedUpTo
<1>6. more = [links EXCEPT ![a] = b, ![c] = b, ![d] = links[b], ![b] = c]
  BY DEF OneTurn
<1>7. ASSUME NEW j \in 0 .. w - 1
      PROVE  Main(j) \in Task /\ Main(j) # a /\ Main(j) # b /\ Main(j) # c /\ Main(j) # d
  <2>1. j \in Steps /\ j # w /\ j # w + 1 /\ j # w + 2 /\ j # w + 3 BY <1>1, <1>2
  <2> QED BY <1>2, <2>1, StepsAreTasks
<1>8. a = Main(w) /\ b = Main(w + 1) /\ c = Main((w + 1) + 1)
  <2>1. w + 2 = (w + 1) + 1 BY <1>1
  <2> QED BY <2>1
<1> HIDE DEF a, b, c, d, more
<1>9. more \in [Task -> Task \cup {NoTask}] BY <1>3, <1>5, <1>6
<1>10. more[a] = b /\ more[b] = c BY <1>3, <1>4, <1>5, <1>6
<1>11. ASSUME NEW j \in 0 .. w - 1 PROVE more[Main(j)] = Main(j + 1)
  <2>1. more[Main(j)] = links[Main(j)] BY <1>3, <1>5, <1>6, <1>7
  <2>2. j \in 0 .. 3 + 2 * n BY <1>1
  <2> QED BY <2>1, <2>2 DEF LinkedUpTo
<1>12. ASSUME NEW j \in 0 .. 3 + 2 * (n + 1) PROVE more[Main(j)] = Main(j + 1)
  <2>1. j \in 0 .. w - 1 \/ j = w \/ j = w + 1 BY <1>1
  <2> QED BY <1>8, <1>10, <1>11, <2>1
<1> QED BY <1>9, <1>12 DEF LinkedUpTo, more, w

LEMMA TurnsExist ==
  ASSUME NEW n \in Nat
  PROVE  \E g : Turns(g, n) /\ DOMAIN g = 0 .. n
<1> DEFINE S == {m \in Nat : \E g : Turns(g, m) /\ DOMAIN g = 0 .. m}
<1>1. 0 \in S
  <2>1. Turns([i \in 0 .. 0 |-> Head4], 0) /\ DOMAIN [i \in 0 .. 0 |-> Head4] = 0 .. 0
    BY DEF Turns
  <2> QED BY <2>1
<1>2. ASSUME NEW m \in Nat, m \in S PROVE m + 1 \in S
  <2>1. PICK g : Turns(g, m) BY <1>2
  <2> DEFINE h == [i \in 0 .. m + 1 |->
                     IF i <= m THEN g[i] ELSE OneTurn(g[m], FirstWrite + 2 * m)]
  <2>2. h[0] = Head4 BY <2>1 DEF Turns
  <2>3. ASSUME NEW i \in 1 .. m + 1
        PROVE  h[i] = OneTurn(h[i - 1], FirstWrite + 2 * (i - 1))
    <3>1. CASE i <= m
      <4>1. i \in 1 .. m /\ i - 1 \in 0 .. m + 1 /\ i - 1 <= m /\ i \in 0 .. m + 1 BY <3>1
      <4>2. h[i] = g[i] /\ h[i - 1] = g[i - 1] BY <3>1, <4>1
      <4>3. g[i] = OneTurn(g[i - 1], FirstWrite + 2 * (i - 1)) BY <2>1, <4>1 DEF Turns
      <4> QED BY <4>2, <4>3
    <3>2. CASE i = m + 1
      <4>1. i - 1 = m /\ ~(i <= m) /\ m <= m /\ m \in 0 .. m + 1 /\ i \in 0 .. m + 1
        BY <3>2
      <4>2. h[i] = OneTurn(g[m], FirstWrite + 2 * m) /\ h[m] = g[m] BY <4>1
      <4> QED BY <4>1, <4>2
    <3> QED BY <3>1, <3>2
  <2>4. DOMAIN h = 0 .. m + 1 OBVIOUS
  <2> HIDE DEF h
  <2>5. Turns(h, m + 1) BY <2>2, <2>3 DEF Turns
  <2> QED BY <2>4, <2>5
<1>3. Nat \subseteq S
  <2> HIDE DEF S
  <2> QED BY <1>1, <1>2, SetInduction
<1> QED BY <1>3

LEMMA LinkedByTurns ==
  ASSUME NEW g, Turns(g, Length - 1)
  PROVE  LinkedUpTo(g[Length - 1], LastStep - 3)
<1>1. Length \in Nat \ {0} /\ LastStep = 4 + 2 * Length BY ChainSizes
<1> DEFINE S == {m \in Nat : m < Length => LinkedUpTo(g[m], 3 + 2 * m)}
<1>2. 0 \in S
  <2>1. 3 + 2 * 0 = 3 OBVIOUS
  <2> QED BY <2>1, HeadLinks DEF Turns
<1>3. ASSUME NEW m \in Nat, m \in S PROVE m + 1 \in S
  <2> SUFFICES ASSUME m + 1 < Length PROVE LinkedUpTo(g[m + 1], 3 + 2 * (m + 1))
    OBVIOUS
  <2>1. m < Length /\ m + 1 \in 1 .. Length - 1 /\ (m + 1) - 1 = m BY <1>1
  <2>2. LinkedUpTo(g[m], 3 + 2 * m) BY <1>3, <2>1
  <2>3. g[m + 1] = OneTurn(g[m], FirstWrite + 2 * m) BY <2>1 DEF Turns
  <2> QED BY <2>2, <2>3, TurnLinks
<1>4. Nat \subseteq S
  <2> HIDE DEF S
  <2> QED BY <1>2, <1>3, SetInduction
<1>5. Length - 1 \in Nat /\ Length - 1 < Length /\ 3 + 2 * (Length - 1) = LastStep - 3 BY <1>1
<1> QED BY <1>4, <1>5

\* main links the steps of a chain in the order of their numbers, but for the
\* fork of cpu_task that its last turn makes: that one is left out.
LEMMA BuiltLinks ==
  /\ Built \in [Task -> Task \cup {NoTask}]
  /\ \A i \in Reached : Built[Main(i)] = Link(i)
<1> DEFINE n == Length - 1
           Loop(g) == g = [i \in 0 .. n |->
                             IF i = 0 THEN Head4
                             ELSE OneTurn(g[i - 1], FirstWrite + 2 * (i - 1))]
           s == CHOOSE g : Loop(g)
           w == FirstWrite + 2 * n
<1>1. n \in Nat /\ w = LastStep - 2 /\ LastStep = 4 + 2 * Length BY ChainSizes
<1>2. \E g : Loop(g)
  <2>1. PICK g : Turns(g, n) /\ DOMAIN g = 0 .. n
    <3> HIDE DEF n
    <3> QED BY <1>1, TurnsExist
  <2> DEFINE h == [i \in 0 .. n |-> g[i]]
  <2>2. ASSUME NEW i \in 0 .. n
        PROVE  h[i] = IF i = 0 THEN Head4 ELSE OneTurn(h[i - 1], FirstWrite + 2 * (i - 1))
    <3>1. CASE i = 0 BY <1>1, <2>1, <3>1 DEF Turns
    <3>2. CASE i # 0
      <4>1. i \in 1 .. n /\ i - 1 \in 0 .. n BY <1>1, <3>2
      <4>2. g[i] = OneTurn(g[i - 1], FirstWrite + 2 * (i - 1)) BY <2>1, <4>1 DEF Turns
      <4>3. h[i] = g[i] /\ h[i - 1] = g[i - 1] BY <4>1
      <4> QED BY <3>2, <4>2, <4>3
    <3> QED BY <3>1, <3>2
  <2>3. h = [i \in 0 .. n |-> h[i]] OBVIOUS
  <2> HIDE DEF h, n
  <2>4. Loop(h) BY <2>2, <2>3
  <2> QED BY <2>4
<1>3. Loop(s) BY <1>2
<1>4. Built = [s[n] EXCEPT ![Main(w)] = Main(LastStep), ![Main(LastStep)] = NoTask]
  BY DEF Built
<1>5. Turns(s, n)
  <2> HIDE DEF s, n
  <2>1. s = [i \in 0 .. n |-> IF i = 0 THEN Head4
                              ELSE OneTurn(s[i - 1], FirstWrite + 2 * (i - 1))]
    BY <1>3
  <2>2. 0 \in 0 .. n /\ \A i \in 1 .. n : i \in 0 .. n /\ i # 0 BY <1>1
  <2> QED BY <2>1, <2>2 DEF Turns
<1>6. LinkedUpTo(s[n], LastStep - 3)
  <2> HIDE DEF s
  <2> QED BY <1>5, LinkedByTurns
<1> HIDE DEF s, n
<1> DEFINE links == s[n]
<1>7. links \in [Task -> Task \cup {NoTask}] /\ \A j \in 0 .. LastStep - 3 : links[Main(j)] = Main(j + 1)
  BY <1>6 DEF LinkedUpTo
<1>8. w \in Steps /\ LastStep \in Steps /\ w # LastStep /\ LastStep \in Nat
  BY <1>1, ChainSizes DEF Steps
<1>9. Main(w) \in Task /\ Main(LastStep) \in Task /\ Main(w) # Main(LastStep)
  BY <1>8, StepsAreTasks
<1>10. Built = [links EXCEPT ![Main(w)] = Main(LastStep), ![Main(LastStep)] = NoTask]
  BY <1>4
<1> HIDE DEF links, w
<1>11. Built \in [Task -> Task \cup {NoTask}] BY <1>7, <1>9, <1>10
<1>12. ASSUME NEW i \in Reached PROVE Built[Main(i)] = Link(i)
  <2>1. i \in Steps /\ i \in Nat /\ i <= LastStep /\ i # LastStep - 1 BY ReachedSteps
  <2>2. Main(i) \in Task BY <2>1, StepsAreTasks
  <2>3. CASE i = LastStep
    <3>1. Built[Main(i)] = NoTask BY <1>7, <1>9, <1>10, <2>3
    <3> QED BY <2>3, <3>1 DEF Link
  <2>4. CASE i = w
    <3>1. Built[Main(i)] = Main(LastStep) BY <1>7, <1>9, <1>10, <2>4
    <3>2. i = LastStep - 2 /\ i # LastStep BY <1>1, <1>8, <2>4
    <3> QED BY <3>1, <3>2 DEF Link, After
  <2>5. CASE i # LastStep /\ i # w
    <3>1. Main(i) # Main(w) /\ Main(i) # Main(LastStep) BY <1>8, <2>1, <2>5, StepsAreTasks
    <3>2. Built[Main(i)] = links[Main(i)] BY <1>7, <1>9, <1>10, <2>2, <3>1
    <3>3. i \in 0 .. LastStep - 3 /\ i # LastStep - 2 BY <1>1, <1>8, <2>1, <2>5
    <3>4. links[Main(i)] = Main(i + 1) BY <1>7, <3>3
    <3> QED BY <2>5, <3>2, <3>3, <3>4 DEF Link, After
  <2> QED BY <2>3, <2>4, <2>5
<1> QED BY <1>11, <1>12

------------------------------------------------------------------------------
(* What the steps of a chain have in common.                                *)

LEMMA TaskIsStep ==
  ASSUME NEW t \in Task
  PROVE  /\ t.step \in Steps /\ t.async \in BOOLEAN
         /\ ~t.async => t = Main(t.step)
         /\ t.async => t = AsyncOf(t.step)
<1>1. PICK i \in Steps, b \in BOOLEAN : t = [step |-> i, async |-> b] BY DEF Task
<1> QED BY <1>1 DEF Main, AsyncOf

LEMMA FilesDiffer ==
  /\ \A c \in Chains : Free \notin FilesOf(c)
  /\ \A c, d \in Chains : c # d => FilesOf(c) \cap FilesOf(d) = {}
<1>1. ASSUME NEW c \in Chains PROVE Free \notin FilesOf(c)
  <2>1. Len(<<c, "in">>) = 2 /\ Len(<<c, "out">>) = 2 /\ Len(Free) = 0 BY DEF Free
  <2> QED BY <2>1 DEF FilesOf
<1>2. ASSUME NEW c \in Chains, NEW d \in Chains, c # d PROVE FilesOf(c) \cap FilesOf(d) = {}
  BY <1>2 DEF FilesOf
<1> QED BY <1>1, <1>2

\* A step that another chain takes.
Same(d) ==
  /\ next'[d] = next[d] /\ current'[d] = current[d] /\ place'[d] = place[d]
  /\ input'[d] = input[d] /\ fileFd'[d] = fileFd[d] /\ ringFd'[d] = ringFd[d]
  /\ log'[d] = log[d] /\ buffers'[d] = buffers[d]
  /\ short \subseteq short'
  /\ \A f \in Fds : owner'[f] # owner[f] =>
                      owner[f] \notin FilesOf(d) /\ owner'[f] \notin FilesOf(d)

LEMMA OthersKeep ==
  ASSUME NEW d \in Chains, OwnInv(d), Same(d)
  PROVE  OwnInv(d)'
<1>1. Live(d)' <=> Live(d) BY DEF Same, Live
<1>2. StepInv(d)' BY DEF OwnInv, Same, StepInv
<1>3. LinksInv(d)' BY DEF OwnInv, Same, LinksInv
<1>4. LogInv(d)'
  <2>1. WorkLogged(d)' <=> WorkLogged(d) BY DEF Same, WorkLogged
  <2> QED BY <1>1, <2>1 DEF OwnInv, Same, LogInv
<1>5. InputInv(d)' BY <1>1 DEF OwnInv, Same, InputInv
<1>6. FdInv(d)'
  <2>1. \A f \in Fds : owner'[f] \in FilesOf(d) <=> owner[f] \in FilesOf(d)
    BY DEF Same
  <2>2. \A f \in Fds : owner[f] \in FilesOf(d) => owner'[f] = owner[f] BY DEF Same
  <2>3. FdInv(d) BY DEF OwnInv
  <2>4. \A i : <<d, Side(i)>> \in FilesOf(d) BY DEF Side, FilesOf
  <2>5. \A f, g \in Fds : owner'[f] \in FilesOf(d) /\ owner'[g] \in FilesOf(d) => f = g
    BY <2>1, <2>3 DEF FdInv
  <2>6. ASSUME Live(d)', Holds(current'[d].step)
        PROVE  /\ fileFd'[d] \in Fds
               /\ owner'[fileFd'[d]] = <<d, Side(current'[d].step)>>
               /\ \A f \in Fds : owner'[f] \in FilesOf(d) => f = fileFd'[d]
    <3>1. current'[d] = current[d] /\ fileFd'[d] = fileFd[d] BY DEF Same
    <3>2. Live(d) /\ Holds(current[d].step) BY <1>1, <2>6, <3>1
    <3>3. /\ fileFd[d] \in Fds
          /\ owner[fileFd[d]] = <<d, Side(current[d].step)>>
          /\ \A f \in Fds : owner[f] \in FilesOf(d) => f = fileFd[d]
      BY <2>3, <3>2 DEF FdInv
    <3>4. owner'[fileFd[d]] = owner[fileFd[d]] BY <2>2, <2>4, <3>3
    <3> QED BY <2>1, <3>1, <3>3, <3>4
  <2>7. ASSUME (Live(d)' /\ ~Holds(current'[d].step)) \/ place'[d] = "finished"
        PROVE  \A f \in Fds : owner'[f] \notin FilesOf(d)
    <3>1. (Live(d) /\ ~Holds(current[d].step)) \/ place[d] = "finished"
      BY <1>1, <2>7 DEF Same
    <3>2. \A f \in Fds : owner[f] \notin FilesOf(d) BY <2>3, <3>1 DEF FdInv
    <3> QED BY <2>1, <3>2
  <2> QED BY <2>5, <2>6, <2>7 DEF FdInv
<1>7. RingInv(d)' BY DEF OwnInv, Same, RingInv
<1>8. BuffersInv(d)' BY DEF OwnInv, Same, BuffersInv
<1> QED BY <1>2, <1>3, <1>4, <1>5, <1>6, <1>7, <1>8 DEF OwnInv

\* The work of the current step is added to the log.
LEMMA LogGrows ==
  ASSUME ChainTypeOK, NEW c \in Chains, current[c].step \in Reached,
         \A j \in 1 .. Len(log[c]) : log[c][j] = Intended[j],
         Len(log[c]) = Before(current[c].step),
         Logged(c, KindOf(current[c].step))
  PROVE  /\ log' \in [Chains -> Seq({"open", "read", "write", "cpu", "close"})]
         /\ Len(log'[c]) = Before(current[c].step) + 1
         /\ \A j \in 1 .. Len(log'[c]) : log'[c][j] = Intended[j]
         /\ \A d \in Chains : d # c => log'[d] = log[d]
<1> DEFINE i == current[c].step
           k == KindOf(i)
           s == log[c]
<1>1. log \in [Chains -> Seq(Work)] BY DEF ChainTypeOK, Work
<1>2. i \in Steps /\ k \in Work
  <2>1. i \in Steps BY ReachedSteps
  <2> HIDE DEF i
  <2> QED BY <2>1, StepsOfKinds DEF Work
<1>3. Intended[Before(i) + 1] = k BY IntendedSteps
<1>4. log' = [log EXCEPT ![c] = Append(s, k)] BY DEF Logged
<1>5. s \in Seq(Work) /\ Len(s) \in Nat BY <1>1
<1>6. Len(s) = Before(i) /\ \A j \in 1 .. Len(s) : s[j] = Intended[j] OBVIOUS
<1> HIDE DEF i, k, s
<1>7. /\ Append(s, k) \in Seq(Work) /\ Len(Append(s, k)) = Len(s) + 1
      /\ Append(s, k)[Len(s) + 1] = k
      /\ \A j \in 1 .. Len(s) : Append(s, k)[j] = s[j]
  BY <1>2, <1>5
<1>8. log'[c] = Append(s, k) /\ \A d \in Chains : d # c => log'[d] = log[d]
  BY <1>1, <1>4
<1>9. log' \in [Chains -> Seq(Work)] BY <1>1, <1>4, <1>7
<1>10. ASSUME NEW j \in 1 .. Len(s) + 1 PROVE Append(s, k)[j] = Intended[j]
  <2>1. CASE j = Len(s) + 1 BY <1>3, <1>6, <1>7, <2>1
  <2>2. CASE j # Len(s) + 1
    <3>1. j \in 1 .. Len(s) BY <1>5, <2>2
    <3> QED BY <1>6, <1>7, <3>1
  <2> QED BY <2>1, <2>2
<1>11. Len(log'[c]) = Len(s) + 1 BY <1>7, <1>8
<1> QED BY <1>6, <1>8, <1>9, <1>10, <1>11 DEF Work, i

\* What is submitted when a task was executed.
LEMMA Continues ==
  ASSUME ChainTypeOK, NEW c \in Chains, StepInv(c), LinksInv(c), NEW result, Continue(c, result)
  PROVE  \/ /\ current[c].step = LastStep
            /\ place' = [place EXCEPT ![c] = "finished"]
            /\ UNCHANGED <<current, input>>
         \/ /\ current[c].step # LastStep
            /\ current' = [current EXCEPT ![c] = Main(After(current[c].step))]
            /\ input' = [input EXCEPT ![c] = result]
            /\ UNCHANGED place
<1> DEFINE i == current[c].step
<1>1. i \in Reached /\ next[c][current[c]] = Link(i) BY DEF StepInv, LinksInv
<1> HIDE DEF i
<1>2. CASE i = LastStep
  <2>1. next[c][current[c]] = NoTask BY <1>1, <1>2 DEF Link
  <2> QED BY <1>2, <2>1 DEF Continue, i
<1>3. CASE i # LastStep
  <2>1. next[c][current[c]] = Main(After(i)) /\ Main(After(i)) # NoTask
    BY <1>1, <1>3, AfterIsReached
  <2> QED BY <1>3, <2>1 DEF Continue, i
<1> QED BY <1>2, <1>3

\* A task whose work is in the log was executed: the next one has its place in
\* the chain and nothing of its own in the log.
LEMMA StepDone ==
  ASSUME ChainTypeOK, NEW c \in Chains, OwnInv(c), NEW result, Continue(c, result),
         place[c] = "queued", next' = next,
         Len(log'[c]) = Before(current[c].step) + 1,
         \A j \in 1 .. Len(log'[c]) : log'[c][j] = Intended[j]
  PROVE  StepInv(c)' /\ LinksInv(c)' /\ LogInv(c)'
<1> DEFINE i == current[c].step
<1>1. StepInv(c) /\ LinksInv(c) BY DEF OwnInv
<1>2. i \in Reached /\ i \in Nat /\ LastStep \in Nat BY <1>1, ReachedSteps DEF StepInv
<1>3. CASE i = LastStep
  <2>1. place' = [place EXCEPT ![c] = "finished"] /\ current' = current
    BY <1>1, <1>3, Continues
  <2>2. place'[c] = "finished" BY <2>1 DEF ChainTypeOK
  <2>3. StepInv(c)' BY <1>1, <2>1, <2>2 DEF StepInv
  <2>4. LinksInv(c)' BY <1>1, <2>1 DEF LinksInv
  <2>5. Len(log'[c]) = LastStep BY <1>2, <1>3 DEF Before
  <2>6. LogInv(c)' BY <2>2, <2>5 DEF LogInv, Live
  <2> QED BY <2>3, <2>4, <2>6
<1>4. CASE i # LastStep
  <2> DEFINE a == After(i)
  <2>1. current' = [current EXCEPT ![c] = Main(a)] /\ place' = place
    BY <1>1, <1>4, Continues
  <2>2. a \in Reached /\ a > i /\ a \in Nat /\ Before(i) = i /\ Before(a) = i + 1
    BY <1>2, <1>4, AfterIsReached
  <2> HIDE DEF a, i
  <2>3. current'[c] = Main(a) BY <2>1 DEF ChainTypeOK
  <2>4. current'[c].step = a /\ current'[c].async = FALSE BY <2>3 DEF Main
  <2>5. place'[c] = "queued" BY <2>1
  <2>6. StepInv(c)' BY <2>2, <2>4, <2>5 DEF StepInv
  <2>7. LinksInv(c)'
    <3>1. \A j \in Reached : j > i => next[c][Main(j)] = Link(j) BY <1>1 DEF LinksInv, i
    <3>2. \A j \in Reached : j > a => j > i BY <1>2, <2>2, ReachedSteps
    <3>3. next[c][Main(a)] = Link(a) BY <2>2, <3>1
    <3>4. next'[c][current'[c]] = Link(current'[c].step) BY <2>3, <2>4, <3>3
    <3>5. \A j \in Reached : j > current'[c].step => next'[c][Main(j)] = Link(j)
      BY <2>4, <3>1, <3>2
    <3> QED BY <3>4, <3>5 DEF LinksInv
  <2>8. Len(log'[c]) = Before(current'[c].step) BY <2>2, <2>4 DEF i
  <2>9. WorkLogged(c)' = FALSE BY <2>4, <2>5 DEF WorkLogged
  <2>10. Before(a) \in Nat BY <1>2, <2>2
  <2>11. LogInv(c)'
    <3>1. Len(log'[c]) = Before(current'[c].step) + (IF WorkLogged(c)' THEN 1 ELSE 0)
      BY <2>4, <2>8, <2>9, <2>10
    <3> QED BY <2>5, <3>1 DEF LogInv
  <2> QED BY <2>6, <2>7, <2>11
<1> QED BY <1>3, <1>4

LEMMA LogSizes ==
  ASSUME ChainTypeOK, NEW c \in Chains
  PROVE  Len(log[c]) \in Nat
BY DEF ChainTypeOK

\* The output of the chains is not changed, and none of them has just emptied its
\* own that had done so before.
LEMMA ContentStays ==
  ASSUME NEW c \in Chains, \A d \in Chains : ContentInv(d), copied' = copied, short \subseteq short',
         \A d \in Chains \ {c} : log'[d] = log[d],
         Len(log[c]) \in Nat, Len(log'[c]) \in Nat,
         Len(log'[c]) = Len(log[c]) \/ (Len(log[c]) # 4 /\ Len(log'[c]) = Len(log[c]) + 1),
         NEW d \in Chains
  PROVE  ContentInv(d)'
<1> SUFFICES ASSUME Len(log'[d]) > 4, ~copied[FileNo[d]], FileNo[d] \notin short'
             PROVE  \E e \in Chains \ {d} : FileNo[e] = FileNo[d] /\ Len(log'[e]) = 4
  BY ChainSizes DEF ContentInv
<1>1. Len(log[d]) > 4
  <2>1. CASE d = c
    <3> DEFINE m == Len(log'[c])
               n == Len(log[c])
    <3>1. m > 4 BY <2>1, Zenon
    <3>2. n \in Nat /\ m \in Nat /\ (m = n \/ (n # 4 /\ m = n + 1)) BY Zenon
    <3> HIDE DEF m, n
    <3>3. n > 4 BY <3>1, <3>2
    <3> QED BY <2>1, <3>3, Zenon DEF n
  <2>2. CASE d # c BY <2>2
  <2> QED BY <2>1, <2>2
<1>2. PICK e \in Chains \ {d} : FileNo[e] = FileNo[d] /\ Len(log[e]) = 4
  BY <1>1, ChainSizes DEF ContentInv
<1>3. Len(log'[e]) = 4
  <2>1. CASE e = c BY <1>2, <2>1
  <2>2. CASE e # c BY <1>2, <2>2
  <2> QED BY <2>1, <2>2
<1> QED BY <1>2, <1>3

\* A chain has emptied its output and is about to write it.
LEMMA ContentEmptied ==
  ASSUME NEW c \in Chains, \A d \in Chains : ContentInv(d), copied \in [Numbers -> BOOLEAN],
         copied' = Emptied(c), short' = short,
         \A d \in Chains \ {c} : log'[d] = log[d], Len(log'[c]) = 4, Len(log[c]) # 4,
         NEW d \in Chains
  PROVE  ContentInv(d)'
<1> SUFFICES ASSUME Len(log'[d]) > 4, ~copied'[FileNo[d]], FileNo[d] \notin short
             PROVE  \E e \in Chains \ {d} : FileNo[e] = FileNo[d] /\ Len(log'[e]) = 4
  BY ChainSizes DEF ContentInv
<1>1. d # c
  <2> SUFFICES ASSUME d = c PROVE FALSE
    OBVIOUS
  <2>1. 4 > 4 BY Zenon
  <2> QED BY <2>1
<1>2. CASE FileNo[d] = FileNo[c] BY <1>1, <1>2
<1>3. CASE FileNo[d] # FileNo[c]
  <2>1. FileNo[d] \in Numbers BY DEF Numbers
  <2>2. ~copied[FileNo[d]] BY <1>3, <2>1 DEF Emptied
  <2>3. Len(log[d]) > 4 BY <1>1
  <2>4. PICK e \in Chains \ {d} : FileNo[e] = FileNo[d] /\ Len(log[e]) = 4
    BY <2>2, <2>3, ChainSizes DEF ContentInv
  <2>5. e # c BY <1>3, <2>4
  <2> QED BY <2>4, <2>5
<1> QED BY <1>2, <1>3

\* A chain has written its output, from what it read or too little of it.
LEMMA ContentWritten ==
  ASSUME NEW c \in Chains, \A d \in Chains : ContentInv(d),
         copied' = copied \/ \E right \in BOOLEAN : copied' = [copied EXCEPT ![FileNo[c]] = right],
         copied \in [Numbers -> BOOLEAN], short \subseteq short',
         copied'[FileNo[c]] \/ FileNo[c] \in short',
         \A d \in Chains \ {c} : log'[d] = log[d],
         NEW d \in Chains
  PROVE  ContentInv(d)'
<1> SUFFICES ASSUME Len(log'[d]) > 4, ~copied'[FileNo[d]], FileNo[d] \notin short'
             PROVE  \E e \in Chains \ {d} : FileNo[e] = FileNo[d] /\ Len(log'[e]) = 4
  BY ChainSizes DEF ContentInv
<1>1. FileNo[d] # FileNo[c] OBVIOUS
<1>2. FileNo[d] \in Numbers BY DEF Numbers
<1>3. ~copied[FileNo[d]] BY <1>1, <1>2
<1>4. Len(log[d]) > 4 BY <1>1
<1>5. PICK e \in Chains \ {d} : FileNo[e] = FileNo[d] /\ Len(log[e]) = 4
  BY <1>3, <1>4, ChainSizes DEF ContentInv
<1>6. e # c BY <1>1, <1>5
<1> QED BY <1>5, <1>6

LEMMA SmallAfter ==
  /\ After(0) = 1 /\ After(1) = 2 /\ After(2) = 3 /\ After(3) = 4
  /\ \A i \in {0, 1, 2, 3} : i # LastStep /\ Before(i) = i
BY ChainSizes DEF After, Before

LEMMA LoopAfter ==
  ASSUME NEW i \in LoopSteps, i \in Reached
  PROVE  /\ i >= 4 /\ i # LastStep /\ i \in Nat /\ Before(i) = i
         /\ After(i) > 4 /\ After(i) \in Nat /\ After(i) # 0 /\ After(i) # 3
         /\ Holds(i) /\ Holds(After(i)) /\ Side(i) = "out" /\ Side(After(i)) = "out"
<1>1. i \in Nat /\ i >= 4 /\ i < LastStep /\ LastStep \in Nat /\ i # LastStep
  BY ChainSizes DEF LoopSteps
<1>2. After(i) > i /\ After(i) \in Nat /\ Before(i) = i BY <1>1, AfterIsReached
<1>3. After(i) > 4 BY <1>1, <1>2
<1> QED BY <1>1, <1>2, <1>3, ChainSizes DEF Holds, Side

\* A chain with a task in a queue.
LEMMA Queued ==
  ASSUME IoInv, NEW c \in Chains, place[c] = "queued"
  PROVE  /\ ChainTypeOK /\ OwnInv(c) /\ StepInv(c) /\ LinksInv(c) /\ Live(c)
         /\ current[c] \in Task /\ current[c].async \in BOOLEAN
         /\ current[c].step \in Reached /\ current[c].step \in Steps /\ current[c].step \in Nat
         /\ Before(current[c].step) \in Nat
         /\ \A j \in 1 .. Len(log[c]) : log[c][j] = Intended[j]
         /\ Len(log[c]) = Before(current[c].step) + (IF current[c].async THEN 1 ELSE 0)
<1>1. ChainTypeOK /\ OwnInv(c) /\ StepInv(c) /\ LinksInv(c) /\ LogInv(c)
  BY DEF IoInv, OwnInv
<1>2. current[c] \in Task BY <1>1 DEF ChainTypeOK
<1>3. current[c].async \in BOOLEAN BY <1>2, TaskIsStep
<1>4. current[c].step \in Reached BY <1>1 DEF StepInv
<1>5. current[c].step \in Steps /\ current[c].step \in Nat BY <1>4, ReachedSteps
<1>6. Live(c) BY DEF Live
<1>7. WorkLogged(c) <=> current[c].async BY DEF WorkLogged
<1>8. \A j \in 1 .. Len(log[c]) : log[c][j] = Intended[j] BY <1>1 DEF LogInv
<1>9. Len(log[c]) = Before(current[c].step) + (IF WorkLogged(c) THEN 1 ELSE 0)
  BY <1>1, <1>6 DEF LogInv
<1>10. Before(current[c].step) \in Nat BY <1>5, ChainSizes DEF Before
<1> QED BY <1>1, <1>2, <1>3, <1>4, <1>5, <1>6, <1>7, <1>8, <1>9, <1>10

\* What the step of one chain does to the tasks of all of them.
LEMMA ContinueTypes ==
  ASSUME ChainTypeOK, NEW c \in Chains, StepInv(c), LinksInv(c),
         NEW result \in Inputs, Continue(c, result)
  PROVE  /\ current' \in [Chains -> Task]
         /\ place' \in [Chains -> {"queued", "ring", "complete", "failed", "finished"}]
         /\ input' \in [Chains -> Inputs]
         /\ \A d \in Chains : d # c =>
               current'[d] = current[d] /\ place'[d] = place[d] /\ input'[d] = input[d]
<1>1. /\ current \in [Chains -> Task]
      /\ place \in [Chains -> {"queued", "ring", "complete", "failed", "finished"}]
      /\ input \in [Chains -> Inputs]
  BY DEF ChainTypeOK
<1>2. CASE current[c].step = LastStep
  <2>1. place' = [place EXCEPT ![c] = "finished"] /\ current' = current /\ input' = input
    BY <1>2, Continues
  <2> QED BY <1>1, <2>1
<1>3. CASE current[c].step # LastStep
  <2>1. /\ current' = [current EXCEPT ![c] = Main(After(current[c].step))]
        /\ input' = [input EXCEPT ![c] = result] /\ place' = place
    BY <1>3, Continues
  <2>2. current[c].step \in Reached BY DEF StepInv
  <2>3. After(current[c].step) \in Steps BY <1>3, <2>2, AfterIsReached, ReachedSteps
  <2>4. Main(After(current[c].step)) \in Task BY <2>3, StepsAreTasks
  <2> QED BY <1>1, <2>1, <2>4
<1> QED BY <1>2, <1>3

\* A task of main's was executed.
LEMMA Executed ==
  ASSUME IoInv, NEW c \in Chains, NEW kind, Ready(c, kind), NEW result \in Inputs,
         Continue(c, result), Logged(c, kind), next' = next
  PROVE  /\ StepInv(c)' /\ LinksInv(c)' /\ LogInv(c)'
         /\ log' \in [Chains -> Seq({"open", "read", "write", "cpu", "close"})]
         /\ Len(log'[c]) = Len(log[c]) + 1 /\ Len(log[c]) = Before(current[c].step)
         /\ \A d \in Chains : d # c => log'[d] = log[d]
<1>1. place[c] = "queued" /\ ~current[c].async /\ KindOf(current[c].step) = kind
  BY DEF Ready
<1>2. /\ ChainTypeOK /\ OwnInv(c) /\ current[c].step \in Reached
      /\ Before(current[c].step) \in Nat
      /\ \A j \in 1 .. Len(log[c]) : log[c][j] = Intended[j]
  BY <1>1, Queued
<1>3. Len(log[c]) = Before(current[c].step)
  <2>1. Len(log[c]) = Before(current[c].step) + (IF current[c].async THEN 1 ELSE 0)
    BY <1>1, Queued
  <2> QED BY <1>1, <1>2, <2>1
<1>4. /\ log' \in [Chains -> Seq({"open", "read", "write", "cpu", "close"})]
      /\ Len(log'[c]) = Before(current[c].step) + 1
      /\ \A j \in 1 .. Len(log'[c]) : log'[c][j] = Intended[j]
      /\ \A d \in Chains : d # c => log'[d] = log[d]
  BY <1>1, <1>2, <1>3, LogGrows
<1>5. StepInv(c)' /\ LinksInv(c)' /\ LogInv(c)'
  BY <1>1, <1>2, <1>4, StepDone
<1> QED BY <1>3, <1>4, <1>5

------------------------------------------------------------------------------
(* What each step does.                                                     *)

\* It is enough to look at the chain that takes the step, and at what it leaves
\* alone.
LEMMA Together ==
  ASSUME IoInv, NEW c \in Chains, ChainTypeOK', OwnInv(c)', \A d \in Chains : d # c => Same(d),
         \A d \in Chains : ContentInv(d)'
  PROVE  IoInv'
<1>1. ASSUME NEW d \in Chains PROVE OwnInv(d)'
  <2>1. CASE d = c BY <2>1
  <2>2. CASE d # c
    <3>1. OwnInv(d) /\ Same(d) BY <2>2 DEF IoInv
    <3> QED BY <3>1, OthersKeep
  <2> QED BY <2>1, <2>2
<1> QED BY <1>1 DEF IoInv

LEMMA OpenKeeps ==
  ASSUME IoInv, NEW c \in Chains, Open(c)
  PROVE  IoInv'
<1> DEFINE i == current[c].step
           side == IF i = 0 THEN "in" ELSE "out"
<1>1. PICK f \in FreeFds :
        /\ Ready(c, "open")
        /\ owner' = [owner EXCEPT ![f] = <<c, IF current[c].step = 0 THEN "in" ELSE "out">>]
        /\ fileFd' = [fileFd EXCEPT ![c] = f]
        /\ Continue(c, "fileInput")
        /\ Logged(c, "open")
        /\ copied' = IF current[c].step = 0 THEN copied ELSE Emptied(c)
        /\ UNCHANGED <<next, ringFd, buffers, short, stopped>>
  BY DEF Open
<1>2. place[c] = "queued" /\ ~current[c].async /\ KindOf(i) = "open" BY <1>1 DEF Ready
<1>3. /\ ChainTypeOK /\ OwnInv(c) /\ StepInv(c) /\ LinksInv(c) /\ Live(c)
      /\ i \in Steps
  BY <1>2, Queued
<1>4. i \in {0, 3} /\ i # LastStep /\ Before(i) = i BY <1>2, <1>3, StepsOfKinds, SmallAfter
<1>5. f \in Fds /\ owner[f] = Free BY DEF FreeFds
<1>6. "fileInput" \in Inputs BY DEF Inputs
<1>7. /\ StepInv(c)' /\ LinksInv(c)' /\ LogInv(c)'
      /\ log' \in [Chains -> Seq({"open", "read", "write", "cpu", "close"})]
      /\ Len(log'[c]) = Len(log[c]) + 1 /\ Len(log[c]) = i
      /\ \A d \in Chains : d # c => log'[d] = log[d]
  BY <1>1, <1>4, <1>6, Executed
<1>8. /\ current' \in [Chains -> Task]
      /\ place' \in [Chains -> {"queued", "ring", "complete", "failed", "finished"}]
      /\ input' \in [Chains -> Inputs]
      /\ \A d \in Chains : d # c =>
            current'[d] = current[d] /\ place'[d] = place[d] /\ input'[d] = input[d]
  BY <1>1, <1>3, <1>6, ContinueTypes
<1>9. current' = [current EXCEPT ![c] = Main(After(i))] /\ input' = [input EXCEPT ![c] = "fileInput"]
      /\ place' = place
  BY <1>1, <1>3, <1>4, Continues
<1>10. current'[c].step = After(i) /\ input'[c] = "fileInput" /\ place'[c] = "queued"
  <2>1. current'[c] = Main(After(i)) /\ input'[c] = "fileInput" BY <1>3, <1>9 DEF ChainTypeOK
  <2> QED BY <1>2, <1>9, <2>1 DEF Main
<1> DEFINE a == After(i)
<1>11. a \in {1, 4} /\ Side(a) = side /\ Holds(a) /\ a # 0 /\ a # 3
  BY <1>4, SmallAfter, ChainSizes DEF Side, Holds
<1>12. ChainTypeOK'
  <2>1. <<c, side>> \in Files BY DEF Files
  <2>2. owner' \in [Fds -> Files \cup {Free}] BY <1>1, <1>3, <1>5, <2>1 DEF ChainTypeOK
  <2>3. fileFd' \in [Chains -> Fds \cup {NoFd}] BY <1>1, <1>3, <1>5 DEF ChainTypeOK
  <2>4. copied' \in [Numbers -> BOOLEAN]
    <3>1. Emptied(c) \in [Numbers -> BOOLEAN] BY <1>3 DEF ChainTypeOK, Emptied
    <3> QED BY <1>1, <1>3, <3>1 DEF ChainTypeOK
  <2> QED BY <1>1, <1>3, <1>7, <1>8, <2>2, <2>3, <2>4 DEF ChainTypeOK
<1>13. OwnInv(c)'
  <2>1. InputInv(c)' BY <1>10, <1>11 DEF InputInv
  <2>2. FdInv(c)'
    <3>1. \A g \in Fds : owner[g] \notin FilesOf(c)
      <4>1. ~Holds(i) BY <1>4, ChainSizes DEF Holds
      <4> QED BY <1>3, <4>1 DEF OwnInv, FdInv
    <3>2. owner'[f] = <<c, side>> /\ \A g \in Fds : g # f => owner'[g] = owner[g]
      BY <1>1, <1>3, <1>5 DEF ChainTypeOK
    <3>3. fileFd'[c] = f BY <1>1, <1>3 DEF ChainTypeOK
    <3>4. \A g \in Fds : owner'[g] \in FilesOf(c) => g = f BY <3>1, <3>2
    <3> QED BY <1>5, <1>10, <1>11, <3>2, <3>3, <3>4 DEF FdInv, Live
  <2>3. RingInv(c)' BY <1>10 DEF RingInv
  <2>4. BuffersInv(c)'
    <3>1. Len(log'[c]) >= 2 => Len(log[c]) >= 2 BY <1>4, <1>7
    <3>2. buffers'[c] = buffers[c] /\ short' = short BY <1>1
    <3> QED BY <1>3, <3>1, <3>2 DEF OwnInv, BuffersInv
  <2> QED BY <1>7, <2>1, <2>2, <2>3, <2>4 DEF OwnInv
<1>14. ASSUME NEW d \in Chains, d # c PROVE Same(d)
  <2>1. ASSUME NEW g \in Fds, owner'[g] # owner[g]
        PROVE  owner[g] \notin FilesOf(d) /\ owner'[g] \notin FilesOf(d)
    <3>1. g = f BY <1>1, <1>3, <2>1 DEF ChainTypeOK
    <3>2. owner'[g] = <<c, side>> BY <1>1, <1>3, <1>5, <3>1 DEF ChainTypeOK
    <3>3. owner'[g] \in FilesOf(c) BY <3>2 DEF FilesOf
    <3> QED BY <1>5, <1>14, <3>1, <3>3, FilesDiffer
  <2>2. fileFd'[d] = fileFd[d] BY <1>1, <1>3, <1>14 DEF ChainTypeOK
  <2> QED BY <1>1, <1>7, <1>8, <1>14, <2>1, <2>2 DEF Same
<1>15. ASSUME NEW d \in Chains PROVE ContentInv(d)'
  <2>1. \A e \in Chains : ContentInv(e) BY DEF IoInv
  <2>2. \A e \in Chains \ {c} : log'[e] = log[e] BY <1>7
  <2>3. Len(log[c]) \in Nat /\ Len(log'[c]) \in Nat /\ Len(log[c]) # 4 BY <1>4, <1>7
  <2>4. CASE i = 0
    <3>1. copied' = copied /\ short' = short BY <1>1, <2>4
    <3> QED BY <1>7, <2>1, <2>2, <2>3, <3>1, ContentStays
  <2>5. CASE i = 3
    <3>1. copied' = Emptied(c) /\ short' = short /\ Len(log'[c]) = 4 BY <1>1, <1>7, <2>5
    <3>2. copied \in [Numbers -> BOOLEAN] BY <1>3 DEF ChainTypeOK
    <3> QED BY <2>1, <2>2, <2>3, <3>1, <3>2, ContentEmptied
  <2> QED BY <1>4, <2>4, <2>5
<1> QED BY <1>12, <1>13, <1>14, <1>15, Together

\* The asynchronous task takes the place of the one that creates it, and its next
\* task.
LEMMA StartIoKeeps ==
  ASSUME IoInv, NEW c \in Chains, StartIo(c)
  PROVE  IoInv'
<1> DEFINE i == current[c].step
           links == next[c]
           to == next'[c]
<1>1. /\ Ready(c, "read") \/ Ready(c, "write")
      /\ next' = [next EXCEPT ![c][AsyncOf(i)] = next[c][current[c]], ![c][current[c]] = AsyncOf(i)]
      /\ current' = [current EXCEPT ![c] = AsyncOf(i)]
      /\ ringFd' = [ringFd EXCEPT ![c] = fileFd[c]]
      /\ place' = [place EXCEPT ![c] = "ring"]
      /\ UNCHANGED <<input, fileFd, owner, log, data, stopped>>
  BY DEF StartIo
<1>2. place[c] = "queued" /\ ~current[c].async /\ KindOf(i) \in {"read", "write"}
  BY <1>1 DEF Ready
<1>3. /\ ChainTypeOK /\ OwnInv(c) /\ StepInv(c) /\ LinksInv(c) /\ Live(c)
      /\ i \in Steps /\ i \in Reached /\ i \in Nat
      /\ current[c] \in Task /\ Before(i) \in Nat
  BY <1>2, Queued
<1>4. Len(log[c]) = Before(i)
  <2>1. Len(log[c]) = Before(i) + (IF current[c].async THEN 1 ELSE 0) BY <1>2, Queued
  <2> QED BY <1>2, <1>3, <2>1
<1>5. current[c] = Main(i) /\ Main(i) \in Task /\ AsyncOf(i) \in Task /\ Main(i) # AsyncOf(i)
  BY <1>2, <1>3, TaskIsStep, StepsAreTasks
<1>6. i # 0 /\ i # 3 /\ Holds(i)
  <2>1. i = 1 \/ i \in LoopSteps BY <1>2, <1>3, StepsOfKinds
  <2>2. CASE i = 1 BY <2>2, ChainSizes DEF Holds
  <2>3. CASE i \in LoopSteps BY <1>3, <2>3, LoopAfter
  <2> QED BY <2>1, <2>2, <2>3
<1>7. next \in [Chains -> [Task -> Task \cup {NoTask}]] /\ links \in [Task -> Task \cup {NoTask}]
  BY <1>3 DEF ChainTypeOK
<1>8. /\ next' \in [Chains -> [Task -> Task \cup {NoTask}]]
      /\ \A d \in Chains : d # c => next'[d] = next[d]
  BY <1>1, <1>5, <1>7
<1>9. to = [links EXCEPT ![AsyncOf(i)] = links[Main(i)], ![Main(i)] = AsyncOf(i)]
  BY <1>1, <1>5, <1>7
<1>10. to[AsyncOf(i)] = links[Main(i)] BY <1>5, <1>7, <1>9
<1>11. ASSUME NEW t \in Task, t # Main(i), t # AsyncOf(i) PROVE to[t] = links[t]
  BY <1>5, <1>7, <1>9, <1>11
<1>12. current'[c] = AsyncOf(i) /\ place'[c] = "ring" /\ ringFd'[c] = fileFd[c]
  BY <1>1, <1>3 DEF ChainTypeOK
<1>13. current'[c].step = i /\ current'[c].async = TRUE BY <1>12 DEF AsyncOf
<1>14. ChainTypeOK'
  <2>1. current' \in [Chains -> Task] BY <1>1, <1>3, <1>5 DEF ChainTypeOK
  <2>2. ringFd' \in [Chains -> Fds \cup {NoFd}] BY <1>1, <1>3 DEF ChainTypeOK
  <2>3. place' \in [Chains -> {"queued", "ring", "complete", "failed", "finished"}]
    BY <1>1, <1>3 DEF ChainTypeOK
  <2> QED BY <1>1, <1>3, <1>8, <2>1, <2>2, <2>3 DEF ChainTypeOK, data
<1>15. StepInv(c)' BY <1>2, <1>3, <1>13 DEF StepInv
<1>16. LinksInv(c)'
  <2>1. links[Main(i)] = Link(i) BY <1>3, <1>5 DEF LinksInv
  <2>2. to[current'[c]] = Link(current'[c].step) BY <1>10, <1>12, <1>13, <2>1
  <2>3. ASSUME NEW j \in Reached, j > i PROVE to[Main(j)] = Link(j)
    <3>1. j \in Steps /\ j # i BY <1>3, <2>3, ReachedSteps
    <3>2. Main(j) \in Task /\ Main(j) # Main(i) /\ Main(j) # AsyncOf(i)
      BY <1>3, <3>1, StepsAreTasks
    <3>3. links[Main(j)] = Link(j) BY <1>3, <2>3 DEF LinksInv
    <3> QED BY <1>11, <3>2, <3>3
  <2> QED BY <1>13, <2>2, <2>3 DEF LinksInv
<1>17. LogInv(c)'
  <2>1. log' = log BY <1>1
  <2>2. WorkLogged(c)' = FALSE BY <1>12 DEF WorkLogged
  <2>3. Len(log'[c]) = Before(current'[c].step) + (IF WorkLogged(c)' THEN 1 ELSE 0)
    BY <1>3, <1>4, <1>13, <2>1, <2>2
  <2>4. \A j \in 1 .. Len(log'[c]) : log'[c][j] = Intended[j]
    BY <1>3, <2>1 DEF OwnInv, LogInv
  <2> QED BY <1>12, <2>3, <2>4 DEF LogInv
<1>18. InputInv(c)'
  <2>1. input[c] = "fileInput" BY <1>3, <1>6 DEF OwnInv, InputInv
  <2> QED BY <1>1, <1>6, <1>13, <2>1 DEF InputInv
<1>19. FdInv(c)'
  <2>1. /\ fileFd[c] \in Fds /\ owner[fileFd[c]] = <<c, Side(i)>>
        /\ \A f \in Fds : owner[f] \in FilesOf(c) => f = fileFd[c]
        /\ \A f, g \in Fds : owner[f] \in FilesOf(c) /\ owner[g] \in FilesOf(c) => f = g
    BY <1>3, <1>6 DEF OwnInv, FdInv
  <2>2. fileFd' = fileFd /\ owner' = owner BY <1>1
  <2> QED BY <1>6, <1>12, <1>13, <2>1, <2>2 DEF FdInv, Live
<1>20. RingInv(c)' BY <1>1, <1>12 DEF RingInv
<1>21. BuffersInv(c)' BY <1>1, <1>3 DEF OwnInv, BuffersInv, data
<1>22. OwnInv(c)' BY <1>15, <1>16, <1>17, <1>18, <1>19, <1>20, <1>21 DEF OwnInv
<1>23. ASSUME NEW d \in Chains, d # c PROVE Same(d)
  <2>1. current'[d] = current[d] /\ place'[d] = place[d] /\ ringFd'[d] = ringFd[d]
    BY <1>1, <1>3, <1>23 DEF ChainTypeOK
  <2> QED BY <1>1, <1>8, <1>23, <2>1 DEF Same, data
<1>24. ASSUME NEW d \in Chains PROVE ContentInv(d)'
  <2>1. ContentInv(d) BY DEF IoInv
  <2> QED BY <1>1, <2>1 DEF ContentInv, data
<1> QED BY <1>14, <1>22, <1>23, <1>24, Together

\* The request is done, with the whole of the file or less.
LEMMA IoCompletesKeeps ==
  ASSUME IoInv, NEW c \in Chains, IoCompletes(c)
  PROVE  IoInv'
<1> DEFINE i == current[c].step
           n == FileNo[c]
<1>1. PICK full \in BOOLEAN :
        /\ place[c] = "ring"
        /\ place' = [place EXCEPT ![c] = "complete"]
        /\ Logged(c, KindOf(i))
        /\ IF KindOf(i) = "read"
           THEN buffers' = [buffers EXCEPT ![c] = full] /\ UNCHANGED copied
           ELSE /\ \E right \in WriteOutcomes(full, buffers[c], copied[FileNo[c]]) :
                      copied' = [copied EXCEPT ![FileNo[c]] = right]
                /\ UNCHANGED buffers
        /\ short' = IF full THEN short ELSE short \cup {FileNo[c]}
        /\ UNCHANGED <<next, current, input, fileFd, ringFd, owner, stopped>>
  BY DEF IoCompletes
<1>2. ChainTypeOK /\ OwnInv(c) /\ StepInv(c) BY DEF IoInv, OwnInv
<1>3. i \in Reached /\ i \in Steps /\ i \in Nat BY <1>2, ReachedSteps DEF StepInv
<1>4. current[c].async /\ KindOf(i) \in {"read", "write"} BY <1>1, <1>2 DEF StepInv
<1>5. Live(c) /\ WorkLogged(c) = FALSE BY <1>1 DEF Live, WorkLogged
<1>6. Before(i) \in Nat BY <1>3, ChainSizes DEF Before
<1>7. Len(log[c]) = Before(i) /\ \A j \in 1 .. Len(log[c]) : log[c][j] = Intended[j]
  <2>1. LogInv(c) BY <1>2 DEF OwnInv
  <2>2. Len(log[c]) = Before(i) + (IF WorkLogged(c) THEN 1 ELSE 0) BY <1>5, <2>1 DEF LogInv
  <2>3. \A j \in 1 .. Len(log[c]) : log[c][j] = Intended[j] BY <2>1 DEF LogInv
  <2> QED BY <1>5, <1>6, <2>2, <2>3
<1>8. /\ log' \in [Chains -> Seq({"open", "read", "write", "cpu", "close"})]
      /\ Len(log'[c]) = Before(i) + 1
      /\ \A j \in 1 .. Len(log'[c]) : log'[c][j] = Intended[j]
      /\ \A d \in Chains : d # c => log'[d] = log[d]
  BY <1>1, <1>2, <1>3, <1>7, LogGrows
<1>9. /\ place' \in [Chains -> {"queued", "ring", "complete", "failed", "finished"}]
      /\ place'[c] = "complete" /\ \A d \in Chains : d # c => place'[d] = place[d]
  BY <1>1, <1>2 DEF ChainTypeOK
<1>10. n \in Numbers BY DEF Numbers
<1>11. short' \subseteq Numbers /\ short \subseteq short' /\ (~full => n \in short')
  <2>1. short \subseteq Numbers BY <1>2 DEF ChainTypeOK
  <2> QED BY <1>1, <1>10, <2>1
<1>12. /\ buffers' \in [Chains -> BOOLEAN] /\ \A d \in Chains : d # c => buffers'[d] = buffers[d]
       /\ KindOf(i) = "read" => buffers'[c] = full
       /\ KindOf(i) # "read" => buffers' = buffers
  BY <1>1, <1>2 DEF ChainTypeOK
<1>13. copied \in [Numbers -> BOOLEAN] BY <1>2 DEF ChainTypeOK
<1>14. ASSUME KindOf(i) # "read"
       PROVE  \E right \in BOOLEAN : /\ copied' = [copied EXCEPT ![FileNo[c]] = right]
                                     /\ full /\ buffers[c] => right
  <2>1. PICK right \in WriteOutcomes(full, buffers[c], copied[FileNo[c]]) :
          copied' = [copied EXCEPT ![FileNo[c]] = right]
    BY <1>1, <1>14
  <2>2. buffers[c] \in BOOLEAN /\ copied[FileNo[c]] \in BOOLEAN
    BY <1>2, <1>10, <1>13 DEF ChainTypeOK
  <2>3. right \in BOOLEAN /\ (full /\ buffers[c] => right)
    <3>1. CASE buffers[c]
      <4>1. right = (full \/ copied[FileNo[c]]) BY <2>1, <3>1 DEF WriteOutcomes
      <4> QED BY <4>1
    <3>2. CASE ~buffers[c]
      <4>1. right \in {FALSE, copied[FileNo[c]] /\ ~full} BY <2>1, <3>2 DEF WriteOutcomes
      <4> QED BY <3>2, <4>1
    <3> QED BY <3>1, <3>2
  <2> QED BY <2>1, <2>3
<1>15. copied' \in [Numbers -> BOOLEAN]
  <2>1. CASE KindOf(i) = "read" BY <1>1, <1>13, <2>1
  <2>2. CASE KindOf(i) # "read" BY <1>13, <1>14, <2>2
  <2> QED BY <2>1, <2>2
<1>16. ChainTypeOK' BY <1>1, <1>2, <1>8, <1>9, <1>11, <1>12, <1>15 DEF ChainTypeOK
<1>17. OwnInv(c)'
  <2>1. StepInv(c)' BY <1>1, <1>2, <1>4 DEF StepInv
  <2>2. LinksInv(c)' BY <1>1, <1>2 DEF OwnInv, LinksInv
  <2>3. LogInv(c)'
    <3>1. WorkLogged(c)' = TRUE BY <1>9 DEF WorkLogged
    <3>2. current'[c].step = i BY <1>1
    <3>3. Len(log'[c]) = Before(current'[c].step) + (IF WorkLogged(c)' THEN 1 ELSE 0)
      BY <1>8, <3>1, <3>2
    <3> QED BY <1>8, <1>9, <3>3 DEF LogInv
  <2>4. InputInv(c)'
    <3>1. InputInv(c) BY <1>2 DEF OwnInv
    <3> QED BY <1>1, <1>5, <3>1 DEF InputInv
  <2>5. FdInv(c)'
    <3>1. FdInv(c) BY <1>2 DEF OwnInv
    <3>2. current' = current /\ fileFd' = fileFd /\ owner' = owner BY <1>1
    <3>3. Live(c)' BY <1>9 DEF Live
    <3> QED BY <1>5, <1>9, <3>1, <3>2, <3>3 DEF FdInv
  <2>6. RingInv(c)' BY <1>1, <1>2 DEF OwnInv, RingInv
  <2>7. BuffersInv(c)'
    <3>1. CASE KindOf(i) = "read" BY <1>11, <1>12, <3>1 DEF BuffersInv
    <3>2. CASE KindOf(i) # "read"
      <4>1. i \in LoopSteps BY <1>3, <1>4, <3>2, StepsOfKinds
      <4>2. i >= 4 /\ Before(i) = i BY <1>3, <4>1, LoopAfter
      <4>3. Len(log[c]) >= 2 BY <1>3, <1>7, <4>2
      <4>4. buffers[c] \/ FileNo[c] \in short BY <1>2, <4>3 DEF OwnInv, BuffersInv
      <4> QED BY <1>11, <1>12, <3>2, <4>4 DEF BuffersInv
    <3> QED BY <3>1, <3>2
  <2> QED BY <2>1, <2>2, <2>3, <2>4, <2>5, <2>6, <2>7 DEF OwnInv
<1>18. ASSUME NEW d \in Chains, d # c PROVE Same(d)
  BY <1>1, <1>8, <1>9, <1>11, <1>12, <1>18 DEF Same
<1>19. ASSUME NEW d \in Chains PROVE ContentInv(d)'
  <2>1. \A e \in Chains : ContentInv(e) BY DEF IoInv
  <2>2. \A e \in Chains \ {c} : log'[e] = log[e] BY <1>8
  <2>3. CASE KindOf(i) = "read"
    <3>1. i = 1 BY <1>3, <2>3, StepsOfKinds
    <3>2. Before(i) = 1 BY <3>1, SmallAfter
    <3>3. Len(log[c]) \in Nat /\ Len(log'[c]) \in Nat /\ Len(log[c]) # 4
          /\ Len(log'[c]) = Len(log[c]) + 1
      BY <1>7, <1>8, <3>2
    <3>4. copied' = copied BY <1>1, <2>3
    <3> QED BY <1>11, <2>1, <2>2, <3>3, <3>4, ContentStays
  <2>4. CASE KindOf(i) # "read"
    <3>1. PICK right \in BOOLEAN : /\ copied' = [copied EXCEPT ![FileNo[c]] = right]
                                   /\ full /\ buffers[c] => right
      BY <1>14, <2>4
    <3>2. copied'[FileNo[c]] = right BY <1>10, <1>13, <3>1
    <3>3. buffers[c] \/ FileNo[c] \in short
      <4>1. i \in LoopSteps BY <1>3, <1>4, <2>4, StepsOfKinds
      <4>2. i >= 4 /\ Before(i) = i BY <1>3, <4>1, LoopAfter
      <4>3. Len(log[c]) >= 2 BY <1>3, <1>7, <4>2
      <4> QED BY <1>2, <4>3 DEF OwnInv, BuffersInv
    <3>4. copied'[FileNo[c]] \/ FileNo[c] \in short' BY <1>11, <3>1, <3>2, <3>3
    <3>5. \E r \in BOOLEAN : copied' = [copied EXCEPT ![FileNo[c]] = r] BY <3>1
    <3> QED BY <1>11, <1>13, <2>1, <2>2, <3>4, <3>5, ContentWritten
  <2> QED BY <2>3, <2>4
<1> QED BY <1>16, <1>17, <1>18, <1>19, Together

\* What is in the ring is executed by a scheduler again.
LEMMA CollectIoKeeps ==
  ASSUME IoInv, NEW c \in Chains, CollectIo(c)
  PROVE  IoInv'
<1>1. /\ place[c] = "complete"
      /\ place' = [place EXCEPT ![c] = "queued"]
      /\ ringFd' = [ringFd EXCEPT ![c] = NoFd]
      /\ UNCHANGED <<next, current, input, fileFd, owner, log, data, stopped>>
  BY DEF CollectIo
<1>2. ChainTypeOK /\ OwnInv(c) BY DEF IoInv
<1>3. /\ place' \in [Chains -> {"queued", "ring", "complete", "failed", "finished"}]
      /\ place'[c] = "queued" /\ \A d \in Chains : d # c => place'[d] = place[d]
      /\ ringFd' \in [Chains -> Fds \cup {NoFd}]
      /\ \A d \in Chains : d # c => ringFd'[d] = ringFd[d]
  BY <1>1, <1>2 DEF ChainTypeOK
<1>4. ChainTypeOK' BY <1>1, <1>2, <1>3 DEF ChainTypeOK, data
<1>5. OwnInv(c)'
  <2>1. Live(c) /\ Live(c)' BY <1>1, <1>3 DEF Live
  <2>2. StepInv(c)' BY <1>1, <1>2, <1>3 DEF OwnInv, StepInv
  <2>3. LinksInv(c)' BY <1>1, <1>2 DEF OwnInv, LinksInv
  <2>4. LogInv(c)'
    <3>1. current[c].async BY <1>1, <1>2 DEF OwnInv, StepInv
    <3>2. WorkLogged(c) = TRUE BY <1>1 DEF WorkLogged
    <3>3. WorkLogged(c)' = TRUE BY <1>1, <1>3, <3>1 DEF WorkLogged
    <3>4. LogInv(c) BY <1>2 DEF OwnInv
    <3>5. Len(log[c]) = Before(current[c].step) + (IF WorkLogged(c) THEN 1 ELSE 0)
      BY <2>1, <3>4 DEF LogInv
    <3>6. Len(log'[c]) = Before(current'[c].step) + (IF WorkLogged(c)' THEN 1 ELSE 0)
      BY <1>1, <3>2, <3>3, <3>5
    <3>7. \A j \in 1 .. Len(log'[c]) : log'[c][j] = Intended[j] BY <1>1, <3>4 DEF LogInv
    <3> QED BY <1>3, <3>6, <3>7 DEF LogInv
  <2>5. InputInv(c)' BY <1>1, <1>2, <2>1 DEF OwnInv, InputInv
  <2>6. FdInv(c)' BY <1>1, <1>2, <1>3, <2>1 DEF OwnInv, FdInv
  <2>7. RingInv(c)' BY <1>3 DEF RingInv
  <2>8. BuffersInv(c)' BY <1>1, <1>2 DEF OwnInv, BuffersInv, data
  <2> QED BY <2>2, <2>3, <2>4, <2>5, <2>6, <2>7, <2>8 DEF OwnInv
<1>6. ASSUME NEW d \in Chains, d # c PROVE Same(d) BY <1>1, <1>3, <1>6 DEF Same, data
<1>7. ASSUME NEW d \in Chains PROVE ContentInv(d)'
  <2>1. ContentInv(d) BY DEF IoInv
  <2> QED BY <1>1, <2>1 DEF ContentInv, data
<1> QED BY <1>4, <1>5, <1>6, <1>7, Together

\* After a task of the loop, or what follows the read, the chain still has its
\* file and its input.
LEMMA HandsOn ==
  ASSUME IoInv, NEW c \in Chains, place[c] = "queued", Continue(c, input[c]),
         current[c].step = 1 \/ current[c].step \in LoopSteps,
         next' = next, owner' = owner, fileFd' = fileFd
  PROVE  /\ input[c] \in Inputs /\ Before(current[c].step) >= 1 /\ current[c].step # LastStep
         /\ InputInv(c)' /\ FdInv(c)' /\ RingInv(c)'
<1> DEFINE i == current[c].step
           a == After(i)
<1>1. /\ ChainTypeOK /\ OwnInv(c) /\ StepInv(c) /\ LinksInv(c) /\ Live(c)
      /\ i \in Reached /\ i \in Nat
  BY Queued
<1>2. /\ i # 0 /\ i # 3 /\ i # LastStep /\ Holds(i) /\ Before(i) = i /\ i >= 1
      /\ a # 0 /\ a # 3 /\ Holds(a) /\ Side(a) = Side(i)
  <2>1. CASE i = 1
    <3>1. After(1) = 2 /\ i # LastStep /\ Before(i) = i BY <2>1, SmallAfter
    <3>2. Side(1) = Side(2) /\ Holds(1) /\ Holds(2) BY DEF Side, Holds
    <3> QED BY <2>1, <3>1, <3>2
  <2>2. CASE i \in LoopSteps
    <3>1. /\ i >= 4 /\ i # LastStep /\ Before(i) = i
          /\ After(i) # 0 /\ After(i) # 3
          /\ Holds(i) /\ Holds(After(i)) /\ Side(i) = "out" /\ Side(After(i)) = "out"
      BY <1>1, <2>2, LoopAfter
    <3> QED BY <1>1, <3>1
  <2> QED BY <2>1, <2>2
<1>3. input[c] = "fileInput" /\ input[c] \in Inputs
  BY <1>1, <1>2 DEF OwnInv, InputInv, Inputs
<1>4. current' = [current EXCEPT ![c] = Main(a)] /\ input' = [input EXCEPT ![c] = input[c]]
      /\ place' = place
  BY <1>1, <1>2, Continues
<1>5. current'[c].step = a /\ input'[c] = "fileInput" /\ place'[c] = "queued"
  <2>1. current'[c] = Main(a) /\ input'[c] = "fileInput" BY <1>1, <1>3, <1>4 DEF ChainTypeOK
  <2> QED BY <1>4, <2>1 DEF Main
<1>6. InputInv(c)' BY <1>2, <1>5 DEF InputInv
<1>7. FdInv(c)'
  <2>1. /\ fileFd[c] \in Fds /\ owner[fileFd[c]] = <<c, Side(i)>>
        /\ \A f \in Fds : owner[f] \in FilesOf(c) => f = fileFd[c]
        /\ \A f, g \in Fds : owner[f] \in FilesOf(c) /\ owner[g] \in FilesOf(c) => f = g
    BY <1>1, <1>2 DEF OwnInv, FdInv
  <2> HIDE DEF i, a
  <2> QED BY <1>2, <1>5, <2>1 DEF FdInv
<1>8. RingInv(c)' BY <1>5 DEF RingInv
<1> QED BY <1>2, <1>3, <1>6, <1>7, <1>8

\* The asynchronous task was executed: its work was done when the request was.
LEMMA FinishIoKeeps ==
  ASSUME IoInv, NEW c \in Chains, FinishIo(c)
  PROVE  IoInv'
<1> DEFINE i == current[c].step
<1>1. /\ place[c] = "queued" /\ current[c].async /\ Continue(c, input[c])
      /\ UNCHANGED <<next, fileFd, ringFd, owner, log, data, stopped>>
  BY DEF FinishIo
<1>2. /\ ChainTypeOK /\ OwnInv(c) /\ StepInv(c) /\ LinksInv(c)
      /\ i \in Reached /\ i \in Steps /\ Before(i) \in Nat
      /\ \A j \in 1 .. Len(log[c]) : log[c][j] = Intended[j]
  BY <1>1, Queued
<1>3. Len(log[c]) = Before(i) + 1
  <2>1. Len(log[c]) = Before(i) + (IF current[c].async THEN 1 ELSE 0) BY <1>1, Queued
  <2> QED BY <1>1, <2>1
<1>4. i = 1 \/ i \in LoopSteps BY <1>1, <1>2, StepsOfKinds DEF StepInv
<1>5. input[c] \in Inputs /\ InputInv(c)' /\ FdInv(c)' /\ RingInv(c)'
  BY <1>1, <1>4, HandsOn
<1>6. /\ current' \in [Chains -> Task]
      /\ place' \in [Chains -> {"queued", "ring", "complete", "failed", "finished"}]
      /\ input' \in [Chains -> Inputs]
      /\ \A d \in Chains : d # c =>
            current'[d] = current[d] /\ place'[d] = place[d] /\ input'[d] = input[d]
  BY <1>1, <1>2, <1>5, ContinueTypes
<1>7. Len(log'[c]) = Before(i) + 1 /\ \A j \in 1 .. Len(log'[c]) : log'[c][j] = Intended[j]
  BY <1>1, <1>2, <1>3
<1>8. StepInv(c)' /\ LinksInv(c)' /\ LogInv(c)' BY <1>1, <1>2, <1>7, StepDone
<1>9. BuffersInv(c)' BY <1>1, <1>2 DEF OwnInv, BuffersInv, data
<1>10. OwnInv(c)' BY <1>5, <1>8, <1>9 DEF OwnInv
<1>11. ChainTypeOK' BY <1>1, <1>2, <1>6 DEF ChainTypeOK, data
<1>12. ASSUME NEW d \in Chains, d # c PROVE Same(d) BY <1>1, <1>6, <1>12 DEF Same, data
<1>13. ASSUME NEW d \in Chains PROVE ContentInv(d)'
  <2>1. ContentInv(d) BY DEF IoInv
  <2> QED BY <1>1, <2>1 DEF ContentInv, data
<1> QED BY <1>10, <1>11, <1>12, <1>13, Together

LEMMA ComputeKeeps ==
  ASSUME IoInv, NEW c \in Chains, Compute(c)
  PROVE  IoInv'
<1> DEFINE i == current[c].step
<1>1. /\ Ready(c, "cpu") /\ Continue(c, input[c]) /\ Logged(c, "cpu")
      /\ UNCHANGED <<next, fileFd, ringFd, owner, data, stopped>>
  BY DEF Compute
<1>2. place[c] = "queued" /\ KindOf(i) = "cpu" BY <1>1 DEF Ready
<1>3. /\ ChainTypeOK /\ OwnInv(c) /\ StepInv(c) /\ LinksInv(c) /\ i \in Steps /\ i \in Reached
  BY <1>2, Queued
<1>4. i \in LoopSteps BY <1>2, <1>3, StepsOfKinds
<1>5. input[c] \in Inputs /\ InputInv(c)' /\ FdInv(c)' /\ RingInv(c)'
  BY <1>1, <1>2, <1>4, HandsOn
<1>6. /\ StepInv(c)' /\ LinksInv(c)' /\ LogInv(c)'
      /\ log' \in [Chains -> Seq({"open", "read", "write", "cpu", "close"})]
      /\ Len(log'[c]) = Len(log[c]) + 1 /\ Len(log[c]) = Before(i)
      /\ \A d \in Chains : d # c => log'[d] = log[d]
  BY <1>1, <1>5, Executed
<1>7. /\ current' \in [Chains -> Task]
      /\ place' \in [Chains -> {"queued", "ring", "complete", "failed", "finished"}]
      /\ input' \in [Chains -> Inputs]
      /\ \A d \in Chains : d # c =>
            current'[d] = current[d] /\ place'[d] = place[d] /\ input'[d] = input[d]
  BY <1>1, <1>3, <1>5, ContinueTypes
<1>8. Len(log[c]) \in Nat /\ Len(log[c]) >= 5
  <2>1. i \in Nat /\ i >= 4 /\ Before(i) = i BY <1>3, <1>4, LoopAfter
  <2>2. i # 4
    <3> SUFFICES ASSUME i = 4 PROVE FALSE
      OBVIOUS
    <3>1. KindOf(i) = IF (i - 4) % 2 = 0 THEN "write" ELSE "cpu" BY <1>4, Kinds
    <3>2. (i - 4) % 2 = 0 OBVIOUS
    <3> QED BY <1>2, <3>1, <3>2
  <2> QED BY <1>6, <2>1, <2>2
<1>9. OwnInv(c)'
  <2>1. buffers[c] \/ FileNo[c] \in short BY <1>3, <1>8 DEF OwnInv, BuffersInv
  <2>2. BuffersInv(c)' BY <1>1, <2>1 DEF BuffersInv, data
  <2> QED BY <1>5, <1>6, <2>2 DEF OwnInv
<1>10. ChainTypeOK' BY <1>1, <1>3, <1>6, <1>7 DEF ChainTypeOK, data
<1>11. ASSUME NEW d \in Chains, d # c PROVE Same(d) BY <1>1, <1>6, <1>7, <1>11 DEF Same, data
<1>12. ASSUME NEW d \in Chains PROVE ContentInv(d)'
  <2>1. /\ \A e \in Chains : ContentInv(e)
        /\ \A e \in Chains \ {c} : log'[e] = log[e]
        /\ copied' = copied /\ short \subseteq short'
    BY <1>1, <1>6 DEF IoInv, data
  <2>2. Len(log[c]) # 4 /\ Len(log'[c]) \in Nat BY <1>6, <1>8
  <2> QED BY <1>6, <1>8, <2>1, <2>2, ContentStays
<1> QED BY <1>9, <1>10, <1>11, <1>12, Together

LEMMA CloseKeeps ==
  ASSUME IoInv, NEW c \in Chains, Close(c)
  PROVE  IoInv'
<1> DEFINE i == current[c].step
           fd == fileFd[c]
<1>1. /\ Ready(c, "close")
      /\ owner' = [owner EXCEPT ![fileFd[c]] = Free]
      /\ Continue(c, "openInputExtension") /\ Logged(c, "close")
      /\ UNCHANGED <<next, fileFd, ringFd, data, stopped>>
  BY DEF Close
<1>2. place[c] = "queued" /\ KindOf(i) = "close" BY <1>1 DEF Ready
<1>3. /\ ChainTypeOK /\ OwnInv(c) /\ StepInv(c) /\ LinksInv(c) /\ Live(c)
      /\ i \in Steps /\ i \in Reached
  BY <1>2, Queued
<1>4. i = 2 \/ i = LastStep BY <1>2, <1>3, StepsOfKinds
<1>5. "openInputExtension" \in Inputs BY DEF Inputs
<1>6. /\ StepInv(c)' /\ LinksInv(c)' /\ LogInv(c)'
      /\ log' \in [Chains -> Seq({"open", "read", "write", "cpu", "close"})]
      /\ Len(log'[c]) = Len(log[c]) + 1 /\ Len(log[c]) = Before(i)
      /\ \A d \in Chains : d # c => log'[d] = log[d]
  BY <1>1, <1>5, Executed
<1>7. /\ current' \in [Chains -> Task]
      /\ place' \in [Chains -> {"queued", "ring", "complete", "failed", "finished"}]
      /\ input' \in [Chains -> Inputs]
      /\ \A d \in Chains : d # c =>
            current'[d] = current[d] /\ place'[d] = place[d] /\ input'[d] = input[d]
  BY <1>1, <1>3, <1>5, ContinueTypes
<1>8. Len(log[c]) \in Nat /\ Len(log[c]) >= 2 /\ Len(log[c]) # 4 /\ Len(log'[c]) \in Nat
  <2>1. CASE i = 2 BY <1>6, <2>1, SmallAfter
  <2>2. CASE i = LastStep
    <3>1. Before(i) = LastStep - 1 BY <2>2 DEF Before
    <3>2. LastStep - 1 >= 5 /\ LastStep \in Nat BY ChainSizes
    <3> QED BY <1>6, <3>1, <3>2
  <2> QED BY <1>4, <2>1, <2>2
<1>9. /\ fd \in Fds /\ owner[fd] \in FilesOf(c)
      /\ \A f \in Fds : owner[f] \in FilesOf(c) => f = fd
  <2>1. Holds(i) BY <1>4, ChainSizes DEF Holds
  <2>2. /\ fd \in Fds /\ owner[fd] = <<c, Side(i)>>
        /\ \A f \in Fds : owner[f] \in FilesOf(c) => f = fd
    BY <1>3, <2>1 DEF OwnInv, FdInv
  <2>3. <<c, Side(i)>> \in FilesOf(c) BY DEF Side, FilesOf
  <2> QED BY <2>2, <2>3
<1>10. /\ owner' \in [Fds -> Files \cup {Free}] /\ owner'[fd] = Free
       /\ \A f \in Fds : f # fd => owner'[f] = owner[f]
  BY <1>1, <1>3, <1>9 DEF ChainTypeOK
<1>11. \A f \in Fds : owner'[f] \notin FilesOf(c) BY <1>9, <1>10, FilesDiffer
<1>12. InputInv(c)' /\ FdInv(c)' /\ RingInv(c)'
  <2>1. CASE i = 2
    <3>1. i # LastStep /\ After(i) = 3 BY <2>1, SmallAfter
    <3>2. /\ current' = [current EXCEPT ![c] = Main(After(i))]
          /\ input' = [input EXCEPT ![c] = "openInputExtension"]
          /\ place' = place
      BY <1>1, <1>3, <3>1, Continues
    <3>3. current'[c] = Main(3) /\ input'[c] = "openInputExtension" /\ place'[c] = "queued"
      BY <1>2, <1>3, <3>1, <3>2 DEF ChainTypeOK
    <3>4. current'[c].step = 3 BY <3>3 DEF Main
    <3>5. ~Holds(3) BY ChainSizes DEF Holds
    <3> QED BY <1>11, <3>3, <3>4, <3>5 DEF InputInv, FdInv, RingInv
  <2>2. CASE i = LastStep
    <3>1. place' = [place EXCEPT ![c] = "finished"] BY <1>1, <1>3, <2>2, Continues
    <3>2. place'[c] = "finished" BY <1>3, <3>1 DEF ChainTypeOK
    <3> QED BY <1>11, <3>2 DEF InputInv, FdInv, RingInv, Live
  <2> QED BY <1>4, <2>1, <2>2
<1>13. OwnInv(c)'
  <2>1. buffers[c] \/ FileNo[c] \in short BY <1>3, <1>8 DEF OwnInv, BuffersInv
  <2>2. BuffersInv(c)' BY <1>1, <2>1 DEF BuffersInv, data
  <2> QED BY <1>6, <1>12, <2>2 DEF OwnInv
<1>14. ChainTypeOK' BY <1>1, <1>3, <1>6, <1>7, <1>10 DEF ChainTypeOK, data
<1>15. ASSUME NEW d \in Chains, d # c PROVE Same(d)
  <2>1. ASSUME NEW f \in Fds, owner'[f] # owner[f]
        PROVE  owner[f] \notin FilesOf(d) /\ owner'[f] \notin FilesOf(d)
    BY <1>9, <1>10, <1>15, <2>1, FilesDiffer
  <2> QED BY <1>1, <1>6, <1>7, <1>15, <2>1 DEF Same, data
<1>16. ASSUME NEW d \in Chains PROVE ContentInv(d)'
  <2>1. /\ \A e \in Chains : ContentInv(e)
        /\ \A e \in Chains \ {c} : log'[e] = log[e]
        /\ copied' = copied /\ short \subseteq short'
    BY <1>1, <1>6 DEF IoInv, data
  <2> QED BY <1>6, <1>8, <2>1, ContentStays
<1> QED BY <1>13, <1>14, <1>15, <1>16, Together

------------------------------------------------------------------------------
(* Exceptions.                                                              *)

\* A chain that has failed keeps at most one file open.
LEMMA FailedInv ==
  ASSUME NEW c \in Chains, OwnInv(c), place[c] \in {"queued", "ring"},
         current[c].async => place[c] = "ring",
         next' = next, current' = current, fileFd' = fileFd, place'[c] = "failed",
         \A f, g \in Fds : owner'[f] \in FilesOf(c) /\ owner'[g] \in FilesOf(c) => f = g,
         BuffersInv(c)',
         \A j \in 1 .. Len(log'[c]) : log'[c][j] = Intended[j],
         Len(log'[c]) \in {Before(current[c].step), Before(current[c].step) + 1}
  PROVE  OwnInv(c)'
<1>1. ~Live(c)' BY DEF Live
<1>2. StepInv(c)' BY DEF OwnInv, StepInv
<1>3. LinksInv(c)' BY DEF OwnInv, LinksInv
<1>4. LogInv(c)' BY <1>1 DEF LogInv
<1>5. InputInv(c)' BY <1>1 DEF InputInv
<1>6. FdInv(c)' BY <1>1 DEF FdInv
<1>7. RingInv(c)' BY DEF RingInv
<1> QED BY <1>2, <1>3, <1>4, <1>5, <1>6, <1>7 DEF OwnInv

LEMMA ThreadEnds ==
  ASSUME ChainTypeOK, NEW c \in Chains, EndsThread(c), place' = [place EXCEPT ![c] = "failed"]
  PROVE  /\ stopped' \subseteq Chains
         /\ place' \in [Chains -> {"queued", "ring", "complete", "failed", "finished"}]
         /\ place'[c] = "failed" /\ \A d \in Chains : d # c => place'[d] = place[d]
BY DEF ChainTypeOK, EndsThread

\* A call fails and changes nothing.
LEMMA ThrowsKeeps ==
  ASSUME IoInv, NEW c \in Chains, Throws(c), place[c] \in {"queued", "ring"},
         current[c].async => place[c] = "ring"
  PROVE  IoInv'
<1>1. /\ place' = [place EXCEPT ![c] = "failed"] /\ EndsThread(c)
      /\ UNCHANGED <<next, current, input, fileFd, ringFd, owner, log, data>>
  BY DEF Throws
<1>2. ChainTypeOK /\ OwnInv(c) BY DEF IoInv
<1>3. /\ stopped' \subseteq Chains
      /\ place' \in [Chains -> {"queued", "ring", "complete", "failed", "finished"}]
      /\ place'[c] = "failed" /\ \A d \in Chains : d # c => place'[d] = place[d]
  BY <1>1, <1>2, ThreadEnds
<1>4. ChainTypeOK' BY <1>1, <1>2, <1>3 DEF ChainTypeOK, data
<1>5. OwnInv(c)'
  <2>1. Len(log[c]) = Before(current[c].step)
    <3>1. Live(c) /\ WorkLogged(c) = FALSE BY DEF Live, WorkLogged
    <3>2. Len(log[c]) = Before(current[c].step) + (IF WorkLogged(c) THEN 1 ELSE 0)
      BY <1>2, <3>1 DEF OwnInv, LogInv
    <3>3. current[c].step \in Nat /\ LastStep \in Nat
      BY <1>2, ReachedSteps, ChainSizes DEF OwnInv, StepInv
    <3>4. Before(current[c].step) \in Int BY <3>3 DEF Before
    <3> QED BY <3>1, <3>2, <3>4
  <2>2. Len(log'[c]) \in {Before(current[c].step), Before(current[c].step) + 1} BY <1>1, <2>1
  <2>3. \A j \in 1 .. Len(log'[c]) : log'[c][j] = Intended[j] BY <1>1, <1>2 DEF OwnInv, LogInv
  <2>4. BuffersInv(c)' BY <1>1, <1>2 DEF OwnInv, BuffersInv, data
  <2>5. \A f, g \in Fds : owner'[f] \in FilesOf(c) /\ owner'[g] \in FilesOf(c) => f = g
    BY <1>1, <1>2 DEF OwnInv, FdInv
  <2>6. next' = next /\ current' = current /\ fileFd' = fileFd BY <1>1
  <2> QED BY <1>2, <1>3, <2>2, <2>3, <2>4, <2>5, <2>6, FailedInv
<1>6. ASSUME NEW d \in Chains, d # c PROVE Same(d) BY <1>1, <1>3, <1>6 DEF Same, data
<1>7. ASSUME NEW d \in Chains PROVE ContentInv(d)'
  <2>1. ContentInv(d) BY DEF IoInv
  <2> QED BY <1>1, <2>1 DEF ContentInv, data
<1> QED BY <1>4, <1>5, <1>6, <1>7, Together

LEMMA BuffersFailKeeps ==
  ASSUME IoInv, NEW c \in Chains, BuffersFail(c)
  PROVE  IoInv'
<1>1. PICK f \in FreeFds :
        /\ Ready(c, "open") /\ current[c].step = 0
        /\ owner' = [owner EXCEPT ![f] = <<c, "in">>]
        /\ place' = [place EXCEPT ![c] = "failed"] /\ EndsThread(c) /\ Logged(c, "open")
        /\ UNCHANGED <<next, current, input, fileFd, ringFd, data>>
  BY DEF BuffersFail
<1>2. place[c] = "queued" /\ ~current[c].async BY <1>1 DEF Ready
<1>3. /\ ChainTypeOK /\ OwnInv(c) /\ Live(c) /\ current[c].step \in Reached
      /\ \A j \in 1 .. Len(log[c]) : log[c][j] = Intended[j]
  BY <1>2, Queued
<1>4. Before(current[c].step) = 0 BY <1>1, SmallAfter
<1>5. Len(log[c]) = 0
  <2>1. Len(log[c]) = Before(current[c].step) + (IF current[c].async THEN 1 ELSE 0)
    BY <1>2, Queued
  <2> QED BY <1>2, <1>4, <2>1
<1>6. KindOf(current[c].step) = "open" BY <1>1, Kinds
<1>7. /\ log' \in [Chains -> Seq({"open", "read", "write", "cpu", "close"})]
      /\ Len(log'[c]) = Before(current[c].step) + 1
      /\ \A j \in 1 .. Len(log'[c]) : log'[c][j] = Intended[j]
      /\ \A d \in Chains : d # c => log'[d] = log[d]
  BY <1>1, <1>3, <1>4, <1>5, <1>6, LogGrows
<1>8. /\ stopped' \subseteq Chains
      /\ place' \in [Chains -> {"queued", "ring", "complete", "failed", "finished"}]
      /\ place'[c] = "failed" /\ \A d \in Chains : d # c => place'[d] = place[d]
  BY <1>1, <1>3, ThreadEnds
<1>9. f \in Fds /\ owner[f] = Free BY DEF FreeFds
<1>10. /\ owner' \in [Fds -> Files \cup {Free}] /\ owner'[f] \in FilesOf(c)
       /\ \A g \in Fds : g # f => owner'[g] = owner[g]
  <2>1. <<c, "in">> \in Files /\ <<c, "in">> \in FilesOf(c) BY DEF Files, FilesOf
  <2> QED BY <1>1, <1>3, <1>9, <2>1 DEF ChainTypeOK
<1>11. ChainTypeOK' BY <1>1, <1>3, <1>7, <1>8, <1>10 DEF ChainTypeOK, data
<1>12. OwnInv(c)'
  <2>1. \A g \in Fds : owner[g] \notin FilesOf(c)
    <3>1. ~Holds(current[c].step) BY <1>1, ChainSizes DEF Holds
    <3> QED BY <1>3, <3>1 DEF OwnInv, FdInv
  <2>2. \A g, h \in Fds : owner'[g] \in FilesOf(c) /\ owner'[h] \in FilesOf(c) => g = h
    BY <1>10, <2>1
  <2>3. BuffersInv(c)'
    <3>1. Len(log'[c]) = 1 BY <1>4, <1>7
    <3>2. ~(1 >= 2) OBVIOUS
    <3> QED BY <3>1, <3>2 DEF BuffersInv
  <2>4. next' = next /\ current' = current /\ fileFd' = fileFd BY <1>1
  <2>5. Len(log'[c]) \in {Before(current[c].step), Before(current[c].step) + 1} BY <1>7
  <2> QED BY <1>2, <1>3, <1>7, <1>8, <2>2, <2>3, <2>4, <2>5, FailedInv
<1>13. ASSUME NEW d \in Chains, d # c PROVE Same(d)
  <2>1. ASSUME NEW g \in Fds, owner'[g] # owner[g]
        PROVE  owner[g] \notin FilesOf(d) /\ owner'[g] \notin FilesOf(d)
    BY <1>9, <1>10, <1>13, <2>1, FilesDiffer
  <2> QED BY <1>1, <1>7, <1>8, <1>13, <2>1 DEF Same, data
<1>14. ASSUME NEW d \in Chains PROVE ContentInv(d)'
  <2>1. /\ \A e \in Chains : ContentInv(e)
        /\ \A e \in Chains \ {c} : log'[e] = log[e]
        /\ copied' = copied /\ short \subseteq short'
    BY <1>1, <1>7 DEF IoInv, data
  <2>2. /\ Len(log[c]) \in Nat /\ Len(log'[c]) \in Nat /\ Len(log[c]) # 4
        /\ Len(log'[c]) = Len(log[c]) + 1
    BY <1>4, <1>5, <1>7
  <2> QED BY <2>1, <2>2, ContentStays
<1> QED BY <1>11, <1>12, <1>13, <1>14, Together

LEMMA CloseFailsKeeps ==
  ASSUME IoInv, NEW c \in Chains, CloseFails(c)
  PROVE  IoInv'
<1> DEFINE fd == fileFd[c]
<1>1. /\ Ready(c, "close")
      /\ owner' = [owner EXCEPT ![fileFd[c]] = Free]
      /\ place' = [place EXCEPT ![c] = "failed"] /\ EndsThread(c)
      /\ UNCHANGED <<next, current, input, fileFd, ringFd, log, data>>
  BY DEF CloseFails
<1>2. place[c] = "queued" /\ ~current[c].async /\ KindOf(current[c].step) = "close"
  BY <1>1 DEF Ready
<1>3. /\ ChainTypeOK /\ OwnInv(c) /\ Live(c) /\ current[c].step \in Steps
      /\ Before(current[c].step) \in Nat
      /\ \A j \in 1 .. Len(log[c]) : log[c][j] = Intended[j]
  BY <1>2, Queued
<1>4. Len(log[c]) = Before(current[c].step)
  <2>1. Len(log[c]) = Before(current[c].step) + (IF current[c].async THEN 1 ELSE 0)
    BY <1>2, Queued
  <2> QED BY <1>2, <1>3, <2>1
<1>5. fd \in Fds /\ owner[fd] \in FilesOf(c)
  <2>1. current[c].step = 2 \/ current[c].step = LastStep BY <1>2, <1>3, StepsOfKinds
  <2>2. Holds(current[c].step) BY <2>1, ChainSizes DEF Holds
  <2>3. fd \in Fds /\ owner[fd] = <<c, Side(current[c].step)>>
    BY <1>3, <2>2 DEF OwnInv, FdInv
  <2>4. <<c, Side(current[c].step)>> \in FilesOf(c) BY DEF Side, FilesOf
  <2> QED BY <2>3, <2>4
<1>6. /\ owner' \in [Fds -> Files \cup {Free}] /\ owner'[fd] = Free
      /\ \A f \in Fds : f # fd => owner'[f] = owner[f]
  BY <1>1, <1>3, <1>5 DEF ChainTypeOK
<1>7. /\ stopped' \subseteq Chains
      /\ place' \in [Chains -> {"queued", "ring", "complete", "failed", "finished"}]
      /\ place'[c] = "failed" /\ \A d \in Chains : d # c => place'[d] = place[d]
  BY <1>1, <1>3, ThreadEnds
<1>8. ChainTypeOK' BY <1>1, <1>3, <1>6, <1>7 DEF ChainTypeOK, data
<1>9. OwnInv(c)'
  <2>1. \A f, g \in Fds : owner'[f] \in FilesOf(c) /\ owner'[g] \in FilesOf(c) => f = g
    <3>1. \A f \in Fds : owner'[f] \in FilesOf(c) => owner[f] \in FilesOf(c)
      BY <1>6, FilesDiffer
    <3> QED BY <1>3, <3>1 DEF OwnInv, FdInv
  <2>2. BuffersInv(c)' BY <1>1, <1>3 DEF OwnInv, BuffersInv, data
  <2>3. next' = next /\ current' = current /\ fileFd' = fileFd BY <1>1
  <2>4. Len(log'[c]) \in {Before(current[c].step), Before(current[c].step) + 1} BY <1>1, <1>4
  <2>5. \A j \in 1 .. Len(log'[c]) : log'[c][j] = Intended[j] BY <1>1, <1>3
  <2> QED BY <1>2, <1>3, <1>7, <2>1, <2>2, <2>3, <2>4, <2>5, FailedInv
<1>10. ASSUME NEW d \in Chains, d # c PROVE Same(d)
  <2>1. ASSUME NEW f \in Fds, owner'[f] # owner[f]
        PROVE  owner[f] \notin FilesOf(d) /\ owner'[f] \notin FilesOf(d)
    BY <1>5, <1>6, <1>10, <2>1, FilesDiffer
  <2> QED BY <1>1, <1>7, <1>10, <2>1 DEF Same, data
<1>11. ASSUME NEW d \in Chains PROVE ContentInv(d)'
  <2>1. ContentInv(d) BY DEF IoInv
  <2> QED BY <1>1, <2>1 DEF ContentInv, data
<1> QED BY <1>8, <1>9, <1>10, <1>11, Together

------------------------------------------------------------------------------
(* The theorems.                                                            *)

LEMMA InitChains == ChainInit => IoInv
<1> SUFFICES ASSUME ChainInit PROVE IoInv
  OBVIOUS
<1>1. 0 \in Steps /\ 0 \in Reached /\ Before(0) = 0 /\ 0 # LastStep
  BY ReachedSteps, SmallAfter
<1>2. Main(0) \in Task /\ Main(0).step = 0 /\ Main(0).async = FALSE
  BY <1>1, StepsAreTasks DEF Main
<1>3. ChainTypeOK
  <2>1. next \in [Chains -> [Task -> Task \cup {NoTask}]] BY BuiltLinks DEF ChainInit
  <2>2. log \in [Chains -> Seq({"open", "read", "write", "cpu", "close"})]
    <3>1. <<>> \in Seq({"open", "read", "write", "cpu", "close"}) OBVIOUS
    <3> QED BY <3>1 DEF ChainInit
  <2>3. owner \in [Fds -> Files \cup {Free}] BY DEF ChainInit
  <2> QED BY <1>2, <2>1, <2>2, <2>3 DEF ChainInit, ChainTypeOK, Inputs
<1>4. ASSUME NEW c \in Chains PROVE OwnInv(c) /\ ContentInv(c)
  <2>1. /\ current[c] = Main(0) /\ place[c] = "queued" /\ input[c] = "openInput"
        /\ next[c] = Built /\ log[c] = <<>> /\ Len(log[c]) = 0
        /\ \A f \in Fds : owner[f] = Free
    BY DEF ChainInit
  <2>2. current[c].step = 0 /\ current[c].async = FALSE BY <1>2, <2>1
  <2>3. StepInv(c) BY <1>1, <2>1, <2>2 DEF StepInv
  <2>4. LinksInv(c) BY <1>1, <2>1, <2>2, BuiltLinks DEF LinksInv
  <2>5. LogInv(c)
    <3>1. WorkLogged(c) = FALSE BY <2>1, <2>2 DEF WorkLogged
    <3>2. \A j \in 1 .. 0 : FALSE OBVIOUS
    <3>3. \A j \in 1 .. Len(log[c]) : log[c][j] = Intended[j] BY <2>1, <3>2
    <3>4. Len(log[c]) = Before(current[c].step) + (IF WorkLogged(c) THEN 1 ELSE 0)
      BY <1>1, <2>1, <2>2, <3>1
    <3> QED BY <2>1, <3>3, <3>4 DEF LogInv
  <2>6. InputInv(c) BY <2>1, <2>2 DEF InputInv
  <2>7. FdInv(c)
    <3>1. ~Holds(0) BY ChainSizes DEF Holds
    <3> QED BY <2>1, <2>2, <3>1, FilesDiffer DEF FdInv
  <2>8. RingInv(c) BY <2>1 DEF RingInv
  <2>9. BuffersInv(c) /\ ContentInv(c)
    <3>1. ~(0 >= 2) /\ ~(0 > 4) OBVIOUS
    <3> QED BY <2>1, <3>1, ChainSizes DEF BuffersInv, ContentInv
  <2> QED BY <2>3, <2>4, <2>5, <2>6, <2>7, <2>8, <2>9 DEF OwnInv
<1> QED BY <1>3, <1>4 DEF IoInv

LEMMA NextChains == IoInv /\ [ChainNext]_chainVars => IoInv'
<1> SUFFICES ASSUME IoInv, [ChainNext]_chainVars PROVE IoInv'
  OBVIOUS
<1>1. ASSUME NEW c \in Chains, Step(c) PROVE IoInv'
  BY <1>1, OpenKeeps, StartIoKeeps, IoCompletesKeeps, CollectIoKeeps, FinishIoKeeps, CloseKeeps,
     ComputeKeeps DEF Step
<1>2. ASSUME NEW c \in Chains, Fails(c) PROVE IoInv'
  <2>1. CASE OpenFails(c) BY <2>1, ThrowsKeeps DEF OpenFails, Ready
  <2>2. CASE BuffersFail(c) BY <2>2, BuffersFailKeeps
  <2>3. CASE IoFails(c) BY <2>3, ThrowsKeeps DEF IoFails
  <2>4. CASE CloseFails(c) BY <2>4, CloseFailsKeeps
  <2> QED BY <1>2, <2>1, <2>2, <2>3, <2>4 DEF Fails
<1>3. CASE UNCHANGED chainVars
  <2>1. /\ next' = next /\ current' = current /\ place' = place /\ stopped' = stopped
        /\ input' = input /\ fileFd' = fileFd /\ ringFd' = ringFd /\ owner' = owner /\ log' = log
        /\ buffers' = buffers /\ copied' = copied /\ short' = short
    BY <1>3 DEF chainVars, data
  <2>2. ChainTypeOK' BY <2>1 DEF IoInv, ChainTypeOK
  <2>3. ASSUME NEW d \in Chains PROVE OwnInv(d)' /\ ContentInv(d)'
    <3>1. OwnInv(d) /\ ContentInv(d) BY DEF IoInv
    <3>2. Same(d) BY <2>1 DEF Same
    <3>3. OwnInv(d)' BY <3>1, <3>2, OthersKeep
    <3> QED BY <2>1, <3>1, <3>3 DEF ContentInv
  <2> QED BY <2>2, <2>3 DEF IoInv
<1> QED BY <1>1, <1>2, <1>3 DEF ChainNext

\* The invariant of the chains.
THEOREM ChainsAlwaysAsBuilt == ChainSpec => []IoInv
BY InitChains, NextChains, PTL DEF ChainSpec

\* Every task gets the input that its process casts its void pointer to, in
\* chains of any length.
THEOREM InputsAreAlwaysOfTheirTypes == ChainSpec => []InputsAreOfTheirTypes
<1>1. IoInv => InputsAreOfTheirTypes
  <2> SUFFICES ASSUME IoInv, NEW c \in Chains, Live(c)
               PROVE  input[c] \in Expected(current[c])
    BY DEF IoInv, InputsAreOfTheirTypes, Live
  <2>1. ChainTypeOK /\ StepInv(c) /\ InputInv(c) BY DEF IoInv, OwnInv
  <2>2. current[c] \in Task /\ input[c] \in Inputs BY <2>1 DEF ChainTypeOK
  <2> DEFINE t == current[c]
             i == t.step
  <2>3. t.async \in BOOLEAN /\ i \in Steps BY <2>2, TaskIsStep
  <2>4. input[c] = CASE i = 0 -> "openInput"
                     [] i = 3 -> "openInputExtension"
                     [] OTHER -> "fileInput"
    BY <2>1 DEF InputInv
  <2>5. CASE t.async
    <3>1. KindOf(i) \in {"read", "write"} BY <2>1, <2>5 DEF StepInv
    <3>2. i # 0 /\ i # 3 BY <3>1, Kinds
    <3>3. input[c] = "fileInput" BY <2>4, <3>2
    <3>4. Expected(t) = {"fileInput"} BY <2>5 DEF Expected
    <3> QED BY <3>3, <3>4
  <2>6. CASE ~t.async /\ i = 0
    <3>1. input[c] = "openInput" BY <2>4, <2>6
    <3>2. Expected(t) = {"openInput"}
      <4>1. KindOf(i) = "open" /\ i # 3 BY <2>6, Kinds
      <4> QED BY <2>6, <4>1 DEF Expected
    <3> QED BY <3>1, <3>2
  <2>7. CASE ~t.async /\ i = 3
    <3>1. input[c] = "openInputExtension" BY <2>4, <2>7
    <3>2. Expected(t) = {"openInputExtension"}
      <4>1. KindOf(i) = "open" /\ i # 0 BY <2>7, Kinds
      <4> QED BY <2>7, <4>1 DEF Expected
    <3> QED BY <3>1, <3>2
  <2>8. CASE ~t.async /\ i # 0 /\ i # 3
    <3>1. input[c] = "fileInput" BY <2>4, <2>8
    <3>2. KindOf(i) \in {"read", "close", "write", "cpu"} BY <2>3, <2>8, StepsOfKinds
    <3>3. CASE KindOf(i) = "cpu"
      <4>1. Expected(t) = Inputs BY <2>8, <3>3 DEF Expected
      <4> QED BY <2>2, <4>1
    <3>4. CASE KindOf(i) \in {"read", "write"}
      <4>1. Expected(t) = {"fileInput"} BY <2>8, <3>4 DEF Expected
      <4> QED BY <3>1, <4>1
    <3>5. CASE KindOf(i) = "close"
      <4>1. Expected(t) = {"fileInput"} BY <2>8, <3>5 DEF Expected
      <4> QED BY <3>1, <4>1
    <3> QED BY <3>2, <3>3, <3>4, <3>5
  <2> QED BY <2>3, <2>5, <2>6, <2>7, <2>8
<1> QED BY <1>1, ChainsAlwaysAsBuilt, PTL

\* No request is of the file of another chain, for any number of chains and
\* descriptors.
THEOREM RequestsAreAlwaysOfOwnFiles == ChainSpec => []RequestsAreOfOwnFiles
<1>1. IoInv => RequestsAreOfOwnFiles
  <2> SUFFICES ASSUME IoInv, NEW c \in Chains, place[c] \in {"ring", "complete"}
               PROVE  /\ ringFd[c] # NoFd
                      /\ owner[ringFd[c]] = <<c, IF current[c].step = 1 THEN "in" ELSE "out">>
    BY DEF RequestsAreOfOwnFiles
  <2> DEFINE i == current[c].step
  <2>1. StepInv(c) /\ FdInv(c) /\ RingInv(c) /\ Live(c) BY DEF IoInv, OwnInv, Live
  <2>2. i \in Reached /\ i \in Steps /\ KindOf(i) \in {"read", "write"}
    BY <2>1, ReachedSteps DEF StepInv
  <2>3. Holds(i) /\ Side(i) = IF i = 1 THEN "in" ELSE "out"
    <3>1. i = 1 \/ i \in LoopSteps BY <2>2, StepsOfKinds
    <3>2. CASE i = 1 BY <3>2, ChainSizes DEF Holds, Side
    <3>3. CASE i \in LoopSteps
      <4>1. Holds(i) /\ Side(i) = "out" /\ i >= 4 /\ i \in Nat BY <2>2, <3>3, LoopAfter
      <4>2. i # 1 BY <4>1
      <4> QED BY <4>1, <4>2
    <3> QED BY <3>1, <3>2, <3>3
  <2>4. fileFd[c] \in Fds /\ owner[fileFd[c]] = <<c, Side(i)>> BY <2>1, <2>3 DEF FdInv
  <2>5. ringFd[c] = fileFd[c] BY <2>1 DEF RingInv
  <2> QED BY <2>3, <2>4, <2>5, ChainSizes
<1> QED BY <1>1, ChainsAlwaysAsBuilt, PTL

\* A chain has one file open at most, and none in the end, whatever descriptors
\* the others get in between.
THEOREM FilesAreAlwaysClosed == ChainSpec => []FilesAreClosed
<1>1. IoInv => FilesAreClosed
  <2> SUFFICES ASSUME IoInv, NEW c \in Chains
               PROVE  LET open == {f \in Fds : owner[f] \in {<<c, "in">>, <<c, "out">>}} IN
                      /\ Cardinality(open) <= 1
                      /\ place[c] = "finished" => open = {}
    BY DEF FilesAreClosed
  <2> DEFINE open == {f \in Fds : owner[f] \in {<<c, "in">>, <<c, "out">>}}
  <2>1. FdInv(c) BY DEF IoInv, OwnInv
  <2>2. open = {f \in Fds : owner[f] \in FilesOf(c)} BY DEF FilesOf
  <2>3. place[c] = "finished" => open = {} BY <2>1, <2>2 DEF FdInv
  <2>4. \A f, g \in open : f = g BY <2>1, <2>2 DEF FdInv
  <2> HIDE DEF open
  <2>5. Cardinality(open) <= 1
    <3>1. CASE open = {} BY <3>1, FS_EmptySet
    <3>2. CASE open # {}
      <4>1. PICK f \in open : TRUE BY <3>2
      <4>2. open = {f} BY <2>4, <4>1
      <4>3. Cardinality({f}) = 1 BY FS_Singleton
      <4> QED BY <4>2, <4>3
    <3> QED BY <3>1, <3>2
  <2> QED BY <2>3, <2>5 DEF open
<1> QED BY <1>1, ChainsAlwaysAsBuilt, PTL

\* The tasks of a chain of any length work on its files in the order of the
\* chain, each of them once.
THEOREM FilesAreAlwaysCopiedInOrder == ChainSpec => []FilesAreCopiedInOrder
<1>1. IoInv => FilesAreCopiedInOrder
  <2> SUFFICES ASSUME IoInv, NEW c \in Chains
               PROVE  /\ Len(log[c]) <= Len(Intended)
                      /\ log[c] = SubSeq(Intended, 1, Len(log[c]))
    BY DEF FilesAreCopiedInOrder
  <2> DEFINE s == log[c]
             i == current[c].step
  <2>1. ChainTypeOK /\ StepInv(c) /\ LogInv(c) BY DEF IoInv, OwnInv
  <2>2. s \in Seq(Work) /\ Len(s) \in Nat BY <2>1 DEF ChainTypeOK, Work
  <2>3. place[c] \in {"queued", "ring", "complete", "failed", "finished"} BY <2>1 DEF ChainTypeOK
  <2>4. Intended \in Seq(Work) /\ Len(Intended) = LastStep /\ LastStep \in Nat
    BY IntendedSteps, ChainSizes
  <2>5. Before(i) \in Nat /\ Before(i) + 1 <= LastStep
    <3>1. i \in Nat /\ i <= LastStep /\ i # LastStep - 1 BY <2>1, ReachedSteps DEF StepInv
    <3> QED BY <3>1, ChainSizes DEF Before
  <2>6. \A j \in 1 .. Len(s) : s[j] = Intended[j] BY <2>1 DEF LogInv
  <2>7. Len(s) <= LastStep
    <3>1. CASE Live(c)
      <4>1. Len(s) = Before(i) + (IF WorkLogged(c) THEN 1 ELSE 0) BY <2>1, <3>1 DEF LogInv
      <4> QED BY <2>2, <2>4, <2>5, <4>1
    <3>2. CASE place[c] = "finished"
      <4>1. Len(s) = LastStep BY <2>1, <3>2 DEF LogInv
      <4> QED BY <2>4, <4>1
    <3>3. CASE place[c] = "failed"
      <4>1. Len(s) \in {Before(i), Before(i) + 1} BY <2>1, <3>3 DEF LogInv
      <4> QED BY <2>2, <2>4, <2>5, <4>1
    <3> QED BY <2>3, <3>1, <3>2, <3>3 DEF Live
  <2> HIDE DEF s
  <2>8. s = SubSeq(Intended, 1, Len(s)) BY <2>2, <2>4, <2>6, <2>7
  <2> QED BY <2>4, <2>7, <2>8 DEF s
<1> QED BY <1>1, ChainsAlwaysAsBuilt, PTL

\* The output of a finished chain is a copy of its input, but for short transfers
\* and for chains that have just emptied it, however many chains write it.
THEOREM CopiesAreAlwaysComplete == ChainSpec => []CopiesAreComplete
<1>1. IoInv => CopiesAreComplete
  <2> SUFFICES ASSUME IoInv, NEW c \in Chains, place[c] = "finished"
               PROVE  \/ copied[FileNo[c]]
                      \/ FileNo[c] \in short
                      \/ \E d \in Chains \ {c} :
                            /\ FileNo[d] = FileNo[c]
                            /\ Len(log[d]) = FirstWrite
    BY DEF CopiesAreComplete
  <2>1. ContentInv(c) /\ LogInv(c) BY DEF IoInv, OwnInv
  <2>2. Len(log[c]) = LastStep BY <2>1 DEF LogInv
  <2>3. LastStep > 4 /\ FirstWrite = 4 BY ChainSizes
  <2> QED BY <2>1, <2>2, <2>3 DEF ContentInv
<1> QED BY <1>1, ChainsAlwaysAsBuilt, PTL
==============================================================================
