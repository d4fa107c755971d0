------------------------------- MODULE History -------------------------------
(***************************************************************************)
(* The history of a task: history.cc, and which penalties follow from it.  *)
(*                                                                         *)
(* addEvent appends an event and then takes time off the oldest events     *)
(* until the history is short enough; each turn of that loop is an action, *)
(* and nothing else happens until the loop is done.  A history belongs to  *)
(* one task at a time: the next task of a chain gets a copy.               *)
(***************************************************************************)
EXTENDS Interactivity, Sequences

CONSTANTS
    Threshold,  \* HISTORY_THRESHOLD, in milliseconds
    Durations,  \* how many milliseconds an event may last
    MaxEvents   \* bound on the events a history has when one is added

ASSUME HistoryAssumption ==
    /\ Threshold \in Nat \ {0}
    /\ Durations \subseteq Nat
    /\ MaxEvents \in Nat

VARIABLES
    events,     \* History::events, oldest first
    runTime,    \* run_time
    sleepTime,  \* sleep_time
    trimming    \* addEvent is in its loop

historyVars == <<events, runTime, sleepTime, trimming>>

Types == {"CPU", "IO"}
Event == [type : Types, duration : Nat]

HistoryTypeOK ==
    /\ events \in Seq(Event)
    /\ runTime \in Nat
    /\ sleepTime \in Nat
    /\ trimming \in BOOLEAN

HistoryInit ==
    /\ events = <<>>
    /\ runTime = 0
    /\ sleepTime = 0
    /\ trimming = FALSE

Total == runTime + sleepTime

\* n milliseconds fewer of one type.
TakeOff(type, n) ==
    /\ runTime' = IF type = "CPU" THEN runTime - n ELSE runTime
    /\ sleepTime' = IF type = "IO" THEN sleepTime - n ELSE sleepTime

\* addEvent up to its loop.
AddEvent(type, d) ==
    /\ ~trimming
    /\ Len(events) < MaxEvents
    /\ events' = Append(events, [type |-> type, duration |-> d])
    /\ runTime' = IF type = "CPU" THEN runTime + d ELSE runTime
    /\ sleepTime' = IF type = "IO" THEN sleepTime + d ELSE sleepTime
    /\ trimming' = TRUE

TooLong == events # <<>> /\ Total > Threshold

\* The oldest event is pushed back as it was.
ShortenSumsOnly ==
    LET extra == Total - Threshold IN
    /\ trimming
    /\ TooLong
    /\ Total - Head(events).duration < Threshold
    /\ TakeOff(Head(events).type, extra)
    /\ UNCHANGED <<events, trimming>>

\* The oldest event is needed in part: it is shortened and pushed back.
ShortenOldest ==
    LET extra == Total - Threshold IN
    /\ trimming
    /\ TooLong
    /\ Total - Head(events).duration < Threshold
    /\ events' = [events EXCEPT ![1].duration = @ - extra]
    /\ TakeOff(Head(events).type, extra)
    /\ UNCHANGED trimming

\* The sums are updated, but the event is not popped.
DropNothing ==
    /\ trimming
    /\ TooLong
    /\ Total - Head(events).duration >= Threshold
    /\ UNCHANGED historyVars

\* The newest event is popped.
DropNewest ==
    LET last == events[Len(events)] IN
    /\ trimming
    /\ TooLong
    /\ Total - Head(events).duration >= Threshold
    /\ events' = SubSeq(events, 1, Len(events) - 1)
    /\ TakeOff(last.type, last.duration)
    /\ UNCHANGED trimming

\* The oldest event is not needed.
DropOldest ==
    /\ trimming
    /\ TooLong
    /\ Total - Head(events).duration >= Threshold
    /\ events' = Tail(events)
    /\ TakeOff(Head(events).type, Head(events).duration)
    /\ UNCHANGED trimming

EventAdded ==
    /\ trimming
    /\ ~TooLong
    /\ trimming' = FALSE
    /\ UNCHANGED <<events, runTime, sleepTime>>

Trim == ShortenOldest \/ DropOldest \/ EventAdded

HistoryNext ==
    \/ \E type \in Types : \E d \in Durations : AddEvent(type, d)
    \/ Trim

HistorySpec == HistoryInit /\ [][HistoryNext]_historyVars

\* The loop of addEvent runs; nothing makes events happen.
FairHistorySpec == HistorySpec /\ WF_historyVars(Trim)

------------------------------------------------------------------------------
(* Properties.                                                              *)

TimeOf(type, seq) ==
    LET sum[i \in 0 .. Len(seq)] ==
          IF i = 0 THEN 0
          ELSE sum[i - 1] + (IF seq[i].type = type THEN seq[i].duration ELSE 0)
    IN sum[Len(seq)]

\* run_time and sleep_time, which are kept beside the events and never
\* recomputed, are the times of the events, also after an event was split
\* between what is kept and what is not (history.cc:9-36).
SumsMatchEvents ==
    /\ HistoryTypeOK
    /\ runTime = TimeOf("CPU", events)
    /\ sleepTime = TimeOf("IO", events)

\* What was done in each millisecond of the events.
Milliseconds ==
    LET flat[i \in 0 .. Len(events)] ==
          IF i = 0 THEN <<>>
          ELSE flat[i - 1] \o [j \in 1 .. events[i].duration |-> events[i].type]
    IN flat[Len(events)]

Window == INSTANCE SlidingWindow WITH
    window <- IF Len(Milliseconds) <= Threshold THEN Milliseconds
              ELSE SubSeq(Milliseconds, Len(Milliseconds) - Threshold + 1,
                          Len(Milliseconds))

\* However the events are split, the history is that of the last
\* HISTORY_THRESHOLD milliseconds: the loop neither forgets time it should
\* keep nor reorders it, and only adding an event changes it
\* (history.cc:16-35).
ImplementsWindow == Window!WindowSpec

\* The loop of addEvent comes to an end and leaves no more than
\* HISTORY_THRESHOLD: neither an event that lasts longer than that, nor one of
\* no length, nor one that ends on the threshold keeps it going round
\* (history.cc:16).
TrimEnds == trimming ~> ~trimming /\ Total <= Threshold

\* A chain whose penalty makes it interactive at niceness 0 slept more than it
\* ran, in the proportion of Half to Thresh at least but for rounding, and one
\* that slept less than it ran has a penalty of Half or more: whatever the
\* rounding of the divisions, CPU-bound chains are batch (task.cc:77-89, :111).
OnlySleepersAreInteractive ==
    ~trimming =>
        \A p \in Penalties(runTime, sleepTime) :
            /\ p \in 0 .. 2 * Half
            /\ p < Thresh => Half * runTime <= Thresh * sleepTime
            /\ sleepTime < runTime => p >= Half
==============================================================================
