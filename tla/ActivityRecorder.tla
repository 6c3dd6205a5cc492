--------------------------- MODULE ActivityRecorder ---------------------------
(***************************************************************************)
(* The recorder of equipment activity, internal/storage/activity.go with   *)
(* the replay and the retention that meet it in the same tables.           *)
(*                                                                         *)
(* RecordEquipmentReading holds activityMu and commits sample, event and   *)
(* checkpoint in one transaction, so it is one step; a crash or an error   *)
(* before the commit is no step.  An event is known by its device and      *)
(* start, which are as unique as its row id: a device's readings have      *)
(* strictly increasing times.  Peaks, sample counts and durations are left *)
(* out.  Nothing is assumed of the wall clock that stamps the readings:    *)
(* the host has none that survives a power cut.                            *)
(***************************************************************************)
EXTENDS Integers, Sequences, FiniteSets

CONSTANTS Device, Outlet, NoOutlet, Open,
    NoCheckpoint,   \* there is no row activity.v2.<id> yet
    MaxTime,        \* bound: the instants of the wall clock are 1..MaxTime
    SampleAge       \* 24 hours: how long samples are kept, in such instants

ASSUME RecorderAssumption ==
    /\ IsFiniteSet(Device)
    /\ NoOutlet \notin Outlet
    /\ MaxTime \in Nat /\ SampleAge \in Nat
    /\ Open \notin Nat

VARIABLES
    checkpoint, \* activityState, as saved with each sample
    events,     \* equipment_events
    samples,    \* outlet_samples: [device, at, high]
    replay,     \* the samples that BackfillEquipmentEvents has still to replay
    log,        \* history: the readings accepted for each device
    forgotten   \* history: the events that the retention deleted

recorder == <<checkpoint, events, samples, replay, log, forgotten>>

Time == 1..MaxTime
NoEvent == 0
Binding == Outlet \cup {NoOutlet}

State == [last : 0..MaxTime, event : 0..MaxTime, low : 0..2, binding : Binding]
Event == [device : Device, start : Time, end : Time \cup {Open}]
Sample == [device : Device, at : Time, high : BOOLEAN]

ASSUME CheckpointAssumption == NoCheckpoint \notin State

Log == INSTANCE ActivityLog

(***************************************************************************)
(* loadActivityState: the checkpoint, or what history without one says.    *)
(***************************************************************************)
Newest(S) == CHOOSE x \in S : \A y \in S : y.at <= x.at
EventsFor(d) == {e \in events : e.device = d}
SamplesFor(d) == {x \in samples : x.device = d}

Fresh == [last |-> 0, event |-> NoEvent, low |-> 0, binding |-> NoOutlet]

\* How many of the device's two newest samples are low, counted from the newest.
TrailingLow(d) ==
    LET first == Newest(SamplesFor(d))
        older == SamplesFor(d) \ {first}
    IN IF SamplesFor(d) = {} \/ first.high THEN 0
       ELSE IF older = {} \/ Newest(older).high THEN 1 ELSE 2

AdoptOpen(d, e) ==
    [Fresh EXCEPT !.event = e.start,
                  !.last = IF SamplesFor(d) = {} THEN e.start
                           ELSE Newest(SamplesFor(d)).at,
                  !.low = TrailingLow(d)]

Adopted(d) ==
    IF EventsFor(d) = {} THEN Fresh
    ELSE LET e == CHOOSE x \in EventsFor(d) :
                      \A y \in EventsFor(d) : y.start <= x.start
         IN IF e.end = Open THEN AdoptOpen(d, e)
            ELSE [Fresh EXCEPT !.last = e.end]

Loaded(d) ==
    IF checkpoint[d] = NoCheckpoint THEN Adopted(d) ELSE checkpoint[d]

(***************************************************************************)
(* RecordEquipmentReading.                                                 *)
(***************************************************************************)
CloseEvent(E, d, start, end) ==
    {IF e.device = d /\ e.start = start /\ e.end = Open
     THEN [e EXCEPT !.end = end] ELSE e : e \in E}

\* The event was over before this reading: two low samples of an older program
\* that died before closing it, or readings that now come from another outlet.
OverBefore(s, o) ==
    \/ s.low >= 2
    \/ o # NoOutlet /\ s.binding # NoOutlet /\ o # s.binding

\* Mutant: a low reading is counted while no event is open, too.
AfterCountsIdle(s, o, at, high) ==
    [last |-> at, binding |-> IF o # NoOutlet THEN o ELSE s.binding,
     event |-> IF high THEN at ELSE NoEvent, low |-> IF high THEN 0 ELSE s.low + 1]

\* Mutant: the time of the checkpoint is rounded up.
AfterRoundsUp(s, o, at, high) ==
    [last |-> at + 1, binding |-> o, event |-> IF high THEN at ELSE NoEvent, low |-> 0]

\* The checkpoint after a reading, given the checkpoint before it.
After(s, o, at, high) ==
    LET over == s.event # NoEvent /\ OverBefore(s, o)
        run  == IF over THEN NoEvent ELSE s.event
        low  == IF over THEN 0 ELSE s.low
    IN [last    |-> at,
        binding |-> IF o # NoOutlet THEN o ELSE s.binding,
        event   |-> IF high THEN (IF run = NoEvent THEN at ELSE run)
                    ELSE IF low + 1 >= 2 THEN NoEvent ELSE run,
        low     |-> IF high \/ run = NoEvent \/ low + 1 >= 2 THEN 0 ELSE low + 1]

EventsAfter(d, s, o, at, high) ==
    LET over == s.event # NoEvent /\ OverBefore(s, o)
        t    == After(s, o, at, high)
        old  == IF over THEN CloseEvent(events, d, s.event, s.last) ELSE events
    IN IF t.event = at
       THEN old \cup {[device |-> d, start |-> at, end |-> Open]}
       ELSE IF t.event = NoEvent /\ s.event # NoEvent /\ ~over
       THEN CloseEvent(old, d, s.event, at)
       ELSE old

StaleIfOlder(d, at) == at < Loaded(d).last   \* mutant: off by one

\* A reading that is not newer than the last one changes nothing at all.
Stale(d, at) == at <= Loaded(d).last

Record(d, o, at, high) ==
    LET s == Loaded(d)
        t == After(s, o, at, high)
    IN IF Stale(d, at) THEN UNCHANGED <<checkpoint, events, samples, log>>
       ELSE /\ checkpoint' = [checkpoint EXCEPT ![d] = t]
            /\ events' = EventsAfter(d, s, o, at, high)
            /\ samples' = {x \in samples \cup {[device |-> d, at |-> at, high |-> high]} :
                              x.at >= at - SampleAge}
            /\ log' = [log EXCEPT ![d] =
                          Append(@, [at |-> at, outlet |-> t.binding, high |-> high])]

(***************************************************************************)
(* The callers.                                                            *)
(***************************************************************************)
\* A reading of the monitor.  Run replays first and starts the polls then.
Live(d, o, at, high) ==
    /\ replay = {}
    /\ Record(d, o, at, high)
    /\ UNCHANGED <<replay, forgotten>>

\* BackfillEquipmentEvents, one sample: oldest first, with no binding.
Replay(x) ==
    /\ x \in replay
    /\ \A y \in replay : y.device = x.device => x.at <= y.at
    /\ Record(x.device, NoOutlet, x.at, x.high)
    /\ replay' = replay \ {x}
    /\ UNCHANGED forgotten

\* An error ends the replay of the device.
ReplayFails(d) ==
    /\ replay' = {x \in replay : x.device # d}
    /\ UNCHANGED <<checkpoint, events, samples, log, forgotten>>

\* A new process replays the samples of the devices that are monitored.
Boot(monitored, now) ==
    /\ replay' = {x \in samples : x.device \in monitored /\ x.at >= now - SampleAge}
    /\ UNCHANGED <<checkpoint, events, samples, log, forgotten>>

\* CleanupRetention.  Not run here while old history waits to be adopted:
\* retention is off by default and its shortest setting is 30 days.
Cleanup(cutoff) ==
    /\ \A d \in Device : checkpoint[d] = NoCheckpoint => EventsFor(d) = {}
    /\ events' = {e \in events : e.start >= cutoff}
    /\ forgotten' = forgotten \cup {<<e.device, e.start>> : e \in events \ events'}
    /\ UNCHANGED <<checkpoint, samples, replay, log>>

(***************************************************************************)
(* History written by an older program: readings one instant apart, their  *)
(* samples saved each before its event is started or closed, no bindings.  *)
(***************************************************************************)
History(high) ==
    [i \in 1..Len(high) |-> [at |-> i, outlet |-> NoOutlet, high |-> high[i]]]

\* What was recorded of a history, and whether the program died before the
\* event table caught up with the last sample.
Histories ==
    {h \in {<<>>, <<TRUE>>, <<TRUE, FALSE>>, <<TRUE, FALSE, FALSE>>} : Len(h) <= MaxTime}

Recorded(d, h, caughtUp) ==
    {IF caughtUp THEN e ELSE [e EXCEPT !.end = Open] : e \in Log!EventsOf(d, h)}

NoHistory ==
    /\ checkpoint = [d \in Device |-> NoCheckpoint]
    /\ log = [d \in Device |-> <<>>]
    /\ events = {} /\ samples = {} /\ replay = {} /\ forgotten = {}

OldHistory ==
    \E h \in [Device -> Histories], caughtUp \in BOOLEAN :
        /\ checkpoint = [d \in Device |-> NoCheckpoint]
        /\ log = [d \in Device |-> History(h[d])]
        /\ events = UNION {Recorded(d, log[d], caughtUp) : d \in Device}
        /\ samples = UNION {{[device |-> d, at |-> log[d][i].at, high |-> log[d][i].high] :
                                 i \in DOMAIN log[d]} : d \in Device}
        /\ replay = {} /\ forgotten = {}

\* An older program that saved samples and never an event.
OldSamples ==
    \E h \in [Device -> Histories] :
        /\ checkpoint = [d \in Device |-> NoCheckpoint]
        /\ log = [d \in Device |-> <<>>]
        /\ events = {}
        /\ samples = UNION {{[device |-> d, at |-> i, high |-> h[d][i]] :
                                 i \in DOMAIN h[d]} : d \in Device}
        /\ replay = {} /\ forgotten = {}

Init == OldHistory \/ OldSamples

Next ==
    \/ \E d \in Device, o \in Outlet, at \in Time, high \in BOOLEAN : Live(d, o, at, high)
    \/ \E x \in replay : Replay(x)
    \/ \E d \in Device : ReplayFails(d)
    \/ \E now \in Time : Boot(Device, now)
    \/ \E cutoff \in Time : Cleanup(cutoff)

Spec == Init /\ [][Next]_recorder

(***************************************************************************)
(* Properties.                                                             *)
(***************************************************************************)
\* The types.
TypeOK ==
    /\ checkpoint \in [Device -> State \cup {NoCheckpoint}]
    /\ events \subseteq Event
    /\ samples \subseteq Sample
    /\ replay \subseteq Sample
    /\ log \in [Device -> Seq(Log!Reading)]
    /\ forgotten \subseteq Device \X Time

\* The events as a reader of the table will see them once the recorder has
\* closed the event an older program left open after two low samples.
Settled ==
    {IF /\ e.end = Open
        /\ checkpoint[e.device] = NoCheckpoint
        /\ Loaded(e.device).low >= 2
     THEN [e EXCEPT !.end = Loaded(e.device).last] ELSE e : e \in events}

Promise == INSTANCE ActivityLog WITH events <- Settled

\* Live readings, replays, restarts between any two of them and the retention
\* leave the events that follow from the accepted readings: each run of a device
\* is counted once, by one event of one outlet, whatever the clock does.
\* "the sole live/replay event transition path" (activity.go).
KeepsPromise == Promise!Spec
=============================================================================
