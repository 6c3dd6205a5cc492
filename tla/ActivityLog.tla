----------------------------- MODULE ActivityLog -----------------------------
(***************************************************************************)
(* What the activity recorder promises, without saying how: a device has a *)
(* log of the readings that were accepted for it, strictly ordered in      *)
(* time, and its events are a function of that log.                        *)
(*                                                                         *)
(* A device is active after a high reading, and still active after one low *)
(* reading that follows a high one of the same outlet (the two-low-samples *)
(* debounce).  An event is a longest stretch of active readings of one     *)
(* outlet.  It ends with the second low reading, or, when the device was   *)
(* moved to another outlet, with the last reading of the old one.          *)
(*                                                                         *)
(* ActivityRecorder is shown to implement this.                            *)
(***************************************************************************)
EXTENDS Naturals, Sequences, FiniteSetsExt

CONSTANTS
    Device,     \* equipment ids
    Outlet,     \* bindings: the switch entity a reading was taken through
    NoOutlet,   \* the empty binding: a sample replayed from before bindings
    Time,       \* wall-clock readings of the host
    Open        \* the end of an event that has none

VARIABLES
    log,        \* log[d]: the readings accepted for d, oldest first
    forgotten,  \* events that the retention has deleted, by device and start
    events      \* the table of events

Reading == [at : Time, outlet : Outlet \cup {NoOutlet}, high : BOOLEAN]

(***************************************************************************)
(* The events of one log.                                                  *)
(***************************************************************************)
SameOutlet(p, q) == p.outlet \in {q.outlet, NoOutlet}

Active(l, i) ==
    \/ l[i].high
    \/ i > 1 /\ l[i - 1].high /\ SameOutlet(l[i - 1], l[i])

\* The reading i belongs to the event of the reading before it.
Continues(l, i) ==
    /\ i > 1
    /\ Active(l, i - 1)
    /\ Active(l, i)
    /\ SameOutlet(l[i - 1], l[i])

Begins(l, i) == Active(l, i) /\ ~Continues(l, i)

\* The last reading of the event that begins with reading i.
LastOf(l, i) == Max({j \in i..Len(l) : \A k \in (i + 1)..j : Continues(l, k)})

EndOf(l, i) ==
    LET j == LastOf(l, i)
    IN IF j = Len(l) THEN Open
       ELSE IF SameOutlet(l[j], l[j + 1]) THEN l[j + 1].at ELSE l[j].at

EventsOf(d, l) ==
    {[device |-> d, start |-> l[i].at, end |-> EndOf(l, i)] :
        i \in {k \in DOMAIN l : Begins(l, k)}}

Remembered(lg, gone) ==
    {e \in UNION {EventsOf(d, lg[d]) : d \in Device} :
        <<e.device, e.start>> \notin gone}

(***************************************************************************)
(* The history may hold readings from before the program first ran.        *)
(***************************************************************************)
Init ==
    /\ log \in [Device -> Seq(Reading)]
    /\ forgotten = {}
    /\ events = Remembered(log, forgotten)

\* A reading is accepted if it is newer than all before it.
Accept(d, r) ==
    /\ \A i \in DOMAIN log[d] : log[d][i].at < r.at
    /\ log' = [log EXCEPT ![d] = Append(@, r)]
    /\ events' = Remembered(log', forgotten)
    /\ UNCHANGED forgotten

\* The retention deletes the events that began before the cutoff, an open one too.
Forget(cutoff) ==
    /\ forgotten' = forgotten \cup
         {<<e.device, e.start>> : e \in {x \in events : x.start < cutoff}}
    /\ events' = Remembered(log, forgotten')
    /\ UNCHANGED log

Next ==
    \/ \E d \in Device, r \in Reading : Accept(d, r)
    \/ \E cutoff \in Time : Forget(cutoff)

Spec == Init /\ [][Next]_<<log, forgotten, events>>
=============================================================================
