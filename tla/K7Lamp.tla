------------------------------- MODULE K7Lamp -------------------------------
(***************************************************************************)
(* The K7 lamp and the hub's only owner of the connection to it            *)
(* (internal/lamp/lamp.go over internal/k7tcp/client.go).                  *)
(*                                                                         *)
(* The lamp itself is external: it keeps a 24-slot schedule and a manual   *)
(* level (0x1007 writes both and chooses between them), a clock, and a     *)
(* level written live (0x1005) that it holds until the next 0x1007.        *)
(*                                                                         *)
(* Every operation runs to completion under one mutex, the lamp gate, so   *)
(* one operation is one step here.  What can go wrong inside it is its     *)
(* outcome: the connection is refused, or the bytes leave the hub and the  *)
(* lamp never acts on them, which the client cannot tell from success      *)
(* because the acknowledgement is drained and not examined.                *)
(***************************************************************************)
EXTENDS Naturals

CONSTANTS
    Schedule,    \* the 24-slot schedules that can be pushed
    Blank,       \* the all-zero schedule of a fresh store
    Phase,       \* the moments of the day that the output depends on
    Faults,      \* the kinds of fault that happen
    MaxFaults    \* bound: faults in a behaviour

(* A write the lamp never acts on; the Wi-Fi link down for a while; the    *)
(* lamp switched off and on.                                               *)
FaultKind == {"loss", "outage", "power"}

ASSUME LampAssumption ==
    /\ Blank \in Schedule
    /\ Phase # {}
    /\ Faults \subseteq FaultKind
    /\ MaxFaults \in Nat

VARIABLES
    lamp,        \* what the lamp holds
    link,        \* is the lamp reachable over Wi-Fi?
    faults,      \* faults spent so far (bound: MaxFaults)
    awake,       \* demand window: now < activeUntil
    failing,     \* consecFail > 0
    recovered    \* an onReconnect goroutine has been started and has not run

lampVars == <<lamp, link, faults, awake, failing, recovered>>

-----------------------------------------------------------------------------
(* Levels: what six channel values can stand for. *)

OverrideSource == {"feed", "maintenance"}
OverrideLevel == {"override"} \X OverrideSource
CurveLevel == {"curve"} \X Schedule \X Phase   \* Compute(schedule) at a moment
ManualLevel == {<<"manual">>}
Level == OverrideLevel \cup CurveLevel \cup ManualLevel
NoLevel == <<"none">>

Lamp == [sched: Schedule, auto: BOOLEAN, manual: ManualLevel,
         hand: Level \cup {NoLevel}, clock: BOOLEAN]

LampTypeOK ==
    /\ lamp \in Lamp
    /\ link \in BOOLEAN
    /\ faults \in 0..MaxFaults
    /\ awake \in BOOLEAN
    /\ failing \in BOOLEAN
    /\ recovered \in BOOLEAN

(* main wires the lamp with demandOnly set and no window open. *)
LampInit ==
    /\ lamp \in [sched: Schedule \ {Blank}, auto: {TRUE}, manual: ManualLevel,
                 hand: {NoLevel}, clock: {TRUE}]
    /\ link = TRUE
    /\ faults = 0
    /\ awake = FALSE
    /\ failing = FALSE
    /\ recovered = FALSE

-----------------------------------------------------------------------------
(* The lamp's reaction to one packet.  0x1003 and 0x1007 carry the hub's   *)
(* own time of day: the lamp's clock is right when the hub's is.           *)

Hand(v) == [lamp EXCEPT !.hand = v]
SyncTime(sane) == [lamp EXCEPT !.clock = sane]
PushSchedule(s, auto, manual, sane) ==
    [sched |-> s, auto |-> auto, manual |-> manual, hand |-> NoLevel, clock |-> sane]

Fault(kind) == kind \in Faults /\ faults < MaxFaults /\ faults' = faults + 1

(* One exchange with the lamp: connect, write, drain the acknowledgement.  *)
(* ok is what the caller is told.                                          *)
Exchange(new, ok) ==
    \/ /\ link /\ ok
       /\ lamp' = new
       /\ UNCHANGED faults
    \/ /\ link /\ ok
       /\ Fault("loss")
       /\ UNCHANGED lamp
    \/ /\ ~link /\ ~ok
       /\ UNCHANGED <<lamp, faults>>

(* An operation through Lamp.do: refused while the demand window is shut,  *)
(* otherwise the outcome feeds the failure streak, and the first success   *)
(* after a failure starts an onReconnect goroutine.                        *)
Do(new, ok) ==
    \/ /\ ~awake /\ ~ok
       /\ UNCHANGED lampVars
    \/ /\ awake
       /\ Exchange(new, ok)
       /\ failing' = ~ok
       /\ recovered' = (recovered \/ (ok /\ failing))
       /\ UNCHANGED <<link, awake>>

(* An operation of httpapi: the same gate, but neither the demand window   *)
(* nor the failure streak takes part.                                      *)
Direct(new, ok) ==
    /\ Exchange(new, ok)
    /\ UNCHANGED <<link, awake, failing, recovered>>

-----------------------------------------------------------------------------
(* POST and DELETE /api/hub/k7/session, and the window running out. *)
Touch == awake' = TRUE /\ UNCHANGED <<lamp, link, faults, failing, recovered>>

Sleep == awake' = FALSE /\ UNCHANGED <<lamp, link, faults, failing, recovered>>

DemandExpires == awake /\ Sleep

(* The Wi-Fi link drops and returns; the lamp loses power, and with it the *)
(* clock and the live level, and keeps its stored schedule.                *)
LinkDown ==
    /\ link
    /\ Fault("outage")
    /\ link' = FALSE
    /\ UNCHANGED <<lamp, awake, failing, recovered>>

LinkUp ==
    /\ ~link
    /\ link' = TRUE
    /\ UNCHANGED <<lamp, faults, awake, failing, recovered>>

PowerCycle ==
    /\ Fault("power")
    /\ link' = FALSE
    /\ lamp' = [lamp EXCEPT !.hand = NoLevel, !.clock = FALSE]
    /\ UNCHANGED <<awake, failing, recovered>>

=============================================================================
