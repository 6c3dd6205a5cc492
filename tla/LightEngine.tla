----------------------------- MODULE LightEngine -----------------------------
(***************************************************************************)
(* The always-on lighting engine (internal/engine/engine.go) with the      *)
(* callbacks main wires into it: Republish (internal/httpapi/server.go)    *)
(* and the drift check (cmd/reeftank-hub/main.go).                         *)
(*                                                                         *)
(* The engine is one goroutine.  Its fields are guarded by a mutex that it *)
(* takes several times in one tick, so the other goroutines can act        *)
(* between those sections: each section, and each exchange with the lamp,  *)
(* is one action, and "at" is where the goroutine stands.  Three channels  *)
(* of capacity one wake it; a send to a full one is dropped.               *)
(***************************************************************************)
EXTENDS K7Lamp

CONSTANTS
    Minutes,     \* smooth-ramp cadences that can be configured
    OffMinutes,  \* the cadence of a dormant engine
    BootClock    \* is the host clock right at boot?  {FALSE} without a battery

ASSUME EngineAssumption ==
    /\ Minutes \subseteq Nat /\ Minutes # {}
    /\ OffMinutes \in Nat
    /\ BootClock \subseteq BOOLEAN

VARIABLES
    phase,       \* the moment of the day
    clockSane,   \* has the host clock been set since boot?
    store,       \* httpapi's working state
    fx,          \* smooth-ramp part of effects.json
    override,    \* Feed / Maintenance
    overrideWas, \* was an override active on the previous tick?
    live,        \* is the engine the live driver?
    lastSent,    \* what the lamp was last told; NoLevel while haveSent is false
    source,      \* status.Source: what the last tick's output came from
    interval,    \* cadence asked for
    cadence,     \* cadence of the running ticker
    tickNow, reticker, maintNow,   \* the three channels, full or empty
    at,          \* where the engine goroutine stands
    booted,      \* has Run reached its loop?
    tick,        \* the locals of step()
    copy         \* the state Republish or the drift check copied

loopVars == <<booted, cadence, reticker>>
settings == <<override, live, interval>>
stepVars == <<tick, overrideWas, lastSent, source>>
engineVars == <<settings, loopVars, stepVars, tickNow, maintNow, at, copy>>
hostVars == <<phase, clockSane>>
dataVars == <<store, fx>>

-----------------------------------------------------------------------------
(* An override runs until its deadline.  The engine compares the deadline  *)
(* by the wall clock (Time.In strips the monotonic reading), the handlers  *)
(* by the monotonic clock, so a clock that is set while an override runs   *)
(* ends it for the one and not for the others: "jumped".                   *)
NoOverride == [src |-> "none", until |-> "past"]
Override == [src: OverrideSource, until: {"future", "jumped", "past"}] \cup {NoOverride}

EngineSeesOverride == override.until = "future"
HandlerSeesOverride(src) == override.src = src /\ override.until \in {"future", "jumped"}

Store == [sched: Schedule, auto: BOOLEAN, manual: ManualLevel, pushed: BOOLEAN]
Effects == [active: BOOLEAN, minutes: Minutes]
Copy == [sched: Schedule, auto: BOOLEAN, manual: ManualLevel]
Source == OverrideSource \cup {"schedule"}
Tick == [was: BOOLEAN, live: BOOLEAN, source: Source,
         out: Level \cup {NoLevel}, ok: BOOLEAN]
Place == {"idle", "step", "compute", "decide", "hand", "book", "rearm", "rearmSend",
          "sync", "snap", "drift", "repush", "repushSend"}

Working(s) == [sched |-> s.sched, auto |-> s.auto, manual |-> s.manual]
NoCopy == [sched |-> Blank, auto |-> TRUE, manual |-> <<"manual">>]
NoTick == [was |-> FALSE, live |-> FALSE, source |-> "schedule",
           out |-> NoLevel, ok |-> FALSE]

EngineTypeOK ==
    /\ phase \in Phase
    /\ clockSane \in BOOLEAN
    /\ store \in Store
    /\ fx \in Effects
    /\ override \in Override
    /\ overrideWas \in BOOLEAN
    /\ live \in BOOLEAN
    /\ lastSent \in Level \cup {NoLevel}
    /\ source \in Source
    /\ interval \in Minutes \cup {OffMinutes}
    /\ cadence \in Minutes \cup {OffMinutes}
    /\ tickNow \in BOOLEAN /\ reticker \in BOOLEAN /\ maintNow \in BOOLEAN
    /\ at \in Place
    /\ booted \in BOOLEAN
    /\ tick \in Tick
    /\ copy \in Copy

(* Engine state of a fresh process: main wires it with a ten-minute        *)
(* interval and the saved mode, which kicks it when that is the ramp, and  *)
(* starts Run.                                                             *)
EngineStart ==
    /\ override = NoOverride /\ overrideWas = FALSE
    /\ live = fx.active
    /\ lastSent = NoLevel /\ source = "schedule"
    /\ interval = OffMinutes /\ cadence = OffMinutes
    /\ tickNow = fx.active /\ reticker = FALSE /\ maintNow = FALSE
    /\ at = "sync" /\ booted = FALSE
    /\ tick = NoTick
    /\ copy = NoCopy

EngineInit ==
    /\ phase \in Phase
    /\ clockSane \in BootClock
    /\ store \in [sched: {Blank}, auto: {TRUE}, manual: ManualLevel, pushed: {FALSE}]
                 \cup [sched: {lamp.sched}, auto: {TRUE}, manual: ManualLevel, pushed: {TRUE}]
    /\ fx \in Effects
    /\ EngineStart

-----------------------------------------------------------------------------
(* Run's select loop. *)

Loop == at = "idle"

TickerFires ==
    /\ Loop
    /\ at' = "step"
    /\ UNCHANGED <<settings, loopVars, stepVars, tickNow, maintNow, copy, lampVars, hostVars, dataVars>>

TakeTickNow ==
    /\ Loop /\ tickNow
    /\ tickNow' = FALSE
    /\ at' = "step"
    /\ UNCHANGED <<settings, loopVars, stepVars, maintNow, copy, lampVars, hostVars, dataVars>>

TakeReticker ==
    /\ Loop /\ reticker
    /\ reticker' = FALSE
    /\ cadence' = interval
    /\ UNCHANGED <<settings, stepVars, tickNow, maintNow, at, booted, copy, lampVars, hostVars, dataVars>>

DailyTimer ==
    /\ Loop
    /\ at' = "sync"
    /\ UNCHANGED <<settings, loopVars, stepVars, tickNow, maintNow, copy, lampVars, hostVars, dataVars>>

TakeMaintNow ==
    /\ Loop /\ maintNow
    /\ maintNow' = FALSE
    /\ at' = "sync"
    /\ UNCHANGED <<settings, loopVars, stepVars, tickNow, copy, lampVars, hostVars, dataVars>>

(* onReconnect = Engine.MaintNow, in its own goroutine. *)
Reconnected ==
    /\ recovered
    /\ recovered' = FALSE
    /\ maintNow' = TRUE
    /\ UNCHANGED <<settings, loopVars, stepVars, tickNow, at, copy, hostVars, dataVars,
                   lamp, link, faults, awake, failing>>

(* The ends of step() and of maintenance(), with their locals gone.  Run   *)
(* calls maintenance, then step, then creates the ticker and enters the    *)
(* loop.                                                                   *)
StepEnds ==
    /\ at' = "idle"
    /\ booted' = TRUE
    /\ cadence' = IF booted THEN cadence ELSE interval
    /\ tick' = NoTick
    /\ copy' = NoCopy

MaintenanceEnds ==
    /\ at' = IF booted THEN "idle" ELSE "step"
    /\ copy' = NoCopy

-----------------------------------------------------------------------------
(* step() *)

StepSkipped ==
    /\ at = "step" /\ ~clockSane
    /\ StepEnds
    /\ UNCHANGED <<settings, reticker, overrideWas, lastSent, source, tickNow, maintNow,
                   lampVars, hostVars, dataVars>>

StepRead ==
    /\ at = "step" /\ clockSane
    /\ tick' = [NoTick EXCEPT !.was = overrideWas, !.live = live,
                              !.source = IF EngineSeesOverride THEN override.src ELSE "schedule"]
    /\ at' = "compute"
    /\ UNCHANGED <<settings, loopVars, overrideWas, lastSent, source, tickNow, maintNow, copy,
                   lampVars, hostVars, dataVars>>

OverrideActive == tick.source # "schedule"
Compute == IF store.auto THEN <<"curve", store.sched, phase>> ELSE store.manual

(* Mutant: the override is looked at again instead of the local.           *)
StepComputeRereads ==
    /\ at = "compute"
    /\ tick' = [tick EXCEPT !.out = IF OverrideActive THEN <<"override", tick.source>> ELSE Compute]
    /\ overrideWas' = EngineSeesOverride
    /\ at' = "decide"
    /\ UNCHANGED <<settings, loopVars, lastSent, source, tickNow, maintNow, copy, lampVars,
                   hostVars, dataVars>>

StepCompute ==
    /\ at = "compute"
    /\ tick' = [tick EXCEPT !.out = IF OverrideActive THEN <<"override", tick.source>> ELSE Compute]
    /\ overrideWas' = OverrideActive
    /\ at' = "decide"
    /\ UNCHANGED <<settings, loopVars, lastSent, source, tickNow, maintNow, copy, lampVars,
                   hostVars, dataVars>>

JustEnded == tick.was /\ ~OverrideActive
Dormant == ~OverrideActive /\ ~tick.live
OutputChangedOnce == JustEnded \/ lastSent = NoLevel   \* mutant: the values are not compared
OutputChanged == JustEnded \/ lastSent = NoLevel \/ tick.out # lastSent

(* Mutant: haveSent is not cleared. *)
StepRearmsKeepsSent ==
    /\ at = "decide" /\ Dormant /\ JustEnded
    /\ source' = tick.source
    /\ at' = "rearm"
    /\ UNCHANGED <<settings, loopVars, tick, overrideWas, lastSent, tickNow, maintNow, copy,
                   lampVars, hostVars, dataVars>>

(* An override ended and nothing drives the lamp: hand the lamp back its   *)
(* own schedule.                                                           *)
StepRearms ==
    /\ at = "decide" /\ Dormant /\ JustEnded
    /\ source' = tick.source
    /\ lastSent' = NoLevel
    /\ at' = "rearm"
    /\ UNCHANGED <<settings, loopVars, tick, overrideWas, tickNow, maintNow, copy, lampVars,
                   hostVars, dataVars>>

StepDormant ==
    /\ at = "decide" /\ Dormant /\ ~JustEnded
    /\ source' = tick.source
    /\ lastSent' = NoLevel
    /\ StepEnds
    /\ UNCHANGED <<settings, reticker, overrideWas, tickNow, maintNow, lampVars, hostVars, dataVars>>

StepDrives ==
    /\ at = "decide" /\ ~Dormant /\ OutputChanged
    /\ source' = tick.source
    /\ at' = "hand"
    /\ UNCHANGED <<settings, loopVars, tick, overrideWas, lastSent, tickNow, maintNow, copy,
                   lampVars, hostVars, dataVars>>

StepUnchanged ==
    /\ at = "decide" /\ ~Dormant /\ ~OutputChanged
    /\ source' = tick.source
    /\ StepEnds
    /\ UNCHANGED <<settings, reticker, overrideWas, lastSent, tickNow, maintNow, lampVars,
                   hostVars, dataVars>>

StepHand ==
    /\ at = "hand"
    /\ \E ok \in BOOLEAN : Do(Hand(tick.out), ok) /\ tick' = [tick EXCEPT !.ok = ok]
    /\ at' = "book"
    /\ UNCHANGED <<settings, loopVars, overrideWas, lastSent, source, tickNow, maintNow, copy,
                   hostVars, dataVars>>

(* Mutant: the write is booked as sent whatever came of it. *)
StepBookBlindly ==
    /\ at = "book"
    /\ lastSent' = tick.out
    /\ StepEnds
    /\ UNCHANGED <<settings, reticker, overrideWas, source, tickNow, maintNow, lampVars,
                   hostVars, dataVars>>

StepBook ==
    /\ at = "book"
    /\ lastSent' = IF tick.ok THEN tick.out ELSE lastSent
    /\ StepEnds
    /\ UNCHANGED <<settings, reticker, overrideWas, source, tickNow, maintNow, lampVars,
                   hostVars, dataVars>>

-----------------------------------------------------------------------------
(* Republish: copy the working state, then send it under the gate. *)

StepRearmRead ==
    /\ at = "rearm"
    /\ copy' = Working(store)
    /\ at' = "rearmSend"
    /\ UNCHANGED <<settings, loopVars, stepVars, tickNow, maintNow, lampVars, hostVars, dataVars>>

StepRearmSend ==
    /\ at = "rearmSend"
    /\ \E ok \in BOOLEAN : Direct(PushSchedule(copy.sched, copy.auto, copy.manual, clockSane), ok)
    /\ StepEnds
    /\ UNCHANGED <<settings, reticker, overrideWas, lastSent, source, tickNow, maintNow,
                   hostVars, dataVars>>

(* maintenance(): SyncTime, then the drift check. *)

SyncClock ==
    /\ at = "sync"
    /\ \E ok \in BOOLEAN :
         /\ Do(SyncTime(clockSane), ok)
         /\ IF ok THEN at' = "snap" /\ UNCHANGED copy ELSE MaintenanceEnds
    /\ UNCHANGED <<settings, loopVars, stepVars, tickNow, maintNow, hostVars, dataVars>>

(* Mutant: no drift check while the engine drives live. *)
DriftSnapshotDormant ==
    /\ at = "snap"
    /\ IF store.pushed /\ store.sched # Blank /\ ~live
         THEN copy' = Working(store) /\ at' = "drift"
         ELSE MaintenanceEnds
    /\ UNCHANGED <<settings, loopVars, stepVars, tickNow, maintNow, lampVars, hostVars, dataVars>>

(* The drift check never acts on a schedule that was not pushed or is blank. *)
DriftSnapshot ==
    /\ at = "snap"
    /\ IF store.pushed /\ store.sched # Blank
         THEN copy' = Working(store) /\ at' = "drift"
         ELSE MaintenanceEnds
    /\ UNCHANGED <<settings, loopVars, stepVars, tickNow, maintNow, lampVars, hostVars, dataVars>>

DriftCompare ==
    /\ at = "drift"
    /\ \E ok \in BOOLEAN :
         /\ Do(lamp, ok)
         /\ IF ok /\ lamp.sched # copy.sched THEN at' = "repush" /\ UNCHANGED copy
                                             ELSE MaintenanceEnds
    /\ UNCHANGED <<settings, loopVars, stepVars, tickNow, maintNow, hostVars, dataVars>>

DriftRepushRead ==
    /\ at = "repush"
    /\ copy' = Working(store)
    /\ at' = "repushSend"
    /\ UNCHANGED <<settings, loopVars, stepVars, tickNow, maintNow, lampVars, hostVars, dataVars>>

DriftRepushSend ==
    /\ at = "repushSend"
    /\ \E ok \in BOOLEAN : Direct(PushSchedule(copy.sched, copy.auto, copy.manual, clockSane), ok)
    /\ MaintenanceEnds
    /\ UNCHANGED <<settings, loopVars, stepVars, tickNow, maintNow, hostVars, dataVars>>

-----------------------------------------------------------------------------
Step ==
    \/ StepSkipped \/ StepRead \/ StepCompute
    \/ StepRearms \/ StepRearmRead \/ StepRearmSend
    \/ StepDormant \/ StepDrives \/ StepUnchanged \/ StepHand \/ StepBook

Maintenance == SyncClock \/ DriftSnapshot \/ DriftCompare \/ DriftRepushRead \/ DriftRepushSend

EngineNext ==
    \/ TickerFires \/ TakeTickNow \/ TakeReticker \/ DailyTimer \/ TakeMaintNow
    \/ Step \/ Maintenance

(* The environment of the engine: time, the host clock, the deadline. *)

TimePasses ==
    /\ phase' \in Phase \ {phase}
    /\ UNCHANGED <<engineVars, clockSane, dataVars, lampVars>>

ClockSet ==
    /\ ~clockSane
    /\ clockSane' = TRUE
    /\ override' = IF override.until = "future" THEN [override EXCEPT !.until = "jumped"] ELSE override
    /\ UNCHANGED <<live, interval, loopVars, stepVars, tickNow, maintNow, at, copy, phase, dataVars, lampVars>>

OverrideExpires ==
    /\ override.until # "past"
    /\ override' = [override EXCEPT !.until = "past"]
    /\ UNCHANGED <<live, interval, loopVars, stepVars, tickNow, maintNow, at, copy, hostVars, dataVars, lampVars>>

=============================================================================
