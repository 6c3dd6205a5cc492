---------------------------- MODULE LightControl ----------------------------
(***************************************************************************)
(* The lighting system: the engine, the lamp, and the HTTP requests that   *)
(* steer them (internal/piapi/effects.go and piapi.go,                     *)
(* internal/httpapi/server.go, the session routes of                       *)
(* cmd/reeftank-hub/main.go).                                              *)
(*                                                                         *)
(* Each client runs one request at a time, and the main goroutine applies  *)
(* the saved cadence before it serves any.  A request is cut where it      *)
(* leaves a critical section or waits for the lamp; "pc" says where the    *)
(* goroutine stands, and a request that is one critical section is one     *)
(* action.                                                                 *)
(***************************************************************************)
EXTENDS LightEngine

CONSTANTS
    Client,      \* HTTP requests that can be in progress at once
    Requests,    \* the requests that clients make
    Modes,       \* the modes (automatic or not) that a push sets
    MaxRestarts  \* bound: restarts of the hub process in a behaviour

AllRequests == {"rampStart", "rampStop", "rampConfig", "kick", "feedStart", "feedStop",
                "maintenanceStart", "maintenanceStop", "push", "hand", "read", "touch", "sleep"}

ASSUME ControlAssumption ==
    /\ "main" \notin Client
    /\ Requests \subseteq AllRequests
    /\ Modes \subseteq BOOLEAN
    /\ MaxRestarts \in Nat

Thread == Client \cup {"main"}

VARIABLES
    pc,          \* where each goroutine stands
    arg,         \* what its request carries, or has read
    restarts     \* restarts so far (bound: MaxRestarts)

clientVars == <<pc, arg>>
vars == <<lampVars, engineVars, hostVars, dataVars, clientVars, restarts>>

ThreadPlace == {"idle", "rampRead", "setLive", "liveKick", "setInterval", "retick", "after",
                "republish", "republishSend", "kick", "clear", "pushSend", "pushSave",
                "handSave", "readSave", "touchRead"}
CadenceInSeconds(e) == IF e.active THEN 60 * e.minutes ELSE OffMinutes   \* mutant: wrong unit
Cadence(e) == IF e.active THEN e.minutes ELSE OffMinutes
NoSwitch == [active |-> FALSE, minutes |-> CHOOSE m \in Minutes : TRUE]
Arg == [goal: {"none", "start", "stop", "config"}, ramp: Effects, work: Copy]
NoArg == [goal |-> "none", ramp |-> NoSwitch, work |-> NoCopy]

TypeOK ==
    /\ LampTypeOK
    /\ EngineTypeOK
    /\ pc \in [Thread -> ThreadPlace]
    /\ arg \in [Thread -> Arg]
    /\ restarts \in 0..MaxRestarts

(* A fresh process: main is about to apply the saved ramp cadence, and     *)
(* serves requests once that is done.                                      *)
StartPcUnapplied == [t \in Thread |-> "idle"]   \* mutant: main does not apply the cadence
StartPc == [t \in Thread |-> IF t = "main" THEN "rampRead" ELSE "idle"]
StartArg == [t \in Thread |-> IF t = "main" THEN [NoArg EXCEPT !.goal = "config"] ELSE NoArg]

Init ==
    /\ LampInit
    /\ EngineInit
    /\ pc = StartPc
    /\ arg = StartArg
    /\ restarts = 0

-----------------------------------------------------------------------------
(* Control of a client's request. *)

Accept(c, request) == pc["main"] = "idle" /\ pc[c] = "idle" /\ request \in Requests

Move(c, from, to) == pc[c] = from /\ pc' = [pc EXCEPT ![c] = to]

Finish(c) == pc' = [pc EXCEPT ![c] = "idle"] /\ arg' = [arg EXCEPT ![c] = NoArg]

EngineElse == <<loopVars, stepVars, tickNow, maintNow, at, copy>>  \* engine state but settings

-----------------------------------------------------------------------------
(* Smooth ramp: save the switch, then applyRampCadence re-reads it and     *)
(* sets the engine's mode and cadence.                                     *)

RampSave(c, goal, effects) ==
    /\ fx' = effects
    /\ pc' = [pc EXCEPT ![c] = "rampRead"]
    /\ arg' = [arg EXCEPT ![c].goal = goal]
    /\ UNCHANGED <<engineVars, lampVars, hostVars, store, restarts>>

RampStart(c) == Accept(c, "rampStart") /\ RampSave(c, "start", [fx EXCEPT !.active = TRUE])
RampStop(c) == Accept(c, "rampStop") /\ RampSave(c, "stop", [fx EXCEPT !.active = FALSE])
RampConfig(c) ==
    /\ Accept(c, "rampConfig")
    /\ \E m \in Minutes : RampSave(c, "config", [fx EXCEPT !.minutes = m])

RampRead(c) ==
    /\ Move(c, "rampRead", "setLive")
    /\ arg' = [arg EXCEPT ![c].ramp = fx]
    /\ UNCHANGED <<engineVars, lampVars, hostVars, dataVars, restarts>>

SetLive(c) ==
    /\ Move(c, "setLive", IF live # arg[c].ramp.active THEN "liveKick" ELSE "setInterval")
    /\ live' = arg[c].ramp.active
    /\ lastSent' = IF live # arg[c].ramp.active THEN NoLevel ELSE lastSent   \* a fresh send
    /\ UNCHANGED <<arg, override, interval, loopVars, tick, overrideWas, source, tickNow,
                   maintNow, at, copy, lampVars, hostVars, dataVars, restarts>>

LiveKick(c) ==
    /\ Move(c, "liveKick", "setInterval")
    /\ tickNow' = TRUE
    /\ UNCHANGED <<arg, settings, loopVars, stepVars, maintNow, at, copy, lampVars, hostVars,
                   dataVars, restarts>>

SetInterval(c) ==
    /\ Move(c, "setInterval", IF interval # Cadence(arg[c].ramp) THEN "retick" ELSE "after")
    /\ interval' = Cadence(arg[c].ramp)
    /\ arg' = [arg EXCEPT ![c].ramp = NoSwitch]
    /\ UNCHANGED <<override, live, EngineElse, lampVars, hostVars, dataVars, restarts>>

(* Mutant: an unbuffered channel; nobody receives while the engine works. *)
RetickUnbuffered(c) ==
    /\ Move(c, "retick", "after")
    /\ reticker' = (reticker \/ at = "idle")
    /\ UNCHANGED <<arg, settings, booted, cadence, stepVars, tickNow, maintNow, at, copy,
                   lampVars, hostVars, dataVars, restarts>>

Retick(c) ==
    /\ Move(c, "retick", "after")
    /\ reticker' = TRUE
    /\ UNCHANGED <<arg, settings, booted, cadence, stepVars, tickNow, maintNow, at, copy,
                   lampVars, hostVars, dataVars, restarts>>

(* rampStart kicks the engine; rampStop hands the lamp back its schedule. *)
RampAfter(c) ==
    /\ pc[c] = "after"
    /\ IF arg[c].goal = "config" THEN Finish(c)
       ELSE /\ arg' = [arg EXCEPT ![c] = NoArg]
            /\ pc' = [pc EXCEPT ![c] = IF arg[c].goal = "start" THEN "kick" ELSE "republish"]
    /\ UNCHANGED <<engineVars, lampVars, hostVars, dataVars, restarts>>

Republish(c) ==
    /\ Move(c, "republish", "republishSend")
    /\ arg' = [arg EXCEPT ![c].work = Working(store)]
    /\ UNCHANGED <<engineVars, lampVars, hostVars, dataVars, restarts>>

Send(w) == PushSchedule(w.sched, w.auto, w.manual, clockSane)

RepublishSend(c) ==
    /\ pc[c] = "republishSend"
    /\ \E ok \in BOOLEAN : Direct(Send(arg[c].work), ok)
    /\ Finish(c)
    /\ UNCHANGED <<engineVars, hostVars, dataVars, restarts>>

(* rampTick, and the requests whose only effect here is to wake the engine: *)
(* acclimation and seasonal settings, the master level.                     *)
KickRequest(c) ==
    /\ Accept(c, "kick")
    /\ pc' = [pc EXCEPT ![c] = "kick"]
    /\ UNCHANGED <<arg, engineVars, lampVars, hostVars, dataVars, restarts>>

(* Mutant: an unbuffered channel. *)
KickUnbuffered(c) ==
    /\ pc[c] = "kick"
    /\ tickNow' = (tickNow \/ at = "idle")
    /\ Finish(c)
    /\ UNCHANGED <<settings, loopVars, stepVars, maintNow, at, copy, lampVars, hostVars,
                   dataVars, restarts>>

Kick(c) ==
    /\ pc[c] = "kick"
    /\ tickNow' = TRUE
    /\ Finish(c)
    /\ UNCHANGED <<settings, loopVars, stepVars, maintNow, at, copy, lampVars, hostVars,
                   dataVars, restarts>>

-----------------------------------------------------------------------------
(* Feed and Maintenance: SetOverride, then kick. *)

(* Mutant: clearing an override also forgets that one was active. *)
SetOverrideForgets(c, o) ==
    /\ override' = o
    /\ overrideWas' = (overrideWas /\ o # NoOverride)
    /\ pc' = [pc EXCEPT ![c] = "kick"]
    /\ UNCHANGED <<arg, live, interval, loopVars, tick, lastSent, source, tickNow, maintNow,
                   at, copy, lampVars, hostVars, dataVars, restarts>>

SetOverride(c, o) ==
    /\ override' = o
    /\ pc' = [pc EXCEPT ![c] = "kick"]
    /\ UNCHANGED <<arg, live, interval, EngineElse, lampVars, hostVars, dataVars, restarts>>

FeedStart(c) == Accept(c, "feedStart") /\ SetOverride(c, [src |-> "feed", until |-> "future"])

MaintenanceStart(c) ==
    /\ Accept(c, "maintenanceStart")
    /\ SetOverride(c, [src |-> "maintenance", until |-> "future"])

StopOverride(c, src) ==
    /\ HandlerSeesOverride(src)
    /\ pc' = [pc EXCEPT ![c] = "clear"]
    /\ UNCHANGED <<arg, engineVars, lampVars, hostVars, dataVars, restarts>>

FeedStop(c) == Accept(c, "feedStop") /\ StopOverride(c, "feed")
MaintenanceStop(c) == Accept(c, "maintenanceStop") /\ StopOverride(c, "maintenance")

ClearOverride(c) == pc[c] = "clear" /\ SetOverride(c, NoOverride)

-----------------------------------------------------------------------------
(* The working state: push, hand and read each finish with the lamp before *)
(* they save.  A failed exchange is answered with 502 and saves nothing;   *)
(* piapi kicks the engine after a push either way.                         *)

Push(c) ==
    /\ Accept(c, "push")
    /\ \E s \in Schedule, auto \in Modes :
         arg' = [arg EXCEPT ![c].work = [sched |-> s, auto |-> auto, manual |-> <<"manual">>]]
    /\ pc' = [pc EXCEPT ![c] = "pushSend"]
    /\ UNCHANGED <<engineVars, lampVars, hostVars, dataVars, restarts>>

PushSend(c) ==
    /\ \E ok \in BOOLEAN :
         /\ Direct(Send(arg[c].work), ok)
         /\ Move(c, "pushSend", IF ok THEN "pushSave" ELSE "kick")
    /\ UNCHANGED <<arg, engineVars, hostVars, dataVars, restarts>>

PushSave(c) ==
    /\ Move(c, "pushSave", "kick")
    /\ store' = [sched |-> arg[c].work.sched, auto |-> arg[c].work.auto,
                 manual |-> arg[c].work.manual, pushed |-> TRUE]
    /\ UNCHANGED <<arg, engineVars, lampVars, hostVars, fx, restarts>>

HandRequest(c) ==
    /\ Accept(c, "hand")
    /\ \E ok \in BOOLEAN :
         /\ Direct(Hand(<<"manual">>), ok)
         /\ pc' = [pc EXCEPT ![c] = IF ok THEN "handSave" ELSE "idle"]
    /\ UNCHANGED <<arg, engineVars, hostVars, dataVars, restarts>>

HandSave(c) ==
    /\ Move(c, "handSave", "idle")
    /\ store' = [store EXCEPT !.auto = FALSE, !.manual = <<"manual">>]
    /\ UNCHANGED <<arg, engineVars, lampVars, hostVars, fx, restarts>>

ReadLamp(c) ==
    /\ Accept(c, "read")
    /\ link
    /\ arg' = [arg EXCEPT ![c].work = Working(lamp)]
    /\ pc' = [pc EXCEPT ![c] = "readSave"]
    /\ UNCHANGED <<engineVars, lampVars, hostVars, dataVars, restarts>>

ReadSave(c) ==
    /\ pc[c] = "readSave"
    /\ store' = [store EXCEPT !.sched = arg[c].work.sched, !.manual = arg[c].work.manual]
    /\ Finish(c)
    /\ UNCHANGED <<engineVars, lampVars, hostVars, fx, restarts>>

(* The K7 page: opening it touches the demand window and reads the lamp. *)
SessionOpen(c) ==
    /\ Accept(c, "touch")
    /\ Touch
    /\ pc' = [pc EXCEPT ![c] = "touchRead"]
    /\ UNCHANGED <<arg, engineVars, hostVars, dataVars, restarts>>

SessionRead(c) ==
    /\ Move(c, "touchRead", "idle")
    /\ \E ok \in BOOLEAN : Do(lamp, ok)
    /\ UNCHANGED <<arg, engineVars, hostVars, dataVars, restarts>>

SessionClose(c) ==
    /\ Accept(c, "sleep")
    /\ Sleep
    /\ UNCHANGED <<clientVars, engineVars, hostVars, dataVars, restarts>>

-----------------------------------------------------------------------------
(* A crash, an update or a reboot: the process loses its memory and starts *)
(* again over the files.  Both files are written inside the request that   *)
(* changes them, so a request cut short leaves them as it found them or    *)
(* as it meant to.                                                         *)
Restart ==
    /\ restarts < MaxRestarts
    /\ restarts' = restarts + 1
    /\ UNCHANGED <<lamp, link, faults, hostVars, dataVars>>
    /\ override' = NoOverride /\ overrideWas' = FALSE
    /\ live' = fx.active
    /\ lastSent' = NoLevel /\ source' = "schedule"
    /\ interval' = OffMinutes /\ cadence' = OffMinutes
    /\ tickNow' = fx.active /\ reticker' = FALSE /\ maintNow' = FALSE
    /\ at' = "sync" /\ booted' = FALSE
    /\ tick' = NoTick
    /\ copy' = NoCopy
    /\ pc' = StartPc
    /\ arg' = StartArg
    /\ awake' = FALSE /\ failing' = FALSE /\ recovered' = FALSE

RequestStep(c) ==
    \/ RampRead(c) \/ SetLive(c) \/ LiveKick(c) \/ SetInterval(c) \/ Retick(c) \/ RampAfter(c)
    \/ Republish(c) \/ RepublishSend(c) \/ Kick(c) \/ ClearOverride(c)
    \/ PushSend(c) \/ PushSave(c) \/ HandSave(c) \/ ReadSave(c) \/ SessionRead(c)

NewRequest(c) ==
    \/ RampStart(c) \/ RampStop(c) \/ RampConfig(c) \/ KickRequest(c)
    \/ FeedStart(c) \/ FeedStop(c) \/ MaintenanceStart(c) \/ MaintenanceStop(c)
    \/ Push(c) \/ HandRequest(c) \/ ReadLamp(c) \/ SessionOpen(c) \/ SessionClose(c)

Engine == (EngineNext \/ Reconnected) /\ UNCHANGED <<clientVars, restarts>>

Environment ==
    /\ \/ TimePasses \/ ClockSet \/ OverrideExpires
       \/ (DemandExpires \/ LinkDown \/ LinkUp \/ PowerCycle) /\ UNCHANGED <<engineVars, hostVars, dataVars>>
    /\ UNCHANGED <<clientVars, restarts>>

Next ==
    \/ Engine
    \/ \E c \in Client : NewRequest(c)
    \/ \E t \in Thread : RequestStep(t)
    \/ Environment
    \/ Restart

Spec == Init /\ [][Next]_vars

(* The engine goroutine is scheduled and its lamp calls time out, so a     *)
(* tick or a maintenance pass that has begun ends; so does a request.  The *)
(* ticker and the daily timer fire again and again, and a select picks     *)
(* among its ready channels at random, so neither is passed over for ever. *)
(* Nothing is assumed of users, of the link or of the host clock.          *)
EngineAlone(A) == A /\ UNCHANGED <<clientVars, restarts>>

Fairness ==
    /\ WF_vars(EngineAlone(Step \/ Maintenance))
    /\ SF_vars(EngineAlone(TickerFires))
    /\ SF_vars(EngineAlone(DailyTimer))
    /\ \A t \in Thread : WF_vars(RequestStep(t))

FairSpec == Spec /\ Fairness

-----------------------------------------------------------------------------
(* Safety *)

Settled == \A t \in Thread : pc[t] = "idle"
KickPending == tickNow \/ \E t \in Thread : pc[t] = "kick"

(* A kick that finds tickNow full is dropped (engine.go:105).  Still no    *)
(* change of the override is missed: once nobody is about to kick and no   *)
(* kick is queued, the last tick saw the override that is set now, or that *)
(* none is set.                                                            *)
OverridePickedUp ==
    at = "idle" /\ clockSane /\ ~KickPending =>
        /\ EngineSeesOverride => source = override.src
        /\ override = NoOverride => source = "schedule"

(* A send to a full reticker is dropped too, and main sets the cadence     *)
(* while Run may or may not have made its ticker (engine.go:113, 233):     *)
(* whenever the ticker's period is not the one asked for, somebody is      *)
(* about to reset it.                                                      *)
CadenceFollowsInterval ==
    booted /\ cadence # interval => reticker \/ \E t \in Thread : pc[t] = "retick"

(* The mode and cadence are copies of the switch in effects.json           *)
(* (applyRampCadence, effects.go:91).  With one request at a time they     *)
(* agree with it whenever none is in progress, wherever the request before *)
(* was cut short by a restart.                                             *)
ModeFollowsSwitch ==
    Settled => live = fx.active /\ interval = Cadence(fx)

(* While nothing drives the lamp, an override level on it is one that the  *)
(* engine still remembers it has to end: by overrideWas, or by the tick    *)
(* that is on its way to re-arm the lamp's schedule (engine.go:309-337).   *)
OverrideHasOwner ==
    lamp.hand \in OverrideLevel => overrideWas \/ live \/ tick.was

(* The engine skips a write that repeats lastSent (engine.go:354).  That   *)
(* is sound as long as lastSent is what the lamp shows, except between a   *)
(* write and its bookkeeping, and as long as nobody else writes the lamp:  *)
(* a push does, see the run light_push_hides_feed.                         *)
BeliefMatchesLamp ==
    lastSent # NoLevel /\ at # "book" => lamp.hand = lastSent

-----------------------------------------------------------------------------
(* Liveness *)

Reachable == awake /\ link /\ clockSane /\ Settled

(* After the last fault, while the K7 page stays open and no request comes *)
(* in, the daily pass brings the lamp back to the schedule that was pushed *)
(* and to the right time (engine.go:261, main.go:231-253).                 *)
LampHeals ==
    <>[]Reachable =>
        <>[](lamp.clock /\ (store.pushed /\ store.sched # Blank => lamp.sched = store.sched))

(* A live engine gets its output to the lamp, however often a write was    *)
(* refused before (engine.go:354-371).                                     *)
RampDrives ==
    \A p \in Phase :
        <>[](Reachable /\ live /\ ~EngineSeesOverride /\ phase = p) => <>[](lamp.hand = Compute)

(* "Feed/Maintenance must reach the lamp" (engine.go:340): an override     *)
(* that goes on is in the end the level that the lamp shows.               *)
OverrideShown ==
    \A src \in OverrideSource :
        <>[](Reachable /\ EngineSeesOverride /\ override.src = src) =>
            <>[](lamp.hand = <<"override", src>>)

(* When a timed override has ended and the engine is dormant the lamp      *)
(* "resumes its autonomous curve instead of holding the last override      *)
(* value" (engine.go:319-322).                                             *)
OverrideReleased ==
    <>[](Reachable /\ ~live /\ ~EngineSeesOverride) => <>[](lamp.hand \notin OverrideLevel)

(* What the engine re-arms the lamp with is "the last-pushed schedule"     *)
(* (server.go:249): it leaves alone the schedule of a lamp that was never  *)
(* sent one.                                                               *)
RearmsWithPushed ==
    [][StepRearmSend => store.pushed \/ lamp'.sched = lamp.sched]_vars

=============================================================================
