---------------------------- MODULE TankReadings ----------------------------
(***************************************************************************)
(* What the hub knows of the tank from Home Assistant and of its water     *)
(* temperature: the mirror of Home Assistant's states with its backfill    *)
(* (internal/homeassistant, sync.go), the samples in the database          *)
(* (internal/storage), and the poller of the temperature, which follows a  *)
(* setting to the vendor's service or to the samples (internal/temperature)*)
(*                                                                         *)
(* One entity stands for all that are tracked, the temperature sensor; its *)
(* states are numbered in the order Home Assistant had them, and the       *)
(* number is the source time that orders and identifies the samples.       *)
(* Whether a sample is older than two minutes is a free choice.            *)
(***************************************************************************)
EXTENDS Integers, Sequences

CONSTANTS
    Delays,      \* minutes to wait after 1, 2, ... failures: 1, 2, 5, 10, 30
    MaxVersion,  \* bound: states Home Assistant goes through
    MaxRestarts  \* bound: restarts of the daemon

ASSUME ReadingsAssumption ==
    /\ Delays \in Seq(Nat) /\ Delays # <<>>
    /\ MaxVersion \in Nat \ {0} /\ MaxRestarts \in Nat

VARIABLES
    ha,        \* Home Assistant: its latest state and which of them are numbers
    sync,      \* runOnce: how far it is, and the answer to States
    events,    \* sent over the WebSocket and not yet read
    mirror,    \* Syncer.states and ready
    samples,   \* entity_samples
    setting,   \* app_settings: temperature.source, and whether a service is configured
    poller,    \* Run: how far it is; failures and the minutes to nextTry
    reading,   \* Poller.reading
    restarts

readingsVars == <<ha, sync, events, mirror, samples, setting, poller, reading,
                  restarts>>
vars_sync == <<sync, events, mirror>>
vars_poller == <<poller, reading>>

Source == {"direct", "ha"}

(***************************************************************************)
(* Home Assistant, external.                                               *)
(***************************************************************************)
\* Another state, which is a number or not ("unavailable").
HAChanges ==
    /\ ha.version < MaxVersion
    /\ \E number \in {TRUE, FALSE} :
          ha' = [version |-> ha.version + 1,
                 numbers |-> ha.numbers \cup (IF number THEN {ha.version + 1} ELSE {})]
    /\ events' = IF sync.at = "listen" THEN Append(events, ha'.version) ELSE events
    /\ UNCHANGED <<sync, mirror, samples, setting, vars_poller, restarts>>

(***************************************************************************)
(* The mirror.                                                             *)
(***************************************************************************)
\* accept: the state goes to the mirror and to the samples.  RecordState replaces a
\* sample of the same source time; its error is dropped.
Accept(v) ==
    /\ mirror' = [mirror EXCEPT !.version = v]
    /\ samples' \in {samples \cup {v}, samples}

\* Home Assistant answers GET /api/states with what it has now.
SyncAsks ==
    /\ sync.at = "ask"
    /\ sync' = [at |-> "take", version |-> ha.version]
    /\ UNCHANGED <<ha, events, mirror, samples, setting, vars_poller, restarts>>

\* The answer is in the mirror, and it counts as ready: the WebSocket comes after.
SyncTakes ==
    /\ sync.at = "take"
    /\ sync' = [at |-> "dial", version |-> 0]
    /\ mirror' = [version |-> sync.version, ready |-> TRUE]
    /\ samples' \in {samples \cup {sync.version}, samples}
    /\ UNCHANGED <<ha, events, setting, vars_poller, restarts>>

\* Greeted, authenticated and subscribed: what changes from now on is sent.
SyncSubscribes ==
    /\ sync.at = "dial"
    /\ sync' = [sync EXCEPT !.at = "listen"]
    /\ events' = <<>>
    /\ UNCHANGED <<ha, mirror, samples, setting, vars_poller, restarts>>

SyncListens ==
    /\ sync.at = "listen" /\ events # <<>>
    /\ Accept(Head(events))
    /\ events' = Tail(events)
    /\ UNCHANGED <<ha, sync, setting, vars_poller, restarts>>

\* Any request or the connection fails; a pause of seconds, and again from the start.
SyncFails ==
    /\ sync.at \in {"ask", "dial", "listen"}
    /\ sync' = [at |-> "ask", version |-> 0]
    /\ events' = <<>>
    /\ mirror' = [mirror EXCEPT !.ready = FALSE]
    /\ UNCHANGED <<ha, samples, setting, vars_poller, restarts>>

\* Mutant: the past goes through accept.
BackfillAccepts ==
    /\ \E v \in 1..ha.version : Accept(v)
    /\ UNCHANGED <<ha, sync, events, setting, vars_poller, restarts>>

\* Backfill writes states of the past to the samples only, beside runOnce.  It ends
\* after two days without a state, the last day, an error or 45 minutes: that it
\* writes no more is always possible.
BackfillRecords ==
    /\ \E v \in 1..ha.version : samples' = samples \cup {v}
    /\ UNCHANGED <<ha, vars_sync, setting, vars_poller, restarts>>

\* CleanupRetention removes what is older than the days to keep.
CleanupRetention ==
    /\ \E v \in samples : samples' = {w \in samples : w > v}
    /\ UNCHANGED <<ha, vars_sync, setting, vars_poller, restarts>>

(***************************************************************************)
(* The temperature.                                                        *)
(***************************************************************************)
\* PUT /api/hub/settings/temperature, at any moment of a refresh.
PutSource ==
    /\ setting' = [setting EXCEPT !.source = CHOOSE s \in Source : s # setting.source]
    /\ UNCHANGED <<ha, vars_sync, samples, vars_poller, restarts>>

\* The interval is over: refresh reads the setting.  An error reading it counts as
\* "direct", for this refresh.
PollerWakes ==
    /\ poller.at = "sleep"
    /\ \/ poller' = [poller EXCEPT !.at = setting.source]
       \/ setting.source # "direct" /\ poller' = [poller EXCEPT !.at = "misread"]
    /\ UNCHANGED <<ha, vars_sync, samples, setting, reading, restarts>>

AsksService == poller.at \in {"direct", "misread"}

PollerUnchangedBut ==
    UNCHANGED <<ha, vars_sync, samples, setting, restarts>>

\* LatestHATemperature finds a sample that is a number, or none.
PollerTakesSample ==
    /\ poller.at = "ha"
    /\ LET ok == samples \cap ha.numbers # {}
       IN \E old \in {TRUE, FALSE} :
             reading' = [source |-> "ha", from |-> IF ok THEN "ha" ELSE "none",
                         stale |-> ~ok \/ old]
    /\ poller' = [poller EXCEPT !.at = "sleep"]
    /\ PollerUnchangedBut

Nothing == [source |-> "direct", from |-> "none", stale |-> TRUE]

PollerHasNoService ==
    /\ AsksService /\ ~setting.configured
    /\ reading' = Nothing
    /\ poller' = [poller EXCEPT !.at = "sleep"]
    /\ PollerUnchangedBut

\* nextTry is ahead: the reading stays as it is, whatever its source.
PollerBacksOff ==
    /\ AsksService /\ setting.configured /\ poller.wait > 0
    /\ poller' = [poller EXCEPT !.at = "sleep"]
    /\ UNCHANGED reading
    /\ PollerUnchangedBut

Polls == AsksService /\ setting.configured /\ poller.wait = 0

PollAnswers ==
    /\ Polls
    /\ reading' = [source |-> "direct", from |-> "direct", stale |-> FALSE]
    /\ poller' = [at |-> "sleep", failures |-> 0, wait |-> 0]
    /\ PollerUnchangedBut

\* The failures are counted as far as they matter.
BackedOff ==
    LET f == IF poller.failures < Len(Delays) THEN poller.failures + 1 ELSE Len(Delays)
    IN [at |-> "sleep", failures |-> f, wait |-> Delays[f]]

\* Mutant: the value that is there stays fresh under the new name.
PollFailsUnmarked ==
    /\ Polls
    /\ reading' = [reading EXCEPT !.source = "direct"]
    /\ poller' = BackedOff
    /\ PollerUnchangedBut

\* Mutant: the reading keeps the name it had.
PollFailsUnnamed ==
    /\ Polls
    /\ reading' = [reading EXCEPT !.stale = TRUE]
    /\ poller' = BackedOff
    /\ PollerUnchangedBut

\* No answer within ten seconds, or not a temperature: the value that is there stays.
PollFails ==
    /\ Polls
    /\ reading' = [reading EXCEPT !.source = "direct", !.stale = TRUE]
    /\ poller' = BackedOff
    /\ PollerUnchangedBut

MinutePasses ==
    /\ poller.wait > 0
    /\ poller' = [poller EXCEPT !.wait = @ - 1]
    /\ UNCHANGED <<ha, vars_sync, samples, setting, reading, restarts>>

NotAsked == [at |-> "ask", version |-> 0]
Empty == [version |-> 0, ready |-> FALSE]
Asleep == [at |-> "sleep", failures |-> 0, wait |-> 0]

ReadingsInit ==
    /\ ha = [version |-> 1, numbers |-> {1}]
    /\ sync = NotAsked /\ events = <<>> /\ mirror = Empty
    /\ samples = {}
    /\ setting \in [source : {"direct"}, configured : {TRUE, FALSE}]
    /\ poller = Asleep /\ reading = Nothing
    /\ restarts = 0

\* The samples and the setting are in the database.
ReadingsRestart ==
    /\ restarts < MaxRestarts
    /\ restarts' = restarts + 1
    /\ sync' = NotAsked /\ events' = <<>> /\ mirror' = Empty
    /\ poller' = Asleep /\ reading' = Nothing
    /\ UNCHANGED <<ha, samples, setting>>

PollerStep ==
    \/ PollerWakes \/ PollerTakesSample \/ PollerHasNoService \/ PollerBacksOff
    \/ PollAnswers \/ PollFails

ReadingsNext ==
    \/ HAChanges
    \/ SyncAsks \/ SyncTakes \/ SyncSubscribes \/ SyncListens \/ SyncFails
    \/ BackfillRecords \/ CleanupRetention
    \/ PutSource \/ PollerStep \/ MinutePasses
    \/ ReadingsRestart

ReadingsSpec == ReadingsInit /\ [][ReadingsNext]_readingsVars

(***************************************************************************)
(* Properties.                                                             *)
(***************************************************************************)
Version == 0..MaxVersion

ReadingsTypeOK ==
    /\ ha.version \in Version /\ ha.numbers \subseteq Version
    /\ sync \in [at : {"ask", "take", "dial", "listen"}, version : Version]
    /\ events \in Seq(Version)
    /\ mirror \in [version : Version, ready : BOOLEAN]
    /\ samples \subseteq Version
    /\ setting \in [source : Source, configured : BOOLEAN]
    /\ poller.at \in Source \cup {"sleep", "misread"}
    /\ poller.failures \in 0..Len(Delays) /\ poller.wait \in Nat
    /\ reading \in [source : Source, from : Source \cup {"none"}, stale : BOOLEAN]
    /\ restarts \in 0..MaxRestarts

\* The mirror never goes back to a state that Home Assistant had earlier: neither by
\* a reconnection, which takes a new snapshot, nor by the backfill that runs beside
\* it (sync.go: accept, Backfill); only a restart empties it.
MirrorMonotone ==
    [][mirror'.version >= mirror.version \/ restarts' # restarts]_readingsVars

\* A temperature that counts as fresh is a value of the source it is labelled with,
\* also right after the setting was changed and the new source fails or waits.
FreshFromItsSource == ~reading.stale => reading.from = reading.source

\* The reading follows the setting: once the source is no longer changed and can be
\* read, the reading comes to be the chosen one's and stays so, through failures and
\* the waits after them.
SourceFollowed ==
    \A s \in Source :
        <>[](setting.source = s /\ poller.at # "misread") => <>[](reading.source = s)
=============================================================================
