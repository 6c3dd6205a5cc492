# ReefTank Hub in TLA+

ReefTank Hub is a Go daemon for a Raspberry Pi beside a reef aquarium. It drives
a Noo-Psyche K7 lamp over TCP, watches 18 switched outlets and the Jebao pumps,
mirrors Home Assistant, keeps everything in SQLite, serves the web pages, and
updates itself from GitHub releases. This directory holds TLA+ models of the
parts where steps of several actors meet, the TLC runs over them, and proofs
that TLAPS checks.

    tlc -config LightWakeups.cfg MCLightControl.tla     # one run; the others alike
    tlapm LightControl_proofs.tla                       # the proofs

`PROJECT.json` lists the runs, the source lines every definition models, a
mutant for every checked property, the hazards and the findings.

## Inventory

State, operations and correctness of each part; "modelled in" says where. What
is not modelled, and why, is further down.

| part | state | operations | hard behaviour | correct when | modelled in |
|---|---|---|---|---|---|
| lighting engine `internal/engine/engine.go` | override, live, interval, lastSent/haveSent, overrideWas, three one-place channels | Run's select, step, maintenance; SetOverride, SetLive, SetInterval, Kick, MaintNow | step takes its mutex five times around a slow network call; wake-ups are dropped when a channel is full | no change is missed; what is on the lamp has an owner that ends it; failed writes are repeated | `LightEngine` |
| effect arithmetic `engine/model.go`, `moon.go` | none | Compute: master, ramp, acclimation, season, siesta, moon | interpolation over midnight, clamping, rounding | every level is one the lamp has; no jumps; pushing baked rows equals driving live | `LightCurve` |
| lamp gate `internal/lamp` | demand window, failure streak | Touch, Sleep, Hand, ReadAll, SyncTime | refusals while the page is closed; the reconnect callback in its own goroutine | one connection at a time | `K7Lamp` |
| K7 client `internal/k7tcp` | none | the packets; the robust read | acknowledgements are not examined | see lighting | `K7Lamp` (external lamp) |
| working state `internal/httpapi/server.go` | schedule, mode, manual level, LastPushedAt, in store.json | read, hand, push, Republish, settings | lamp first, save second, nothing held in between | working state and lamp agree in the end | `LightControl` |
| effects API `internal/piapi` | effects.json: the smooth-ramp switch and effect settings | ramp, feed, maintenance, acclimation, seasonal; baking of a push | save, apply, kick are separate; test and clear are separate | mode follows the switch | `LightControl` |
| updater `internal/updater` | releases/, current, PREVIOUS, CONFIRMED | Check, Apply, ConfirmAfterStart | death between any two files; two callers; a refused restart | the device can always start and go back | `SelfUpdate` |
| systemd unit, `deploy/rollback.sh` | unit state, ROLLED_BACK | restart, start limit, rollback | the script is cut short; repeated failures | at most one rollback per update, never behind a confirmed release | `SelfUpdate` |
| equipment store `internal/equipment` | 18 devices, 3 strips, revision, equipment.json | UpdateSettings, Assign, Rename, polling settings | only UpdateSettings undoes a failed save | one outlet, one device, in memory and in the file | `EquipmentStore` |
| high-frequency monitor `internal/highfreq` | child ids, statuses, a goroutine per strip | poll, accept, backoff | bindings change while a strip answers | a reading never joins an event of another outlet; polling follows the plug | `StripMonitor` |
| activity recorder `internal/storage/activity.go` | checkpoint, events, samples per device | RecordEquipmentReading, backfill, retention | two strips, clock steps, replay after restart, open events in retention | the events are those that follow from the readings; each run is counted once | `ActivityLog`, `ActivityRecorder` |
| water records `storage/water.go`, `water_seed.go` | water_records, the marker in schema_migrations | seed, add, edit, delete | a start cut short inside the seed; an older program's seeding | built-in records come once and whole | `WaterRecords` |
| hub database `internal/storage` | tables | entity samples, backups, retention | retention against writers | | samples and retention in `ActivityRecorder` |
| Jebao pumps `internal/jebao` | per-pump status, busy flag | poll, read-check-write-acknowledge-read | a lost acknowledgement after the write took effect; unasked frames; firmware that changes the model | a reported success was read back; nothing is sent twice; one conversation per pump | `JebaoPumps` |
| dosing simulator `internal/dosing` | four heads, audit, armed failure, dosing.json | manual dose, prime, calibrate, settings, simulator | memory first, save second; partial and failed doses | the liquid is accounted for; what was answered is kept | `DosingStore` |
| Home Assistant sync `internal/homeassistant`, temperature `internal/temperature` | mirror of entities, connection; reading, failures, wait | snapshot, subscribe, events, backfill; poll, backoff, settings | a reconnect beside a backfill; the source changes during a poll or a wait | the mirror never goes back; a fresh value is of the source it names | `TankReadings` |
| lamp-write tally `internal/tally` | the counts of a day, dirty, writes.json | add, roll, save | a save writes outside the mutex; two goroutines save at the end | every counted write reaches the file | `LampTally` |
| ring log `internal/ringlog` | lines | add, read | the ring wraps | | not modelled |
| TCP proxy `internal/proxy` | one client, gate held for a session | | everyone waits for the gate | | not modelled |
| profiles, config, sheets, version, web pages, bootstrap, thread border router, setup/panel/diagnostics, firmware | | files, parsing, static pages, one-shot installers | | | not modelled: sequential I/O, no property beyond what its unit tests state |

How they interact: HTTP handlers call the engine's setters (shared memory, one
mutex) and the lamp (one gate, which the engine uses too); the engine calls back
into `Server.Republish` and main's drift check; the lamp calls the engine's
MaintNow. `effects.json` and `store.json` outlive the process. The updater
shares nothing with the lighting: it meets the rest of the system only through
the death of the process, which is `Restart` in `LightControl`.

## The lighting models

`K7Lamp` - the lamp and the hub's connection to it. The lamp is external: a
stored schedule with its manual level (packet 0x1007), a live level (0x1005) it
holds until the next 0x1007, and a clock. An operation runs to its end under
the gate, so it is one step; its outcome is success, refusal (`~awake`, or the
link is down) or a write that is reported as done and never arrives. `Do` is
`Lamp.do` with its window and failure streak, `Direct` is httpapi's use of the
same gate without them. Levels are symbols: what Compute makes of a schedule at
a moment, an override's, or a manual one.

`LightEngine` - the engine goroutine. `at` is the program counter: `idle` is
Run's select; a tick goes `step`, `compute`, `decide`, then one of skip,
dormant, unchanged, `hand`/`book` and `rearm`/`rearmSend`; a maintenance pass
goes `sync`, `snap`, `drift`, `repush`, `repushSend`. `tick` holds step's
locals. Deadlines have three values because step compares them by the wall
clock and the handlers by the monotonic clock: setting the clock (`ClockSet`)
ends an override for the one and not for the others.

`LightControl` - requests. Each client's `pc` and `arg` cut a request wherever
it leaves a critical section or waits for the lamp; `main` applies the saved
ramp cadence at boot in the same way, while the engine already runs. The saved mode
is set before the engine runs, with a kick when it is the ramp (main.go:259).
`Restart`
loses everything but the two files and the lamp.

Correspondence of variables: `override`, `overrideWas`, `live`, `interval`,
`tickNow`, `reticker`, `maintNow`, `source` are Engine's fields; `lastSent`
stands for lastSent and haveSent together; `cadence` is the period of Run's
ticker; `store` is httpapi's State; `fx` is EffectsStore's Ramp; `awake` is
`now < activeUntil`; `failing` is `consecFail > 0`; `recovered` is a pending
`go onReconnect()`.

### Runs

The first four hold; each of the next three shows a disagreement with what the
source says of itself.

| run | question | bounds |
|---|---|---|
| `light_wakeups` | does a dropped wake-up lose a change? `OverridePickedUp`, `CadenceFollowsInterval`, and `TypeOK` | two requests at once (a channel has one place, so two senders and the boot already meet a full one), cadences 2 and 10 |
| `light_override` | who ends an override, is the lamp what the engine believes, does Feed show and go away, does the ramp drive? | one request at a time beside the engine, two moments of the day, no fault and no push |
| `light_heals` | after one lost write, outage or power cut, does the daily pass repair the lamp? | one fault, one schedule and the blank one; the store starts equal to the lamp or blank, as on a hub that never pushed |
| `light_restart` | does the mode follow the saved switch across a restart at any step? | one request, one restart, host clock right or unset, one fault |
| `light_rearm_unpushed` | Republish re-sends what was "last pushed" | one Feed on a fresh hub |
| `light_release_lost` | the lamp "resumes its autonomous curve" after an override | one outage |
| `light_push_hides_feed` | "Feed/Maintenance must reach the lamp" | one push during Feed |

Bounds: `MaxFaults`, `MaxRestarts`, and the sizes of `Client`, `Schedule`,
`Phase` and `Minutes`. Requests are unlimited in number. Two schedules suffice
because the code compares schedules only for equality and with the blank one;
two moments suffice to make an output change.

Scope: `BeliefMatchesLamp` and `OverrideShown` hold while nobody else writes the
lamp; `light_push_hides_feed` is what a push does to them. `OverrideReleased`
holds when re-arming works; `light_release_lost` is what one failure does to it.
`ModeFollowsSwitch` is about one request at a time: two that race can leave live
and the switch apart, and nothing in the repository says otherwise.

Fairness (`FairSpec`): a tick or maintenance pass that has begun ends, and so
does a request (the goroutines are scheduled and every lamp call has a
timeout): weak fairness of `Step \/ Maintenance` and of each thread. The ticker
and the daily timer fire again and again and Go's select chooses at random
among ready channels: strong fairness of both. Users, the link, the clock and
the deadline are not assumed to do anything; the liveness properties say what
the environment must grant (`Reachable` from some time on).

## The update model

`SelfUpdate` - Check and Apply by two goroutines (the loop and the HTTP
request), ConfirmAfterStart, the systemd unit and rollback.sh. Every file that
Apply or the script touches is a step, so a death of the process or the power
leaves exactly what was written. A release is a number and a label, because
cmpTag ignores everything after a dash; a release may be healthy, run and fail
the health check (`Sick`), or die at once (`Crashing`). `StartLimitHit` stands
for the four starts within 120 s. The loop is modelled with automatic updates
on; with them off it takes no step. `served`, `passed`, `updated` and `lost`
are history variables that only properties read. Every write of a file can fail,
those of the script (which then ends, `set -e`) and of CONFIRMED (which may be left
empty) included, and systemd can refuse the restart of either, as it does over the
start limit. A development build, which
refuses to update, and torn writes (nothing is fsynced) are left out.

| run | question | bounds |
|---|---|---|
| `update_safety` | complete binaries behind both links; a rollback target that has run; confirmation only of what ran and passed; never behind a confirmed release; one rollback per update | four releases (two with one number, one sick, one crashing), any two mishaps out of five kinds |
| `update_gives_up` | a release that never confirms is rolled back | two releases, no mishap |

Four releases allow a chain of three updates, which the deepest of these
properties needs (a sick release updated from, then a rollback to it, then its
own crash loop). `update_gives_up` uses fairness of the process, the unit, the
script and the update loop, which all run by themselves. It shows that the
release just rolled back is still the newest one on offer, is applied again,
and that the second time ROLLED_BACK makes the script stand down.
`NeverBehindConfirmed` excludes one case that TLC found, by the history variable
`lost`: Apply ignores a failed
write of PREVIOUS, and a rollback then goes to the target of the update before.

## The equipment models

`ActivityLog` - the abstract specification: a log of accepted readings per
device, and the events as a function of it, written without saying how they are
kept. `ActivityRecorder` - the tables, the checkpoint, RecordEquipmentReading
(one transaction, one step), the adoption of history from an older program, the
replay and the retention. It implements `ActivityLog` under the refinement
mapping `events <- Settled`, which closes the one event that an older program
left open after two low samples and that the recorder will close at the next
reading. `log` and `forgotten` are history variables.

`EquipmentStore` - the map in memory and in equipment.json. Names and polling
intervals are left out; `SaveUnchanged` is what remains of changing them, and it
is what makes a refused change permanent. `StripMonitor` - a job per strip and
device: `asked` (the request is in flight), `answered`, `current` (the binding
was looked up and found unchanged), then recorded. The reading's value and time
are chosen when it is recorded, which allows no more and no fewer outcomes
because nothing looks at them before and the clock may be set at any moment.
Failed child-id requests end a poll before it starts and change nothing.

| run | question | bounds |
|---|---|---|
| `activity_promise` | do the recorder's tables say what its readings say? | one device (devices share no state but the pruning of samples), two outlets, five instants: as many as the test of the debounce uses, and enough for a run, its debounce, a move and a second run |
| `equipment_moves` | what do moved plugs, failed saves and a restart do to events, the replay and polling? | two devices of which one is polled (the other is there to trade plugs with), two outlets on two strips and one unknown entity, two instants, one failed save, one restart |

Two instants suffice for `equipment_moves`: mixing outlets takes two readings.
Nothing is assumed of the wall clock, so an instant also stands for a clock that
went back. Times are ordered as numbers; the database compares some of them as
text, which differs only within one second.

Fairness (`FairSpec` of `StripMonitor`): the strips' goroutines and the replay
run by themselves and every request times out, hence weak fairness; that a strip
asked again and again answers again and again is assumed of the environment
(strong fairness of `Answer`). Without it no reading is promised to anyone.

What the check at monitor.go:171 does not exclude: a plug moved between the look
and the record leaves a reading of the old outlet in the device's log.
`EventOfOneOutlet` is what still holds then, because the recorder gets the
binding the reading was taken with and ends the event.

## The models of the services beside the lighting

Six modules model parts that share neither state nor locks with each other or
with the rest. `HubServices` runs them: `part`, chosen at the start, names the
one that moves while the others stand still, which loses nothing because every
property is about one of them (`HubRunsServices` proves the other direction: the
hub's behaviours are behaviours of each).

`JebaoPumps` - the pumps are external: they answer a connection in order, report
unasked, take of a write only the attributes whose flag is set, are also worked
by the maker's App, and may come back with another address or product key.
`poll` is Refresh's walk over the pumps (discovery, dial, status), `control` is
controlDevice: find the pump, read, check, write, wait for the acknowledgement,
read back; every step can time out. `busy` is the one flag both hold. `view` is
what the page shows. A write that is still in a socket when the hub gives up
moves to `late` and may be taken at any time after. `requests` and `taken` are
history. A confirmed write (`Written`) brings new attributes and the key they were
decoded with, and leaves the labels as they are: controlDevice does not go through
accept. A pump that had other firmware for a while and has its own again is
therefore shown, from a setting until the next refresh, with the labels of the
other model as connected and fresh, although accept drops them on a change of key.
The model reaches that; `FreshIsOfThisModel` is stated for the attributes always and
for the labels when the last success was a refresh. The level, feeding, timer, power
and one mode flag stand for the status; the passcode and the login are in the
dialling.

`LightCurve` - Compute's pieces over a day of a few rows: interpolation around
midnight, season, siesta, moonlight, acclimation, master, and the bytes that
come out; and the two bakers, `Prebaked` (piapi) and `Baked` (the push handler
of httpapi). Time is the minute and the day; the cosines of season and moon are
given numbers. Arithmetic is in whole percent;
the code rounds floats, so a level can differ by one. A row has the hour and
minute that its own columns say (`times`), which only the push handler reads.

The two bakers do not write the same rows, and `BakersAgree` says where they do.
Both know the schedule, the siesta, the moonlight and the master; acclimation and
season are the engine's only (`EngineOnly`). `PartOver` names the rows on which
they part altogether: a master of 0 (`EngineMaster` takes it for 100, the push
handler for dark), a siesta past midnight (forgotten by the push handler), a row
off the hour. On every other row all channels without moonlight are equal. On the
two channels of the moonlight they are equal where `MoonAgrees`: neither sees a
moon, or both see a full one at a master of 100 percent on a k7pro. Elsewhere they
part, since the push handler raises the moon before the master and the engine
after it, with the full intensity and not that of the phase, the cyan of any
device, on rows that are dark with the siesta on them, and not under the preset
`preset:dino`; and since the two tests of a window disagree when it starts where
it ends. The effects applied once more to a pushed schedule are a known issue
(docs/K7_INHERITED_PROGRESS.md:532) and outside `BakersAgree`.

`DosingStore` - the simulator's operations, each whole under the store's mutex:
memory is changed, then dosing.json is replaced, and a failed save does not undo
memory. `page` is the form in a browser, which sends the whole head back, with
the `remaining` it had when the page was loaded. `since` and `filled` are
history and travel with the head, so that a restart takes them back as well.

`TankReadings` - Home Assistant's entity with a version per state, the hub's
mirror fed by snapshot, events and backfill, and the poller with its sources
(direct, Home Assistant), failures and waits. A change between the snapshot and
the subscription is missed until the next one, and the result of subscribing is
not looked at; both are in the model. A reading of Home Assistant counts as
fresh or stale as judged at the last poll, up to half an hour ago in a wait. Any
error in reading the setting makes one poll take the source for `direct`
(water.go:168), which is the step `misread`; `SourceFollowed` is promised when that
does not go on for ever.

`WaterRecords` - the one-time seed, statement by statement with a failure or
death at any of them, an older program's seeding, and the owner's edits. A client
that adds a record may name a source_ref; one that an existing row has is refused by
the table. References other than the built-in ones count as none.

`LampTally` - the counter of lamp writes. A save is cut after its snapshot and
after the temporary file; Run and, once the context is cancelled, main may both
be in one, over one temporary file. Save clears the flag with its snapshot and does
not set it again when it fails: until the next count, or the next day, nobody saves
what it could not write, and a process that ends before loses it. `failed` is that
snapshot, and `TallyReachesFile` says that what is marked as saved is in the file or
is that snapshot, and never less. It is about a daemon that
serves. Without that restriction TLC finds what the code allows at the end: the
older snapshot is the one that is left in the file. The process may also end
before Run's save does, because main finds the flag cleared and does not wait.

| run | question | bounds |
|---|---|---|
| `hub_services` | the seventeen properties of the six modules | below |

* Pumps: one pump (they share only `busy` and the walk, which a refresh beside a
  write already contends for), two levels, two requests (a request meets the
  late write of the one before), one surprise (the App, an unasked
  report, an address, other firmware, a saved host or a restart; the way back to its
  own firmware is not counted, so that a pump can leave its model and return);
  deadlines pass freely.
* Curve: four rows of six "minutes" each, three channels (white and the two of
  the moonlight), two days; two sets of rows, bright and dark at midnight. Two
  families of settings. With the moon at 90 percent: masters 0, 50 and 200, a shift
  or none, siestas inside the day, past midnight and ending on the hour, moonlight
  off, low and full, acclimation on and off, every effect with every other. With a
  full moon, for the bakers: masters 50 and 100, with and without cyan, the preset
  without moonlight, a row off the hour.
* Doser: one head (a head's operations touch no other; the audit is shared, and
  three entries in a log of two overflow it), one dose of two halves, containers
  of one dose and of two and a half, one failed save; restarts are free.
* Readings: two states of the sensor (older and newer is what the order is about),
  waits of one and two minutes, one restart.
* Water: two built-in records, four records in all, one edit.
* Tally: two dates, one write per date (a save needs one write beside it);
  failing saves, stops and restarts are free.

`CHECK_DEADLOCK` is off because requests, entries, changes and days are bounded,
and a behaviour that has used them up stops.

Fairness: `RefreshStep` and `ControlStep` (each wait has a deadline, and the
flag is cleared by a defer), `PollerStep` (a 10 s HTTP timeout, an interval
timer) and the clock. Users, the App, the pump and Home Assistant owe nothing.

What these modules leave in the open, because nothing in the repository promises
otherwise: Calibrate may store a rate that the settings page would refuse; a
stale form undoes doses in `remaining` (the audit then starts afresh, `since`);
the simulated delay is spent under the mutex.

## Proofs

All are for every value of the constants that satisfies the named assumptions.

`LightControl_proofs` (`LampAssumption`, `EngineAssumption`,
`ControlAssumption`):

* `TypeCorrect` - `TypeOK` is inductive; one lemma per action, grouped as the
  next-state relation is.
* `CadenceCorrect` - `CadenceFollowsInterval`, inductive given `TypeOK`. The
  interesting steps are `SetInterval` (the sender is at `retick` when the period
  and the interval part), `Retick` (a full channel is as good as a send),
  `TakeReticker`, and the end of the first tick, which makes the ticker.
* `OverrideCorrect` - `OverridePickedUp` is not inductive: it speaks of the idle
  engine only. The strengthening `TickFollowsOverride` says what holds in every
  phase of a tick: unless a kick is pending, the engine either is still going to
  read the override or has read one that agrees with it, in `tick` before the
  decision and in `source` after it.
* `ModeCorrect` - `ModeFollowsSwitch`, assuming one client, which is when it is
  claimed. `ModeInv`: one goroutine is busy at most; from the moment it has read
  the switch it carries what the file says, and what it has applied stays.
* `OwnerCorrect` - `OverrideHasOwner`, for any number of clients and requests, if
  none of them throws the ramp switch, the process lives and no packet is lost
  (the lamp may lose its power). `OwnerInv` adds what step has in hand: `TickOwns`
  (between compute and book, what tick holds of the override and of the mode is
  still so, and an override's level is on its way only while the override is
  active) and `DarkWithoutLink`. Each hypothesis is needed. A restart forgets
  overrideWas; a re-arm that fails is not tried again (engine.go:330, run
  `light_release_lost`); rampStop after a live tick that failed leaves the end to
  its own republish (effects.go:150).
* `BeliefCorrect` - `BeliefMatchesLamp`, for any clients, restarts and outages, if
  nobody else writes the lamp (no push, no manual level, no rampStop) and it loses
  neither packets nor power; `light_push_hides_feed` is a push. `NoWriters`: no
  request stands where it would write; `Held`: what the lamp stores is the working
  schedule once one was pushed, in every copy under way, so the drift check never
  finds a drift to repair; `Written`: between a write and its booking the lamp
  shows `tick.out`.

`SelfUpdate_proofs`: one invariant, `UpdateInv`, gives five of the six theorems.
It is `TypeOK`, `ProcessOK` (whoever is past the lock holds it alone, and what
it is about to unpack was verified), `FilesOK` (what current, PREVIOUS and the
running process name is whole and was served where that is claimed) and
`ScriptOK` (without an update since the last rollback, PREVIOUS is absent or is
current, so there is nothing to go back to).

* `UpdateTypeCorrect`, `RunnableCorrect`, `TargetCorrect`, `ConfirmCorrect` -
  conjuncts of it or consequences. `RollbackCorrect` - the action property, from
  `ScriptOK`.
* `NeverBehindCorrect` - from a second invariant, `ForwardInv`: an update goes
  forward from what runs, current has left what runs only by an update that
  noted it in PREVIOUS, and CONFIRMED does not name what runs while the grace
  period lasts; hence neither current nor PREVIOUS is behind a confirmed
  release, unless a write of PREVIOUS was lost. A lost write of CONFIRMED, which
  may leave the file empty, needs no exception.

`StripMonitor_proofs` (`StoreAssumption`, `MonitorAssumption`,
`NoneAssumption`):

* `BindingsCorrect` - inductive as it stands. The exchange of `Assign` is the
  lemma `SwapKeepsDistinct`; a failed save that leaves memory ahead of the file
  does not matter because both are well formed on their own.
* `MonitorTypeCorrect`, `OneOutletCorrect`, `QuietCorrect` - from `MonitorInv`:
  the checkpoint stands at the end of the log and holds the outlet of the last
  reading; the open event is the checkpoint's, and all it spans came from the
  checkpoint's outlet; a closed event spans readings of one outlet and ends no
  later than the checkpoint; no sample is newer than the checkpoint, so a replay
  finds nothing to record.

`JebaoPumps_proofs` (`PumpAssumption`), each invariant on top of the one before:

* `OneConversationCorrect`, `FreshCorrect` - the types, the flag, and that what a
  pump's page shows was decoded with the key noted beside it: the attributes
  always, the labels after a refresh.
* `SuccessCorrect` - `Confirmable`: an acknowledgement in the connection of the
  request under way means that the pump took its write, and every report behind
  it was made after that.
* `OnlyAskedCorrect` - `WritesAsked`: every write on its way, in the connection
  or in a closed socket, was asked for and has one flag.
* `NeverResentCorrect` - `AllOnce`: a write is in one place, the connection, a
  closed socket or the pump, and in none before it is sent.

`TankReadings_proofs`: `MirrorCorrect` from `MirrorInv` (events are in order, and
neither an event nor a snapshot on its way is older than the mirror) and
`ReadingCorrect`.

`LightCurve_proofs`: `LevelsCorrect` from the ranges that each effect keeps
(`SetupAssumption`), and two theorems about rounding, which rest on
`NormalAssumption` too: the settings are what normalizeSchedule, normalizeSiesta
and the bounds of the master leave.

* `NoJumpsCorrect` - the action property, from `Looked`: what the lamp shows and
  the effective schedule are functions of the settings, the day and the minute.
  An interpolated value, halved, scaled by the master and rounded twice stays
  between its neighbours because each of these operations is monotone and maps
  the two ends to the ends (`DivGrows`, `RoundedGrows`, `RoundedExact` and the
  `Between` lemmas); the windows and midnight are cases of `MinuteAfter`.
* `BakersCorrect` - `BakersAgree`: on the hour the engine meets the row itself
  (`OnTheHour`), a siesta that ends by midnight is the same set of minutes for the
  two tests of a window (`SiestasAgree`), and a full moon has the same level in both
  (`FullMoon`); `RowsAgree` puts them together row by row. A start that is no time of the day, like 25:00, is outside
  `NormalAssumption`: the engine wraps it, the push handler takes 13:00 instead.

`ActivityRecorder_proofs` (`RecorderAssumption`, `CheckpointAssumption`): the
refinement, step by step. `PromiseInv` says that the table of every device
follows from its log, from its state as loaded and from what retention forgot:
the closed events are the log's runs that ended, an open event is the run that
has not, the state's `low`, outlet and last instant are those of the log's end.
`SettledIs` makes the mapping a function of log and forgotten under `PromiseInv`;
every step then maps to a step of `ActivityLog` or a stutter. The events of
a log are given by positions (`LastOf`) and not by recursion, so that what an
appended reading does to them is proved without induction over the log.

* `PromiseKept` - for any devices, under `HistoryWaits`: no reading deletes a
  sample of a device whose old event is not adopted yet. `PromiseKeptAlone` - with
  one device, as in `activity_promise`, that always holds. `PromiseKeptFresh` -
  with any number of devices, when no older program had written an event, nothing
  waits to be adopted.
* Without `HistoryWaits` the promise is false, which the proof found and TLC
  confirms with two devices and an instant of sample age: RecordEquipmentReading
  deletes the old samples of every device (activity.go:166). A device that is read
  for the first time more than a day after an older program's last sample then has
  none of the two low samples left that end its event, and the next run is merged
  into that event, which the comment at activity.go:106 is there to prevent. It
  takes an upgrade, one outlet that answers and another that is silent for a day.
* `RecorderTypeCorrect` - `TypeOK`.

`StripMonitor_proofs` composes: `MonitorKeepsPromise` says that the monitor, with
its strips polled at once, moved plugs, clock steps and restarts, implements
`ActivityLog`. Every step of the monitor is a step of the recorder or leaves its
tables alone, and the monitor starts without a history, so that `HistoryWaits`
holds as in `PromiseKeptFresh`.

`HubServices_proofs` - three services and the whole:

* `TallyCorrect` from `RunSaves` (what Run has snapped is what is counted, unless
  the flag is set again; what it failed to write is `failed`); `SeededOnceCorrect` from `SeedInv`, which adds what holds
  inside the seed's transaction.
* `LiquidCorrect`, `AcknowledgedCorrect` - from `BooksInv`: memory and file are
  well kept books each (entries numbered without a gap up to the last number, and
  the balance), the file is never ahead of memory, and no number is given twice
  to answered entries. The balance speaks of a course of levels rather than of a
  sum over the audit: a step adds one level at the end, and an audit that has
  reached its limit drops one at the front, and neither needs induction.
* `ServicesTypeCorrect`, `ServicesCorrect` - `HubRunsServices`: a behaviour of the hub is
  one of each service, so the hub has what each of them has.

Only model-checked: the liveness properties (`OverrideShown`, `RampDrives`,
`OverrideReleased`, `LampHeals`, `PollingFollows`, `BusyEnds`, `SourceFollowed`),
because fairness and ENABLED are out of this prover's reach, and the four runs that
end in a violation. Every safety property of the other runs is stated by a theorem.
No operator is recursive.

## Not modelled

* The window between rampStop's republish and a `Hand` of the tick under way
  (effects.go:163): the level lands after the schedule, the engine is dormant by
  then, and nothing removes the level before the next push or override. The
  steps are in `LightControl`, which therefore allows it; no run asks for the
  contrary, and the runs that relate the lamp to the engine are not about it.
* Two saves whose snapshots reach the disk in the other order (server.go:915),
  and torn writes of `effects.json`: files are written in one step and whole.
* The TCP proxy (one more client of the gate), the ring log (a buffer under one
  mutex), history pages, charts, backups,
  dashboards.
* Profiles, configuration, spreadsheets, version history, bootstrap,
  thread border router status, setup, panel and diagnostics pages, firmware:
  sequential input and output with no state that two actors meet in.

## Plan

1. Lighting, `SelfUpdate`, equipment and the six services: modelled, checked,
   and proved as listed.
2. Left: the store's file with reordered saves, as a `writing` step between the
   snapshot and the file in `LightControl`; rampStop against a write in flight
   as a run of its own; the proxy as another holder of the gate; `OwnerCorrect`
   with lost packets, which needs the failed re-arm as an owner of its own.
