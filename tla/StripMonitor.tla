----------------------------- MODULE StripMonitor -----------------------------
(***************************************************************************)
(* The high-frequency monitor, internal/highfreq/monitor.go, over the      *)
(* equipment map and the activity recorder.                                *)
(*                                                                         *)
(* One goroutine per strip starts a poll from a snapshot of the map; one   *)
(* goroutine per device reads its outlet over the network; the strip's     *)
(* goroutine takes the results one at a time, looks the device up again,   *)
(* stamps the reading and records it.  The user may change the map between *)
(* any two of these.                                                       *)
(*                                                                         *)
(* Left out: the list of child ids (a poll that cannot get it ends before  *)
(* it starts), the backoff (time is not modelled), the status page.        *)
(***************************************************************************)
EXTENDS EquipmentStore, Integers, Sequences

CONSTANTS NoOutlet, Open, NoCheckpoint, MaxTime, SampleAge,
    NoJob,
    MaxRestarts \* bound: how often the process dies

ASSUME MonitorAssumption ==
    /\ MaxRestarts \in Nat /\ MaxTime \in Nat /\ SampleAge \in Nat
    /\ NoOutlet \notin Entity /\ Open \notin Nat

VARIABLES
    checkpoint, events, samples, replay, log, forgotten,
    job,        \* job[s][d]: what strip s's poll is doing for device d
    source,     \* history: source[d], the entities the accepted readings came from
    restarts

Recorder == INSTANCE ActivityRecorder WITH Outlet <- Entity

recorder == <<checkpoint, events, samples, replay, log, forgotten>>
vars == <<store, recorder, job, source, restarts>>

Job == [phase : {"asked", "answered", "current"}, entity : Entity]

ASSUME NoneAssumption == NoJob \notin Job /\ NoCheckpoint \notin Recorder!State

NoJobs == [s \in Strip |-> [d \in Device |-> NoJob]]

MonitorInit ==
    /\ job = NoJobs
    /\ source = [d \in Device |-> <<>>]
    /\ restarts = 0

Set(s, d, j) == job' = [job EXCEPT ![s][d] = j]
At(s, d, phase) == job[s][d] # NoJob /\ job[s][d].phase = phase

\* Mutant: the strip is looked up in the saved file.
EnabledByFile(s) ==
    {d \in map.polled : file.entity[d] \in Outlet /\ StripOf[file.entity[d]] = s}

\* PhysicalOutlet, by the entity and never by the device's own slot: a device
\* whose entity is not in the catalog is not polled.
Enabled(s) ==
    {d \in map.polled : /\ map.entity[d] \in Outlet
                        /\ StripOf[map.entity[d]] = s}

\* A round of runStrip: the poll of the last one is over.
StartPoll(s) ==
    /\ replay = {}
    /\ job[s] = NoJobs[s]
    /\ Enabled(s) # {}
    /\ job' = [job EXCEPT ![s] =
                  [d \in Device |-> IF d \in Enabled(s)
                                    THEN [phase |-> "asked", entity |-> map.entity[d]]
                                    ELSE NoJob]]
    /\ UNCHANGED <<store, recorder, source, restarts>>

\* The outlet's energy meter answers.  What it says matters, and is chosen, when
\* it is recorded.
Answer(s, d) ==
    /\ At(s, d, "asked")
    /\ Set(s, d, [job[s][d] EXCEPT !.phase = "answered"])
    /\ UNCHANGED <<store, recorder, source, restarts>>

\* It does not: setError, or nothing if the binding is gone by then.
NoAnswer(s, d) ==
    /\ At(s, d, "asked")
    /\ Set(s, d, NoJob)
    /\ UNCHANGED <<store, recorder, source, restarts>>

\* The binding may have changed while the request was in flight.
StillBound(s, d) == d \in map.polled /\ map.entity[d] = job[s][d].entity

\* The results are taken one at a time.
Check(s, d) ==
    /\ At(s, d, "answered")
    /\ \A x \in Device : ~At(s, x, "current")
    /\ Set(s, d, IF StillBound(s, d) THEN [job[s][d] EXCEPT !.phase = "current"] ELSE NoJob)
    /\ UNCHANGED <<store, recorder, source, restarts>>

BindingNow(s, d) == map.entity[d]   \* mutant: the latest binding

\* The reading goes to the recorder under the binding it was taken with.
BindingOf(s, d) == job[s][d].entity

\* accept.  The clock may be set at any moment, so that the time is any, also one
\* before that of a reading that another strip has recorded meanwhile.  If the
\* database fails, the reading is lost.
Accept(s, d) ==
    /\ At(s, d, "current")
    /\ \/ \E at \in Recorder!Time, high \in BOOLEAN :
              Recorder!Live(d, BindingOf(s, d), at, high)
       \/ UNCHANGED recorder
    /\ source' = IF log' = log THEN source
                 ELSE [source EXCEPT ![d] = Append(@, job[s][d].entity)]
    /\ Set(s, d, NoJob)
    /\ UNCHANGED <<store, restarts>>

PollStrip(s) ==
    \/ StartPoll(s)
    \/ \E d \in Device :
          \/ Answer(s, d)
          \/ NoAnswer(s, d)
          \/ Check(s, d)
          \/ Accept(s, d)

\* Nothing of a replay is new here: every sample was saved with a checkpoint.
ReplaySample ==
    /\ \/ \E x \in replay : Recorder!Replay(x)
       \/ \E x \in replay : Recorder!ReplayFails(x.device)
    /\ source' = IF log' = log THEN source
                 ELSE [d \in Device |-> IF log'[d] = log[d] THEN source[d]
                                        ELSE Append(source[d], NoOutlet)]
    /\ UNCHANGED <<store, job, restarts>>

\* The process dies and a new one opens the map and replays.
Restart(now) ==
    /\ restarts < MaxRestarts
    /\ restarts' = restarts + 1
    /\ Reopen
    /\ Recorder!Boot(file.polled, now)
    /\ job' = NoJobs
    /\ UNCHANGED source

UserEdits == StoreNext /\ UNCHANGED <<recorder, job, source, restarts>>

Init == StoreInit /\ Recorder!NoHistory /\ MonitorInit

Next ==
    \/ UserEdits
    \/ \E s \in Strip : PollStrip(s)
    \/ ReplaySample
    \/ \E now \in Recorder!Time : Restart(now)

Spec == Init /\ [][Next]_vars

\* The strips' goroutines and the replay run by themselves, every request ends
\* within its timeout, and a strip that is asked again and again answers again
\* and again.
FairSpec ==
    /\ Spec
    /\ WF_vars(ReplaySample)
    /\ \A s \in Strip :
          /\ WF_vars(StartPoll(s))
          /\ \A d \in Device :
                /\ WF_vars(NoAnswer(s, d))
                /\ SF_vars(Answer(s, d))
                /\ WF_vars(Check(s, d))
                /\ WF_vars(Accept(s, d))

(***************************************************************************)
(* Properties.                                                             *)
(***************************************************************************)
\* The types.
TypeOK ==
    /\ StoreTypeOK
    /\ Recorder!TypeOK
    /\ job \in [Strip -> [Device -> Job \cup {NoJob}]]
    /\ source \in [Device -> Seq(Entity)]
    /\ restarts \in 0..MaxRestarts

\* The readings that an event spans all came from one outlet, however the plugs
\* were moved while its strip was asked, whichever strip's reading was recorded
\* first.  "Discard the old binding's result instead of attaching it to the new
\* assignment." (monitor.go:169)
EventOfOneOutlet ==
    \A e \in events :
        LET l == log[e.device]
            spanned == {i \in DOMAIN l :
                           /\ l[i].at >= e.start
                           /\ e.end = Open \/ l[i].at <= e.end}
        IN \A i, j \in spanned : source[e.device][i] = source[e.device][j]

\* A device that stays plugged into a known outlet and polled is read through
\* it, whichever strip it was on before (TestPollingFollowsRemappedOutlet).
Sampling(d, o) ==
    At(StripOf[o], d, "current") /\ job[StripOf[o]][d].entity = o

PollingFollows ==
    \A d \in Pollable, o \in Outlet :
        <>[](d \in map.polled /\ map.entity[d] = o) => []<>Sampling(d, o)

\* The replay at the start of a process finds nothing new: what was recorded
\* live is not recorded again, wherever the process before died
\* (TestActivityLiveReplayAndRestartAgree).
ReplayIsQuiet == [][replay # {} => UNCHANGED <<log, events>>]_vars
=============================================================================
