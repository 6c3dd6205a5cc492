----------------------------- MODULE SelfUpdate -----------------------------
(***************************************************************************)
(* Self-update (internal/updater/updater.go), the update routes and loop   *)
(* of cmd/reeftank-hub/main.go, and what surrounds the process: the unit   *)
(* file deploy/reeftank-hub.service and deploy/rollback.sh.                *)
(*                                                                         *)
(* The files survive everything: the binaries under releases/, the symlink *)
(* current and state/{PREVIOUS,CONFIRMED,ROLLED_BACK}.  Apply and the      *)
(* rollback script touch them one at a time, and each touch is an action,  *)
(* so that a death in between leaves what it would leave on the disk.      *)
(***************************************************************************)
EXTENDS Naturals

CONSTANTS
    Tag,         \* releases: <<number, label>>; cmpTag sees the number only
    Installed,   \* the release that install.sh put on the device
    Sick,        \* releases that run and fail the health check
    Crashing,    \* releases that die as soon as they are started
    Events,      \* the kinds of mishap that happen
    MaxEvents    \* bound: mishaps in a behaviour

(* A file that cannot be written; systemctl restart refused; the process   *)
(* dies; a healthy release that crash-loops for a while; the power fails.  *)
EventKind == {"disk", "refused", "dies", "crashloop", "power"}
NoTag == <<0, "none">>

ASSUME UpdateAssumption ==
    /\ Tag \subseteq (Nat \X STRING) \ {NoTag}
    /\ Installed \in Tag \ (Sick \cup Crashing)
    /\ Sick \subseteq Tag /\ Crashing \subseteq Tag
    /\ Events \subseteq EventKind
    /\ MaxEvents \in Nat

VARIABLES
    published,   \* releases on GitHub that carry both assets
    binary,      \* releases/<tag>/reeftank-hub
    current,     \* the symlink
    previous,    \* state/PREVIOUS
    confirmed,   \* state/CONFIRMED
    rolledBack,  \* state/ROLLED_BACK
    service,     \* the unit: "starting", "up" or "failed"
    running,     \* the release that runs
    graceTimer,  \* is ConfirmAfterStart waiting?
    lock,        \* who holds applyMu
    pc, rel,     \* the two goroutines that can apply: the loop and a request
    payload,     \* what the holder of the lock downloaded
    rollback,    \* where rollback.sh stands
    move,        \* what it decided: <<from, to>>
    events,      \* mishaps so far (bound: MaxEvents)
    served,      \* history: releases that came up
    passed,      \* history: releases that were confirmed
    updated,     \* history: has an update repointed current since the last rollback?
    lost         \* history: has a write of PREVIOUS failed?

files == <<binary, current, previous, confirmed, rolledBack>>
process == <<running, graceTimer, lock, pc, rel, payload>>
script == <<rollback, move>>
history == <<served, passed, updated, lost>>
vars == <<published, files, service, process, script, events, history>>

Applier == {"loop", "api"}
NoMove == <<NoTag, NoTag>>
Move == (Tag \cup {NoTag}) \X (Tag \cup {NoTag})

TypeOK ==
    /\ published \subseteq Tag
    /\ binary \in [Tag -> {"none", "whole", "broken"}]
    /\ current \in Tag
    /\ previous \in Tag \cup {NoTag}
    /\ confirmed \in Tag \cup {NoTag}
    /\ rolledBack \in Move
    /\ service \in {"starting", "up", "failed"}
    /\ running \in Tag \cup {NoTag}
    /\ graceTimer \in BOOLEAN
    /\ lock \in Applier \cup {"none"}
    /\ pc \in [Applier -> {"idle", "found", "download", "verify", "backup", "install",
                           "record", "repoint", "restart"}]
    /\ rel \in [Applier -> Tag \cup {NoTag}]
    /\ payload \in {"none", "whole", "broken"}
    /\ rollback \in {"idle", "decide", "repoint", "record", "restart"}
    /\ move \in Move
    /\ events \in 0..MaxEvents
    /\ served \subseteq Tag
    /\ passed \subseteq Tag
    /\ updated \in BOOLEAN
    /\ lost \in BOOLEAN

Event(kind) == kind \in Events /\ events < MaxEvents /\ events' = events + 1

NoProcess ==
    /\ running' = NoTag /\ graceTimer' = FALSE
    /\ lock' = "none" /\ payload' = "none"
    /\ pc' = [a \in Applier |-> "idle"]
    /\ rel' = [a \in Applier |-> NoTag]

(* install.sh trusts the release it installs. *)
Init ==
    /\ published = {Installed}
    /\ binary = [t \in Tag |-> IF t = Installed THEN "whole" ELSE "none"]
    /\ current = Installed /\ confirmed = Installed
    /\ previous = NoTag /\ rolledBack = NoMove
    /\ service = "starting" /\ running = NoTag /\ graceTimer = FALSE
    /\ lock = "none" /\ payload = "none"
    /\ pc = [a \in Applier |-> "idle"] /\ rel = [a \in Applier |-> NoTag]
    /\ rollback = "idle" /\ move = NoMove
    /\ events = 0
    /\ served = {} /\ passed = {Installed} /\ updated = FALSE /\ lost = FALSE

-----------------------------------------------------------------------------
(* Check: the newest release published, when it is newer than the one that *)
(* runs.  Releases with the same number are neither newer nor older.       *)

Newer(a, b) == a[1] > b[1]
Newest == {t \in published : \A u \in published : ~Newer(u, t)}

Check(a) ==
    /\ service = "up"
    /\ pc[a] = "idle"
    /\ \E t \in Newest :
         /\ Newer(t, running)
         /\ rel' = [rel EXCEPT ![a] = t]
    /\ pc' = [pc EXCEPT ![a] = "found"]
    /\ UNCHANGED <<published, files, service, running, graceTimer, lock, payload, script, events,
                   history>>

-----------------------------------------------------------------------------
(* Apply, by a goroutine that found a release. *)

At(a, place) == service = "up" /\ pc[a] = place
Goto(a, place) == pc' = [pc EXCEPT ![a] = place]

Abort(a) ==
    /\ Goto(a, "idle")
    /\ rel' = [rel EXCEPT ![a] = NoTag]
    /\ lock' = "none" /\ payload' = "none"

applyElse == <<published, service, running, graceTimer, script, history>>

TryLock(a) ==
    /\ At(a, "found")
    /\ IF lock = "none"
         THEN lock' = a /\ Goto(a, "download") /\ UNCHANGED rel
         ELSE Goto(a, "idle") /\ rel' = [rel EXCEPT ![a] = NoTag] /\ UNCHANGED lock
    /\ UNCHANGED <<payload, files, events, applyElse>>

(* Three attempts each for the binary and its checksum file. *)
Download(a) ==
    /\ At(a, "download")
    /\ \/ Abort(a)
       \/ /\ payload' \in {"whole", "broken"}
          /\ Goto(a, "verify")
          /\ UNCHANGED <<rel, lock>>
    /\ UNCHANGED <<files, events, applyElse>>

(* Mutant: the checksum is not compared. *)
VerifyNothing(a) ==
    /\ At(a, "verify")
    /\ Goto(a, "backup") /\ UNCHANGED <<rel, lock, payload>>
    /\ UNCHANGED <<files, events, applyElse>>

Verify(a) ==
    /\ At(a, "verify")
    /\ IF payload = "whole" THEN Goto(a, "backup") /\ UNCHANGED <<rel, lock, payload>>
                            ELSE Abort(a)
    /\ UNCHANGED <<files, events, applyElse>>

Backup(a) ==
    /\ At(a, "backup")
    /\ \/ Goto(a, "install") /\ UNCHANGED <<rel, lock, payload, events>>
       \/ Event("disk") /\ Abort(a)
    /\ UNCHANGED <<files, applyElse>>

(* Write to a temporary file, then rename. *)
Install(a) ==
    /\ At(a, "install")
    /\ \/ /\ binary' = [binary EXCEPT ![rel[a]] = payload]
          /\ Goto(a, "record")
          /\ UNCHANGED <<rel, lock, payload, events>>
       \/ Event("disk") /\ Abort(a) /\ UNCHANGED binary
    /\ UNCHANGED <<current, previous, confirmed, rolledBack, applyElse>>

recordElse == <<rel, lock, payload, binary, current, confirmed, rolledBack, published, service,
                running, graceTimer, script, served, passed, updated>>

(* Mutant: what the symlink points to, not what runs. *)
RecordPreviousLink(a) ==
    /\ At(a, "record")
    /\ previous' = current
    /\ Goto(a, "repoint")
    /\ UNCHANGED <<events, lost, recordElse>>

(* A failure to write PREVIOUS, which may leave the file empty, is ignored. *)
RecordPrevious(a) ==
    /\ At(a, "record")
    /\ \/ previous' = running /\ UNCHANGED <<events, lost>>
       \/ Event("disk") /\ previous' \in {previous, NoTag} /\ lost' = TRUE
    /\ Goto(a, "repoint")
    /\ UNCHANGED recordElse

Repoint(a) ==
    /\ At(a, "repoint")
    /\ \/ /\ current' = rel[a]
          /\ updated' = TRUE
          /\ Goto(a, "restart")
          /\ UNCHANGED <<rel, lock, payload, events>>
       \/ Event("disk") /\ Abort(a) /\ UNCHANGED <<current, updated>>
    /\ UNCHANGED <<published, service, running, graceTimer, script, served, passed, lost,
                   binary, previous, confirmed, rolledBack>>

(* systemctl restart ends the process, or is refused and leaves the old    *)
(* release running over the new symlink.                                   *)
RestartService(a) ==
    /\ At(a, "restart")
    /\ \/ service' = "starting" /\ NoProcess /\ UNCHANGED events
       \/ Event("refused") /\ Abort(a) /\ UNCHANGED <<service, running, graceTimer>>
    /\ UNCHANGED <<published, files, script, history>>

Apply(a) ==
    \/ TryLock(a) \/ Download(a) \/ Verify(a) \/ Backup(a) \/ Install(a)
    \/ RecordPrevious(a) \/ Repoint(a) \/ RestartService(a)

-----------------------------------------------------------------------------
(* ConfirmAfterStart: the grace period is over.  What is confirmed is the  *)
(* release that runs.                                                      *)

(* Mutant: what is confirmed is the release that current points to. *)
ConfirmLink ==
    /\ service = "up" /\ graceTimer
    /\ graceTimer' = FALSE
    /\ IF running \in Sick
         THEN UNCHANGED <<confirmed, passed>>
         ELSE confirmed' = current /\ passed' = passed \cup {current}
    /\ UNCHANGED <<published, binary, current, previous, rolledBack, service, running, lock, pc,
                   rel, payload, script, events, served, updated, lost>>

(* A write that fails may leave the file empty, and is not tried again     *)
(* before the next start.                                                  *)
Confirm ==
    /\ service = "up" /\ graceTimer
    /\ graceTimer' = FALSE
    /\ \/ running \in Sick /\ UNCHANGED <<confirmed, passed, events>>
       \/ /\ running \notin Sick
          /\ \/ confirmed' = running /\ passed' = passed \cup {running} /\ UNCHANGED events
             \/ Event("disk") /\ confirmed' \in {confirmed, NoTag} /\ UNCHANGED passed
    /\ UNCHANGED <<published, binary, current, previous, rolledBack, service, running, lock, pc,
                   rel, payload, script, served, updated, lost>>

-----------------------------------------------------------------------------
(* The unit: start what current points to; give up on a crash loop, which  *)
(* starts the rollback unit.                                               *)

Runnable(t) == binary[t] = "whole" /\ t \notin Crashing

Start ==
    /\ service = "starting"
    /\ Runnable(current)
    /\ service' = "up"
    /\ running' = current
    /\ graceTimer' = (confirmed # current)
    /\ served' = served \cup {current}
    /\ UNCHANGED <<published, files, lock, pc, rel, payload, script, events, passed, updated,
                   lost>>

StartLimitHit ==
    /\ service = "starting"
    /\ \/ ~Runnable(current) /\ UNCHANGED events
       \/ Event("crashloop")
    /\ service' = "failed"
    /\ rollback' = "decide"
    /\ UNCHANGED <<published, files, process, move, history>>

(* Restart=on-failure. *)
Dies ==
    /\ service = "up"
    /\ Event("dies")
    /\ service' = "starting"
    /\ NoProcess
    /\ UNCHANGED <<published, files, script, history>>

PowerFails ==
    /\ Event("power")
    /\ service' = "starting"
    /\ NoProcess
    /\ rollback' = "idle" /\ move' = NoMove
    /\ UNCHANGED <<published, files, history>>

-----------------------------------------------------------------------------
(* rollback.sh.  A command that fails ends it (set -e). *)

scriptElse == <<published, process, binary, previous, confirmed>>

(* Mutants: the guard on CONFIRMED, the guard on PREVIOUS left out. *)
MayRollBackConfirmed ==
    /\ previous # NoTag
    /\ current # previous
    /\ rolledBack # <<current, previous>>
    /\ binary[previous] # "none"
MayRollBackAgain ==
    /\ current # confirmed
    /\ previous # NoTag
    /\ rolledBack # <<current, previous>>
    /\ binary[previous] # "none"
MayRollBack ==
    /\ current # confirmed
    /\ previous # NoTag
    /\ current # previous
    /\ rolledBack # <<current, previous>>
    /\ binary[previous] # "none"

RollbackDecides ==
    /\ rollback = "decide"
    /\ IF MayRollBack THEN rollback' = "repoint" /\ move' = <<current, previous>>
                      ELSE rollback' = "idle" /\ UNCHANGED move
    /\ UNCHANGED <<scriptElse, current, rolledBack, service, events, history>>

ScriptEnds == rollback' = "idle" /\ move' = NoMove

RollbackRepoints ==
    /\ rollback = "repoint"
    /\ \/ /\ current' = move[2] /\ updated' = FALSE
          /\ rollback' = "record"
          /\ UNCHANGED <<move, events>>
       \/ Event("disk") /\ ScriptEnds /\ UNCHANGED <<current, updated>>
    /\ UNCHANGED <<scriptElse, rolledBack, service, served, passed, lost>>

RollbackRecordsTarget ==   \* mutant: only the target is written
    /\ rollback = "record"
    /\ rolledBack' = <<move[2]>>
    /\ rollback' = "restart"
    /\ UNCHANGED <<scriptElse, move, current, service, events, history>>

RollbackRecords ==
    /\ rollback = "record"
    /\ \/ /\ rolledBack' = move
          /\ rollback' = "restart"
          /\ UNCHANGED <<move, events>>
       \/ Event("disk") /\ rolledBack' \in {rolledBack, NoMove} /\ ScriptEnds
    /\ UNCHANGED <<scriptElse, current, service, history>>

(* Refused also when the unit is still over its start limit. *)
RollbackRestarts ==
    /\ rollback = "restart"
    /\ \/ service' = "starting" /\ UNCHANGED events
       \/ Event("refused") /\ UNCHANGED service
    /\ ScriptEnds
    /\ UNCHANGED <<scriptElse, current, rolledBack, history>>

Rollback == RollbackDecides \/ RollbackRepoints \/ RollbackRecords \/ RollbackRestarts

-----------------------------------------------------------------------------
(* A release is published; a release is withdrawn. *)

Publish ==
    /\ \E t \in Tag \ published : published' = published \cup {t}
    /\ UNCHANGED <<files, service, process, script, events, history>>

Withdraw ==
    /\ \E t \in published : published' = published \ {t}
    /\ UNCHANGED <<files, service, process, script, events, history>>

Next ==
    \/ \E a \in Applier : Check(a) \/ Apply(a)
    \/ Confirm
    \/ Start \/ StartLimitHit \/ Dies \/ PowerFails
    \/ Rollback
    \/ Publish \/ Withdraw

Spec == Init /\ [][Next]_vars

(* The process, the unit and the script do not stop half-way, and the      *)
(* update loop looks again and again.  Nothing is assumed of the publisher *)
(* or of the user.                                                         *)
Fairness ==
    /\ \A a \in Applier : WF_vars(Apply(a))
    /\ WF_vars(Check("loop"))
    /\ WF_vars(Confirm)
    /\ WF_vars(Start \/ StartLimitHit)
    /\ WF_vars(Rollback)

FairSpec == Spec /\ Fairness

-----------------------------------------------------------------------------
(* Whatever Apply was doing when the process died or the power failed, the *)
(* symlink and the rollback target point at complete, verified binaries    *)
(* (updater.go:239-276).                                                   *)
CurrentRunnable ==
    /\ binary[current] = "whole"
    /\ previous # NoTag => binary[previous] = "whole"

(* The rollback target is a release that has run on this device, also when *)
(* a refused restart left the old release running over the new symlink     *)
(* and a further update is applied from there (updater.go:271-276).        *)
RollbackTargetHasRun == previous # NoTag => previous \in served

(* A release is only confirmed after it came up here and passed the health *)
(* check, whichever release current points to by then (updater.go:285).    *)
ConfirmsWhatRan == passed \ {Installed} \subseteq served \ Sick

(* No sequence of updates, failures and rollbacks takes the device behind  *)
(* a release that was once confirmed (rollback.sh:23), unless a write of   *)
(* PREVIOUS has failed: Apply goes on without it (updater.go:272), and a   *)
(* rollback then goes to the target of the update before.                  *)
NeverBehindConfirmed ==
    running # NoTag /\ ~lost => \A t \in passed : ~Newer(t, running)

(* "Guards against ping-ponging" (rollback.sh:5): no two rollbacks without *)
(* an update in between.                                                   *)
RollbackOncePerUpdate == [][RollbackRepoints => updated]_vars

(* "rolls the symlink back to PREVIOUS if it never confirms"               *)
(* (updater.go:17): no release stays current for ever unconfirmed.         *)
UnconfirmedLeft == \A t \in Tag : current = t ~> confirmed = t \/ current # t

=============================================================================
