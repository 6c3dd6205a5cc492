--------------------------- MODULE SelfUpdate_proofs ---------------------------
(***************************************************************************)
(* What holds of the update for every set of releases, whichever of them   *)
(* are sick or crash, and any number of mishaps of any kind.               *)
(***************************************************************************)
EXTENDS SelfUpdate, TLAPS

Place == {"idle", "found", "download", "verify", "backup", "install",
          "record", "repoint", "restart"}

(***************************************************************************)
(* The goroutines that apply: one at a time behind the lock, and none when *)
(* the process is down.  From the checksum on the payload is whole, and so *)
(* is the binary from the rename on.                                       *)
(***************************************************************************)
ProcessOK ==
    /\ service # "up" =>
          running = NoTag /\ lock = "none" /\ \A a \in Applier : pc[a] = "idle"
    /\ service = "up" => running \in served
    /\ \A a \in Applier :
          /\ pc[a] # "idle" => rel[a] \in Tag
          /\ pc[a] \notin {"idle", "found"} => lock = a
          /\ pc[a] \in {"backup", "install"} => payload = "whole"
          /\ pc[a] \in {"record", "repoint"} => binary[rel[a]] = "whole"

(***************************************************************************)
(* The files.  What came up was whole, and is not overwritten by less.     *)
(***************************************************************************)
FilesOK ==
    /\ \A t \in served : binary[t] = "whole"
    /\ binary[current] = "whole"
    /\ RollbackTargetHasRun
    /\ ConfirmsWhatRan

(***************************************************************************)
(* The script.  It runs beside a unit that is down, and without an update  *)
(* since the last rollback there is nothing to go back to: the target is   *)
(* current itself, or there is none.                                       *)
(***************************************************************************)
ScriptOK ==
    /\ rollback # "idle" => service = "failed"
    /\ rollback = "repoint" => move = <<current, previous>> /\ previous \in Tag /\ updated
    /\ ~updated => previous \in {NoTag, current} /\ running \in {NoTag, current}

UpdateInv == TypeOK /\ ProcessOK /\ FilesOK /\ ScriptOK

LEMMA TagFacts ==
    /\ NoTag \notin Tag /\ Installed \in Tag
    /\ "loop" # "none" /\ "api" # "none"
BY UpdateAssumption

LEMMA UpdateInit == Init => UpdateInv
<1> SUFFICES ASSUME Init PROVE UpdateInv
  OBVIOUS
<1>1. TypeOK
  <2>1. NoMove \in Move
    BY DEF NoMove, Move
  <2>2. MaxEvents \in Nat
    BY UpdateAssumption
  <2>3. binary \in [Tag -> {"none", "whole", "broken"}]
    BY DEF Init
  <2>4. /\ pc \in [Applier -> Place]
        /\ rel \in [Applier -> Tag \cup {NoTag}]
    BY DEF Init, Place
  <2>5. events \in 0..MaxEvents
    BY <2>2 DEF Init
  <2> QED BY <2>1, <2>3, <2>4, <2>5, TagFacts DEF Init, TypeOK, Place
<1>2. ProcessOK
  BY DEF Init, ProcessOK
<1>3. FilesOK
  BY TagFacts DEF Init, FilesOK, RollbackTargetHasRun, ConfirmsWhatRan
<1>4. ScriptOK
  BY DEF Init, ScriptOK
<1> QED BY <1>1, <1>2, <1>3, <1>4 DEF UpdateInv

(***************************************************************************)
(* Check and Apply.                                                        *)
(***************************************************************************)
LEMMA CheckKeeps == ASSUME UpdateInv, NEW a \in Applier, Check(a) PROVE UpdateInv'
<1>a. TypeOK /\ ProcessOK /\ FilesOK /\ ScriptOK
  BY DEF UpdateInv
<1>b. PICK t \in Tag : rel' = [rel EXCEPT ![a] = t]
  BY <1>a DEF Check, Newest, TypeOK
<1>c. /\ service = "up" /\ pc[a] = "idle" /\ pc' = [pc EXCEPT ![a] = "found"]
      /\ UNCHANGED <<published, binary, current, previous, confirmed, rolledBack, service,
                     running, graceTimer, lock, payload, rollback, move, events, served,
                     passed, updated, lost>>
  BY DEF Check, files, script, history
<1>1. TypeOK'
  BY <1>a, <1>b, <1>c DEF TypeOK
<1>2. ProcessOK'
  BY <1>a, <1>b, <1>c DEF ProcessOK, TypeOK
<1>3. FilesOK' /\ ScriptOK'
  BY <1>a, <1>c DEF FilesOK, ScriptOK, RollbackTargetHasRun, ConfirmsWhatRan
<1> QED BY <1>1, <1>2, <1>3 DEF UpdateInv

\* A step of the goroutine that holds the lock, up to the binary.
LEMMA HolderKeeps ==
    ASSUME UpdateInv, NEW a \in Applier, NEW place \in Place \ {"record", "repoint"},
           pc[a] \notin {"idle", "found"}, service = "up",
           pc' = [pc EXCEPT ![a] = place],
           \/ (rel' = rel /\ lock' = lock /\ place # "idle")
           \/ (rel' = [rel EXCEPT ![a] = NoTag] /\ lock' = "none" /\ place = "idle"),
           payload' \in {"none", "whole", "broken"},
           place \in {"backup", "install"} => payload' = "whole",
           events' \in 0..MaxEvents,
           UNCHANGED <<published, binary, current, previous, confirmed, rolledBack, service,
                       running, graceTimer, rollback, move, served, passed, updated, lost>>
    PROVE  UpdateInv'
<1>a. TypeOK /\ ProcessOK /\ FilesOK /\ ScriptOK
  BY DEF UpdateInv
<1>b. lock = a /\ \A b \in Applier \ {a} : pc[b] \in {"idle", "found"} /\ pc'[b] = pc[b]
  BY <1>a DEF ProcessOK, TypeOK
<1>1. TypeOK'
  BY <1>a DEF TypeOK, Place, Applier
<1>2. ProcessOK'
  BY <1>a, <1>b DEF ProcessOK, TypeOK
<1>3. FilesOK' /\ ScriptOK'
  BY <1>a DEF FilesOK, ScriptOK, RollbackTargetHasRun, ConfirmsWhatRan
<1> QED BY <1>1, <1>2, <1>3 DEF UpdateInv

LEMMA ApplyKeeps == ASSUME UpdateInv, NEW a \in Applier, Apply(a) PROVE UpdateInv'
<1>a. TypeOK /\ ProcessOK /\ FilesOK /\ ScriptOK /\ events \in 0..MaxEvents /\ MaxEvents \in Nat
  BY UpdateAssumption DEF UpdateInv, TypeOK
<1>b. /\ service = "up" /\ pc[a] \in Place
      /\ \A e : Event(e) => events' \in 0..MaxEvents
  BY <1>a DEF Apply, TryLock, Download, Verify, Backup, Install, RecordPrevious, Repoint,
     RestartService, At, TypeOK, Place, Event
<1>1. CASE TryLock(a)
  <2>1. /\ pc[a] = "found"
        /\ UNCHANGED <<payload, published, binary, current, previous, confirmed, rolledBack,
                       service, running, graceTimer, rollback, move, events, served, passed,
                       updated, lost>>
    BY <1>1 DEF TryLock, At, files, applyElse, script, history
  <2>2. \/ /\ lock = "none" /\ lock' = a /\ rel' = rel
           /\ pc' = [pc EXCEPT ![a] = "download"]
        \/ /\ lock' = lock /\ rel' = [rel EXCEPT ![a] = NoTag]
           /\ pc' = [pc EXCEPT ![a] = "idle"]
    BY <1>1 DEF TryLock, Goto
  <2>3. TypeOK'
    BY <1>a, <2>1, <2>2 DEF TypeOK, Applier
  <2>4. ProcessOK'
    <3>1. CASE lock = "none" /\ lock' = a
      <4>1. \A b \in Applier : pc[b] \in {"idle", "found"}
        BY <1>a, <3>1 DEF ProcessOK, TypeOK, Applier
      <4>2. rel' = rel /\ pc' = [pc EXCEPT ![a] = "download"]
        BY <2>2, <3>1 DEF Applier
      <4> QED BY <1>a, <1>b, <2>1, <3>1, <4>1, <4>2 DEF ProcessOK, TypeOK
    <3>2. CASE ~(lock = "none" /\ lock' = a)
      <4>1. /\ lock' = lock /\ rel' = [rel EXCEPT ![a] = NoTag]
            /\ pc' = [pc EXCEPT ![a] = "idle"]
        BY <2>2, <3>2
      <4> QED BY <1>a, <1>b, <2>1, <4>1 DEF ProcessOK, TypeOK
    <3> QED BY <3>1, <3>2
  <2>5. FilesOK' /\ ScriptOK'
    BY <1>a, <2>1 DEF FilesOK, ScriptOK, RollbackTargetHasRun, ConfirmsWhatRan
  <2> QED BY <2>3, <2>4, <2>5 DEF UpdateInv
<1>2. CASE Download(a)
  <2>1. CASE Abort(a)
    BY <1>2, <1>a, <2>1, HolderKeeps DEF Download, Abort, At, Goto, files, applyElse, script,
       history, Place
  <2>2. CASE ~Abort(a)
    BY <1>2, <1>a, <2>2, HolderKeeps DEF Download, At, Goto, files, applyElse, script,
       history, Place
  <2> QED BY <2>1, <2>2
<1>3. CASE Verify(a)
  BY <1>3, <1>a, HolderKeeps DEF Verify, Abort, At, Goto, files, applyElse, script, history,
     Place, TypeOK
<1>4. CASE Backup(a)
  <2>1. payload = "whole" /\ pc[a] = "backup"
    BY <1>4, <1>a DEF Backup, At, ProcessOK
  <2>2. CASE Abort(a) /\ Event("disk")
    BY <1>4, <1>b, <2>1, <2>2, HolderKeeps DEF Backup, Abort, Goto, files, applyElse, script,
       history, Place
  <2>3. CASE ~(Abort(a) /\ Event("disk"))
    BY <1>4, <1>a, <1>b, <2>1, <2>3, HolderKeeps DEF Backup, Goto, files, applyElse, script,
       history, Place
  <2> QED BY <2>2, <2>3
<1>5. CASE Install(a)
  <2>1. payload = "whole" /\ pc[a] = "install" /\ rel[a] \in Tag
    BY <1>5, <1>a DEF Install, At, ProcessOK
  <2>2. CASE Abort(a) /\ Event("disk") /\ UNCHANGED binary
    BY <1>5, <1>b, <2>1, <2>2, HolderKeeps DEF Install, Abort, Goto, applyElse, script,
       history, Place
  <2>3. CASE ~(Abort(a) /\ Event("disk") /\ UNCHANGED binary)
    <3>1. /\ binary' = [binary EXCEPT ![rel[a]] = "whole"]
          /\ pc' = [pc EXCEPT ![a] = "record"]
          /\ UNCHANGED <<rel, lock, payload, published, current, previous, confirmed,
                         rolledBack, service, running, graceTimer, rollback, move, events,
                         served, passed, updated, lost>>
      BY <1>5, <2>1, <2>3 DEF Install, Goto, applyElse, script, history
    <3>2. \A t \in Tag : binary[t] = "whole" => binary'[t] = "whole"
      BY <1>a, <3>1 DEF TypeOK
    <3>3. TypeOK'
      BY <1>a, <2>1, <3>1 DEF TypeOK
    <3>4. ProcessOK'
      BY <1>a, <2>1, <3>1, <3>2 DEF ProcessOK, TypeOK
    <3>5. FilesOK' /\ ScriptOK'
      BY <1>a, <3>1, <3>2 DEF FilesOK, ScriptOK, RollbackTargetHasRun, ConfirmsWhatRan, TypeOK
    <3> QED BY <3>3, <3>4, <3>5 DEF UpdateInv
  <2> QED BY <2>2, <2>3
<1>6. CASE RecordPrevious(a)
  <2>1. /\ pc[a] = "record" /\ pc' = [pc EXCEPT ![a] = "repoint"]
        /\ previous' \in {running, previous, NoTag} /\ lost' \in BOOLEAN
        /\ UNCHANGED <<rel, lock, payload, published, binary, current, confirmed,
                       rolledBack, service, running, graceTimer, rollback, move, served,
                       passed, updated>>
    BY <1>6, <1>a DEF RecordPrevious, At, Goto, recordElse, script, TypeOK
  <2>2. events' \in 0..MaxEvents
    BY <1>6, <1>a, <1>b DEF RecordPrevious
  <2>3. running \in served /\ running \in Tag
    BY <1>a, <1>b DEF ProcessOK, TypeOK
  <2>4. TypeOK'
    BY <1>a, <2>1, <2>2, <2>3 DEF TypeOK
  <2>5. ProcessOK'
    BY <1>a, <2>1 DEF ProcessOK, TypeOK
  <2>6. FilesOK'
    BY <1>a, <2>1, <2>3 DEF FilesOK, RollbackTargetHasRun, ConfirmsWhatRan
  <2>7. ScriptOK'
    BY <1>a, <1>b, <2>1, <2>3, TagFacts DEF ScriptOK
  <2> QED BY <2>4, <2>5, <2>6, <2>7 DEF UpdateInv
<1>7. CASE Repoint(a)
  <2>1. pc[a] = "repoint" /\ rel[a] \in Tag /\ binary[rel[a]] = "whole"
    BY <1>7, <1>a DEF Repoint, At, ProcessOK
  <2>2. CASE Abort(a) /\ Event("disk") /\ UNCHANGED <<current, updated>>
    BY <1>7, <1>b, <2>1, <2>2, HolderKeeps DEF Repoint, Abort, Goto, script, Place
  <2>3. CASE ~(Abort(a) /\ Event("disk") /\ UNCHANGED <<current, updated>>)
    <3>1. /\ current' = rel[a] /\ updated' = TRUE /\ pc' = [pc EXCEPT ![a] = "restart"]
          /\ UNCHANGED <<rel, lock, payload, published, binary, previous, confirmed,
                         rolledBack, service, running, graceTimer, rollback, move, events,
                         served, passed, lost>>
      BY <1>7, <2>3 DEF Repoint, Goto, script
    <3>2. TypeOK'
      BY <1>a, <2>1, <3>1 DEF TypeOK
    <3>3. ProcessOK'
      BY <1>a, <2>1, <3>1 DEF ProcessOK, TypeOK
    <3>4. FilesOK' /\ ScriptOK'
      BY <1>a, <1>b, <2>1, <3>1 DEF FilesOK, ScriptOK, RollbackTargetHasRun, ConfirmsWhatRan
    <3> QED BY <3>2, <3>3, <3>4 DEF UpdateInv
  <2> QED BY <2>2, <2>3
<1>8. CASE RestartService(a)
  <2>1. CASE Event("refused") /\ Abort(a) /\ UNCHANGED <<service, running, graceTimer>>
    BY <1>8, <1>b, <2>1, HolderKeeps DEF RestartService, At, Abort, Goto, files, script,
       history, Place
  <2>2. CASE ~(Event("refused") /\ Abort(a) /\ UNCHANGED <<service, running, graceTimer>>)
    <3>1. /\ service' = "starting" /\ NoProcess
          /\ UNCHANGED <<published, binary, current, previous, confirmed, rolledBack,
                         rollback, move, events, served, passed, updated, lost>>
      BY <1>8, <2>2 DEF RestartService, files, script, history
    <3>2. TypeOK'
      BY <1>a, <3>1 DEF TypeOK, NoProcess
    <3>3. ProcessOK'
      BY <3>1 DEF ProcessOK, NoProcess
    <3>4. FilesOK' /\ ScriptOK'
      BY <1>a, <1>b, <3>1 DEF FilesOK, ScriptOK, RollbackTargetHasRun, ConfirmsWhatRan, NoProcess
    <3> QED BY <3>2, <3>3, <3>4 DEF UpdateInv
  <2> QED BY <2>1, <2>2
<1> QED BY <1>1, <1>2, <1>3, <1>4, <1>5, <1>6, <1>7, <1>8 DEF Apply

(***************************************************************************)
(* The unit, ConfirmAfterStart and the script.                             *)
(***************************************************************************)
LEMMA ConfirmKeeps == ASSUME UpdateInv, Confirm PROVE UpdateInv'
<1>a. TypeOK /\ ProcessOK /\ FilesOK /\ ScriptOK
  BY DEF UpdateInv
<1>b. /\ service = "up" /\ graceTimer' = FALSE
      /\ UNCHANGED <<published, binary, current, previous, rolledBack, service, running, lock,
                     pc, rel, payload, rollback, move, served, updated, lost>>
      /\ \/ confirmed' \in {confirmed, NoTag} /\ UNCHANGED passed
         \/ /\ running \notin Sick
            /\ confirmed' = running /\ passed' = passed \cup {running}
  BY DEF Confirm, script
<1>d. events' \in 0..MaxEvents
  BY <1>a, UpdateAssumption DEF Confirm, Event, TypeOK
<1>c. running \in served /\ running \in Tag
  BY <1>a, <1>b DEF ProcessOK, TypeOK
<1>1. TypeOK'
  BY <1>a, <1>b, <1>c, <1>d DEF TypeOK
<1>2. ProcessOK'
  BY <1>a, <1>b DEF ProcessOK
<1>3. FilesOK' /\ ScriptOK'
  BY <1>a, <1>b, <1>c DEF FilesOK, ScriptOK, RollbackTargetHasRun, ConfirmsWhatRan
<1> QED BY <1>1, <1>2, <1>3 DEF UpdateInv

LEMMA StartKeeps == ASSUME UpdateInv, Start PROVE UpdateInv'
<1>a. TypeOK /\ ProcessOK /\ FilesOK /\ ScriptOK
  BY DEF UpdateInv
<1>b. /\ service = "starting" /\ service' = "up" /\ binary[current] = "whole"
      /\ running' = current /\ graceTimer' \in BOOLEAN /\ served' = served \cup {current}
      /\ UNCHANGED <<published, binary, current, previous, confirmed, rolledBack, lock, pc, rel,
                     payload, rollback, move, events, passed, updated, lost>>
  BY DEF Start, Runnable, files, script
<1>1. TypeOK'
  BY <1>a, <1>b DEF TypeOK
<1>2. ProcessOK'
  BY <1>a, <1>b DEF ProcessOK
<1>3. FilesOK' /\ ScriptOK'
  BY <1>a, <1>b DEF FilesOK, ScriptOK, RollbackTargetHasRun, ConfirmsWhatRan
<1> QED BY <1>1, <1>2, <1>3 DEF UpdateInv

LEMMA StartLimitKeeps == ASSUME UpdateInv, StartLimitHit PROVE UpdateInv'
<1>a. TypeOK /\ ProcessOK /\ FilesOK /\ ScriptOK /\ MaxEvents \in Nat
  BY UpdateAssumption DEF UpdateInv
<1>b. /\ service = "starting" /\ service' = "failed" /\ rollback' = "decide"
      /\ UNCHANGED <<published, binary, current, previous, confirmed, rolledBack, running,
                     graceTimer, lock, pc, rel, payload, move, served, passed, updated, lost>>
      /\ events' \in 0..MaxEvents
  BY <1>a DEF StartLimitHit, files, process, history, Event, TypeOK
<1>1. TypeOK'
  BY <1>a, <1>b DEF TypeOK
<1>2. ProcessOK'
  BY <1>a, <1>b DEF ProcessOK
<1>3. FilesOK' /\ ScriptOK'
  BY <1>a, <1>b DEF FilesOK, ScriptOK, RollbackTargetHasRun, ConfirmsWhatRan
<1> QED BY <1>1, <1>2, <1>3 DEF UpdateInv

\* The process dies alone, or with the script when the power fails.
LEMMA DeathKeeps == ASSUME UpdateInv, Dies \/ PowerFails PROVE UpdateInv'
<1>a. TypeOK /\ ProcessOK /\ FilesOK /\ ScriptOK /\ MaxEvents \in Nat
  BY UpdateAssumption DEF UpdateInv
<1>b. /\ service' = "starting" /\ NoProcess
      /\ UNCHANGED <<published, binary, current, previous, confirmed, rolledBack, served,
                     passed, updated, lost>>
      /\ events' \in 0..MaxEvents
      /\ \/ rollback' = "idle" /\ move' = NoMove
         \/ service = "up" /\ UNCHANGED <<rollback, move>>
  BY <1>a DEF Dies, PowerFails, files, script, history, Event, TypeOK
<1>1. TypeOK'
  <2>1. NoMove \in Move
    BY DEF NoMove, Move
  <2> QED BY <1>a, <1>b, <2>1 DEF TypeOK, NoProcess
<1>2. ProcessOK'
  BY <1>b DEF ProcessOK, NoProcess
<1>3. FilesOK'
  BY <1>a, <1>b DEF FilesOK, RollbackTargetHasRun, ConfirmsWhatRan
<1>4. ScriptOK'
  BY <1>a, <1>b DEF ScriptOK, NoProcess
<1> QED BY <1>1, <1>2, <1>3, <1>4 DEF UpdateInv

LEMMA RollbackKeeps == ASSUME UpdateInv, Rollback PROVE UpdateInv'
<1>a. TypeOK /\ ProcessOK /\ FilesOK /\ ScriptOK /\ MaxEvents \in Nat
  BY UpdateAssumption DEF UpdateInv
<1>b. /\ rollback # "idle" /\ service = "failed" /\ running = NoTag
      /\ UNCHANGED <<published, running, graceTimer, lock, pc, rel, payload, binary, previous,
                     confirmed, served, passed, lost>>
  BY <1>a DEF Rollback, RollbackDecides, RollbackRepoints, RollbackRecords, RollbackRestarts,
     scriptElse, process, history, ScriptOK, ProcessOK
<1>c. NoMove \in Move /\ \A e : Event(e) => events' \in 0..MaxEvents
  BY <1>a DEF NoMove, Move, Event, TypeOK
<1>1. CASE RollbackDecides
  <2>1. /\ UNCHANGED <<current, rolledBack, service, events, updated>>
        /\ \/ rollback' = "idle" /\ move' = move
           \/ /\ rollback' = "repoint" /\ move' = <<current, previous>>
              /\ previous # NoTag /\ current # previous
    BY <1>1 DEF RollbackDecides, MayRollBack, history
  <2>2. <<current, previous>> \in Move
    BY <1>a DEF TypeOK, Move
  <2>3. TypeOK'
    BY <1>a, <1>b, <2>1, <2>2 DEF TypeOK
  <2>4. ProcessOK' /\ FilesOK'
    BY <1>a, <1>b, <2>1 DEF ProcessOK, FilesOK, RollbackTargetHasRun, ConfirmsWhatRan
  <2>5. ScriptOK'
    BY <1>a, <1>b, <2>1 DEF ScriptOK, TypeOK
  <2> QED BY <2>3, <2>4, <2>5 DEF UpdateInv
<1>2. CASE RollbackRepoints
  <2>1. CASE Event("disk") /\ ScriptEnds /\ UNCHANGED <<current, updated>>
    <3>1. /\ rollback' = "idle" /\ move' = NoMove /\ events' \in 0..MaxEvents
          /\ UNCHANGED <<current, updated, rolledBack, service>>
      BY <1>2, <1>c, <2>1 DEF RollbackRepoints, ScriptEnds
    <3>2. TypeOK'
      BY <1>a, <1>b, <1>c, <3>1 DEF TypeOK
    <3>3. ProcessOK' /\ FilesOK' /\ ScriptOK'
      BY <1>a, <1>b, <3>1 DEF ProcessOK, FilesOK, ScriptOK, RollbackTargetHasRun, ConfirmsWhatRan
    <3> QED BY <3>2, <3>3 DEF UpdateInv
  <2>2. CASE ~(Event("disk") /\ ScriptEnds /\ UNCHANGED <<current, updated>>)
    <3>1. /\ rollback = "repoint" /\ current' = move[2] /\ rollback' = "record"
          /\ updated' = FALSE /\ UNCHANGED <<move, rolledBack, service, events>>
      BY <1>2, <2>2 DEF RollbackRepoints
    <3>2. current' = previous /\ previous \in Tag /\ previous \in served
      BY <1>a, <3>1, TagFacts DEF ScriptOK, FilesOK, RollbackTargetHasRun
    <3>3. TypeOK'
      BY <1>a, <1>b, <3>1, <3>2 DEF TypeOK
    <3>4. ProcessOK' /\ FilesOK'
      BY <1>a, <1>b, <3>1, <3>2 DEF ProcessOK, FilesOK, RollbackTargetHasRun, ConfirmsWhatRan
    <3>5. ScriptOK'
      BY <1>a, <1>b, <3>1, <3>2 DEF ScriptOK
    <3> QED BY <3>3, <3>4, <3>5 DEF UpdateInv
  <2> QED BY <2>1, <2>2
<1>3. CASE RollbackRecords
  <2>1. /\ rolledBack' \in Move /\ rollback' \in {"restart", "idle"} /\ move' \in Move
        /\ events' \in 0..MaxEvents
        /\ UNCHANGED <<current, service, updated>>
    BY <1>3, <1>a, <1>c DEF RollbackRecords, ScriptEnds, history, TypeOK
  <2>2. TypeOK'
    BY <1>a, <1>b, <2>1 DEF TypeOK
  <2>3. ProcessOK' /\ FilesOK' /\ ScriptOK'
    BY <1>a, <1>b, <2>1 DEF ProcessOK, FilesOK, ScriptOK, RollbackTargetHasRun, ConfirmsWhatRan
  <2> QED BY <2>2, <2>3 DEF UpdateInv
<1>4. CASE RollbackRestarts
  <2>1. /\ service' \in {"starting", service} /\ rollback' = "idle" /\ move' = NoMove
        /\ UNCHANGED <<current, rolledBack, updated>>
        /\ events' \in 0..MaxEvents
    BY <1>4, <1>a DEF RollbackRestarts, ScriptEnds, history, Event, TypeOK
  <2>2. NoMove \in Move
    BY DEF NoMove, Move
  <2>3. TypeOK'
    BY <1>a, <1>b, <2>1, <2>2 DEF TypeOK
  <2>4. ProcessOK' /\ FilesOK' /\ ScriptOK'
    BY <1>a, <1>b, <2>1 DEF ProcessOK, FilesOK, ScriptOK, RollbackTargetHasRun, ConfirmsWhatRan
  <2> QED BY <2>3, <2>4 DEF UpdateInv
<1> QED BY <1>1, <1>2, <1>3, <1>4 DEF Rollback

LEMMA PublisherKeeps == ASSUME UpdateInv, Publish \/ Withdraw PROVE UpdateInv'
<1>a. TypeOK /\ ProcessOK /\ FilesOK /\ ScriptOK
  BY DEF UpdateInv
<1>b. /\ published' \subseteq Tag
      /\ UNCHANGED <<binary, current, previous, confirmed, rolledBack, service, running,
                     graceTimer, lock, pc, rel, payload, rollback, move, events, served, passed,
                     updated, lost>>
  BY <1>a DEF Publish, Withdraw, files, process, script, history, TypeOK
<1>1. TypeOK'
  BY <1>a, <1>b DEF TypeOK
<1>2. ProcessOK' /\ FilesOK' /\ ScriptOK'
  BY <1>a, <1>b DEF ProcessOK, FilesOK, ScriptOK, RollbackTargetHasRun, ConfirmsWhatRan
<1> QED BY <1>1, <1>2 DEF UpdateInv

LEMMA UpdateStep == UpdateInv /\ [Next]_vars => UpdateInv'
<1> SUFFICES ASSUME UpdateInv, [Next]_vars PROVE UpdateInv'
  OBVIOUS
<1>1. CASE \E a \in Applier : Check(a) \/ Apply(a)
  BY <1>1, CheckKeeps, ApplyKeeps
<1>2. CASE Confirm \/ Start \/ StartLimitHit \/ Dies \/ PowerFails
  BY <1>2, ConfirmKeeps, StartKeeps, StartLimitKeeps, DeathKeeps
<1>3. CASE Rollback \/ Publish \/ Withdraw
  BY <1>3, RollbackKeeps, PublisherKeeps
<1>4. CASE UNCHANGED vars
  BY <1>4 DEF vars, files, process, script, history, UpdateInv, TypeOK, ProcessOK, FilesOK,
     ScriptOK, RollbackTargetHasRun, ConfirmsWhatRan
<1> QED BY <1>1, <1>2, <1>3, <1>4 DEF Next

LEMMA UpdateHolds == Spec => []UpdateInv
<1> QED BY UpdateInit, UpdateStep, PTL DEF Spec

(***************************************************************************)
(* Every variable has its type.                                            *)
(***************************************************************************)
THEOREM UpdateTypeCorrect == Spec => []TypeOK
<1>1. UpdateInv => TypeOK
  BY DEF UpdateInv
<1> QED BY UpdateHolds, <1>1, PTL

(***************************************************************************)
(* Whenever the process dies or the power fails, the symlink and the       *)
(* rollback target point at complete, verified binaries.                   *)
(***************************************************************************)
THEOREM RunnableCorrect == Spec => []CurrentRunnable
<1>1. UpdateInv => CurrentRunnable
  BY DEF UpdateInv, FilesOK, RollbackTargetHasRun, CurrentRunnable
<1> QED BY UpdateHolds, <1>1, PTL

(***************************************************************************)
(* The release that the script would go back to has run on this device.    *)
(***************************************************************************)
THEOREM TargetCorrect == Spec => []RollbackTargetHasRun
<1>1. UpdateInv => RollbackTargetHasRun
  BY DEF UpdateInv, FilesOK
<1> QED BY UpdateHolds, <1>1, PTL

(***************************************************************************)
(* Only a release that came up here and is healthy is ever confirmed.      *)
(***************************************************************************)
THEOREM ConfirmCorrect == Spec => []ConfirmsWhatRan
<1>1. UpdateInv => ConfirmsWhatRan
  BY DEF UpdateInv, FilesOK
<1> QED BY UpdateHolds, <1>1, PTL

(***************************************************************************)
(* The script never goes back twice without an update in between: after a  *)
(* rollback, PREVIOUS is what current points to.                           *)
(***************************************************************************)
THEOREM RollbackCorrect == Spec => RollbackOncePerUpdate
<1>1. UpdateInv => [RollbackRepoints => updated]_vars
  BY DEF UpdateInv, ScriptOK, RollbackRepoints
<1> QED BY UpdateHolds, <1>1, PTL DEF RollbackOncePerUpdate


(***************************************************************************)
(* Never behind a confirmed release.  The release that runs, the one that  *)
(* is current and the one that the script would go to are none of them     *)
(* behind a confirmed one.  It takes knowing that an update goes forward   *)
(* from what runs, and that current has left what runs only by an update   *)
(* that noted it in PREVIOUS; and that CONFIRMED, which a failed write can *)
(* empty, did not name what runs while the grace period lasts.             *)
(***************************************************************************)
NotBehind(x) == \A t \in passed : ~Newer(t, x)

GoesForward ==
    /\ \A a \in Applier : pc[a] # "idle" => Newer(rel[a], running)
    /\ service = "up" => current = running \/ Newer(current, running)
    /\ rollback = "repoint" => current # confirmed
    /\ service = "up" /\ graceTimer => running # confirmed

NoneBehind ==
    /\ NotBehind(current)
    /\ service = "up" => NotBehind(running)
    /\ current # confirmed /\ previous # NoTag => NotBehind(previous)
    /\ service = "up" /\ current # running => previous = running
    /\ \A a \in Applier : pc[a] \in {"repoint", "restart"} => previous = running

ForwardInv == GoesForward /\ (~lost => NoneBehind)

LEMMA Numbers == \A t \in Tag : t[1] \in Nat
BY UpdateAssumption

LEMMA ForwardInit == Init => ForwardInv
<1> SUFFICES ASSUME Init PROVE ForwardInv
  OBVIOUS
<1>1. Installed[1] \in Nat
  BY Numbers, TagFacts
<1>2. passed = {Installed} /\ current = Installed
  BY DEF Init
<1>3. NotBehind(current)
  BY <1>1, <1>2 DEF NotBehind, Newer
<1> QED BY <1>3 DEF Init, ForwardInv, GoesForward, NoneBehind

\* A step of Apply up to the noting of PREVIOUS.
LEMMA EarlyForward ==
    ASSUME UpdateInv, ForwardInv, NEW a \in Applier, pc[a] # "idle", service = "up",
           NEW place \in Place, place \in {"repoint", "restart"} => pc[a] \in {"repoint", "restart"},
           pc' = [pc EXCEPT ![a] = place],
           \/ rel' = rel
           \/ rel' = [rel EXCEPT ![a] = NoTag] /\ place = "idle",
           UNCHANGED <<current, previous, confirmed, service, running, graceTimer, rollback,
                       passed, lost>>
    PROVE  ForwardInv'
<1>a. /\ pc \in [Applier -> Place] /\ rel \in [Applier -> Tag \cup {NoTag}]
      /\ GoesForward /\ (~lost => NoneBehind)
  BY DEF UpdateInv, TypeOK, Place, ForwardInv
<1>b. \A b \in Applier \ {a} : pc'[b] = pc[b] /\ rel'[b] = rel[b]
  BY <1>a
<1>c. pc'[a] = place /\ (place # "idle" => rel'[a] = rel[a])
  BY <1>a
<1>1. GoesForward'
  BY <1>a, <1>b, <1>c DEF GoesForward, Newer
<1>2. ~lost => NoneBehind'
  BY <1>a, <1>b, <1>c DEF NoneBehind, NotBehind, Newer
<1> QED BY <1>1, <1>2 DEF ForwardInv

LEMMA CheckForward == ASSUME UpdateInv, ForwardInv, NEW a \in Applier, Check(a) PROVE ForwardInv'
<1>a. /\ pc \in [Applier -> Place] /\ rel \in [Applier -> Tag \cup {NoTag}]
      /\ GoesForward /\ (~lost => NoneBehind)
  BY DEF UpdateInv, TypeOK, Place, ForwardInv
<1>b. PICK t \in Tag : rel' = [rel EXCEPT ![a] = t] /\ Newer(t, running)
  BY DEF Check, Newest, UpdateInv, TypeOK
<1>c. /\ pc' = [pc EXCEPT ![a] = "found"]
      /\ UNCHANGED <<current, previous, confirmed, service, running, graceTimer, rollback, passed,
                     lost>>
  BY DEF Check, files, script, history
<1>d. \A b \in Applier :
         /\ b # a => pc'[b] = pc[b] /\ rel'[b] = rel[b]
         /\ b = a => pc'[b] = "found" /\ rel'[b] = t
  BY <1>a, <1>b, <1>c
<1>1. GoesForward'
  BY <1>a, <1>b, <1>c, <1>d DEF GoesForward, Newer
<1>2. ~lost => NoneBehind'
  BY <1>a, <1>c, <1>d DEF NoneBehind, NotBehind, Newer
<1> QED BY <1>1, <1>2, <1>c DEF ForwardInv

LEMMA ApplyForward == ASSUME UpdateInv, ForwardInv, NEW a \in Applier, Apply(a) PROVE ForwardInv'
<1>a. /\ TypeOK /\ ProcessOK /\ pc \in [Applier -> Place] /\ rel \in [Applier -> Tag \cup {NoTag}]
      /\ GoesForward /\ (~lost => NoneBehind)
  BY DEF UpdateInv, TypeOK, Place, ForwardInv
<1>b. service = "up" /\ pc[a] \in Place /\ pc[a] # "idle" /\ running \in Tag
  BY <1>a DEF Apply, TryLock, Download, Verify, Backup, Install, RecordPrevious, Repoint,
     RestartService, At, TypeOK, Place, UpdateInv, ProcessOK
<1>1. CASE TryLock(a) \/ Download(a) \/ Verify(a) \/ Backup(a) \/ Install(a)
  <2>1. UNCHANGED <<current, previous, confirmed, service, running, graceTimer, rollback, passed,
                     lost>>
    BY <1>1 DEF TryLock, Download, Verify, Backup, Install, applyElse, files, script, history
  <2>2. PICK place \in Place \ {"repoint", "restart"} :
           /\ pc' = [pc EXCEPT ![a] = place]
           /\ \/ rel' = rel
              \/ rel' = [rel EXCEPT ![a] = NoTag] /\ place = "idle"
    <3>1. CASE TryLock(a)
      BY <3>1 DEF TryLock, Goto, Place
    <3>2. CASE Download(a)
      BY <3>2 DEF Download, Abort, Goto, Place
    <3>3. CASE Verify(a)
      BY <3>3 DEF Verify, Abort, Goto, Place
    <3>4. CASE Backup(a)
      BY <3>4 DEF Backup, Abort, Goto, Place
    <3>5. CASE Install(a)
      BY <3>5 DEF Install, Abort, Goto, Place
    <3> QED BY <1>1, <3>1, <3>2, <3>3, <3>4, <3>5
  <2> QED BY <1>b, <2>1, <2>2, EarlyForward
<1>2. CASE RecordPrevious(a)
  <2>1. /\ pc' = [pc EXCEPT ![a] = "repoint"]
        /\ (previous' = running /\ lost' = lost) \/ lost' = TRUE
        /\ UNCHANGED <<rel, current, confirmed, service, running, graceTimer, rollback, passed>>
    BY <1>2 DEF RecordPrevious, Goto, recordElse, script
  <2>2. \A b \in Applier : pc'[b] # "idle" => pc[b] # "idle"
    BY <1>a, <1>b, <2>1
  <2>3. GoesForward'
    BY <1>a, <2>1, <2>2 DEF GoesForward, Newer
  <2>4. ~lost' => NoneBehind'
    BY <1>a, <1>b, <2>1 DEF NoneBehind, NotBehind, Newer
  <2> QED BY <2>3, <2>4 DEF ForwardInv
<1>3. CASE Repoint(a)
  <2>1. pc[a] = "repoint" /\ rel[a] \in Tag /\ Newer(rel[a], running)
    BY <1>3, <1>a DEF Repoint, At, ProcessOK, GoesForward
  <2>2. CASE Abort(a) /\ Event("disk") /\ UNCHANGED <<current, updated>>
    BY <1>3, <1>b, <2>1, <2>2, EarlyForward DEF Repoint, Abort, Goto, script, Place
  <2>3. CASE ~(Abort(a) /\ Event("disk") /\ UNCHANGED <<current, updated>>)
    <3>1. /\ current' = rel[a] /\ pc' = [pc EXCEPT ![a] = "restart"]
          /\ UNCHANGED <<rel, previous, confirmed, service, running, graceTimer, rollback, passed,
                         lost>>
      BY <1>3, <2>3 DEF Repoint, Goto, script
    <3>2. \A b \in Applier : /\ pc'[b] # "idle" => pc[b] # "idle"
                            /\ pc'[b] \in {"repoint", "restart"} => pc[b] \in {"repoint", "restart"}
      BY <1>a, <2>1, <3>1
    <3>3. rollback = "idle"
      BY <1>b DEF UpdateInv, ScriptOK
    <3>4. GoesForward'
      BY <1>a, <2>1, <3>1, <3>2, <3>3 DEF GoesForward, Newer
    <3>5. ASSUME ~lost PROVE NoneBehind'
      <4>1. NoneBehind /\ previous = running /\ NotBehind(running)
        BY <1>a, <1>b, <2>1, <3>5 DEF NoneBehind
      <4>2. ASSUME NEW t \in passed PROVE ~Newer(t, rel[a])
        <5>1. t \in Tag /\ ~Newer(t, running)
          BY <1>a, <4>1, <4>2 DEF TypeOK, NotBehind
        <5> QED BY <5>1, <1>b, <2>1, Numbers DEF Newer
      <4> QED BY <4>1, <4>2, <3>1, <3>2 DEF NoneBehind, NotBehind, Newer
    <3> QED BY <3>1, <3>4, <3>5 DEF ForwardInv
  <2> QED BY <2>2, <2>3
<1>4. CASE RestartService(a)
  <2>1. CASE Event("refused") /\ Abort(a) /\ UNCHANGED <<service, running, graceTimer>>
    BY <1>4, <1>b, <2>1, EarlyForward DEF RestartService, At, Abort, Goto, files, script,
       history, Place
  <2>2. CASE ~(Event("refused") /\ Abort(a) /\ UNCHANGED <<service, running, graceTimer>>)
    <3>1. /\ service' = "starting" /\ NoProcess
          /\ UNCHANGED <<current, previous, confirmed, rollback, passed, lost>>
      BY <1>4, <2>2 DEF RestartService, files, script, history
    <3> QED BY <1>a, <3>1 DEF ForwardInv, GoesForward, NoneBehind, NoProcess, NotBehind, Newer
  <2> QED BY <2>1, <2>2
<1> QED BY <1>1, <1>2, <1>3, <1>4 DEF Apply

LEMMA ConfirmForward == ASSUME UpdateInv, ForwardInv, Confirm PROVE ForwardInv'
<1>a. /\ TypeOK /\ ProcessOK /\ ScriptOK /\ GoesForward /\ (~lost => NoneBehind)
  BY DEF UpdateInv, ForwardInv
<1>b. /\ service = "up" /\ graceTimer /\ graceTimer' = FALSE
      /\ UNCHANGED <<current, previous, service, running, pc, rel, rollback, lost>>
      /\ \/ UNCHANGED passed
         \/ confirmed' = running /\ passed' = passed \cup {running}
  BY DEF Confirm, script
<1>c. running \in Tag /\ current \in Tag /\ rollback = "idle" /\ running # confirmed
  BY <1>a, <1>b DEF TypeOK, ProcessOK, ScriptOK, GoesForward
<1>1. GoesForward'
  BY <1>a, <1>b, <1>c DEF GoesForward, Newer
<1>2. ASSUME ~lost PROVE NoneBehind'
  <2>0. previous # NoTag => NotBehind(previous)
    BY <1>a, <1>b, <1>c, <1>2 DEF NoneBehind
  <2>1. CASE UNCHANGED passed
    BY <1>a, <1>b, <1>2, <2>0, <2>1 DEF NoneBehind, NotBehind, Newer
  <2>2. CASE confirmed' = running /\ passed' = passed \cup {running}
    <3>1. ~Newer(running, running) /\ ~Newer(running, current)
      BY <1>a, <1>b, <1>c, Numbers DEF GoesForward, Newer
    <3>2. NotBehind(running)' /\ NotBehind(current)'
      BY <1>a, <1>b, <1>2, <2>2, <3>1 DEF NoneBehind, NotBehind, Newer
    <3> QED BY <1>a, <1>b, <1>2, <2>2, <3>2 DEF NoneBehind, NotBehind, Newer
  <2> QED BY <1>b, <2>1, <2>2
<1> QED BY <1>1, <1>2, <1>b DEF ForwardInv

LEMMA UnitForward ==
    ASSUME UpdateInv, ForwardInv, Start \/ StartLimitHit \/ Dies \/ PowerFails
    PROVE  ForwardInv'
<1>a. /\ TypeOK /\ ProcessOK /\ ScriptOK /\ GoesForward /\ (~lost => NoneBehind)
  BY DEF UpdateInv, ForwardInv
<1>1. CASE Start
  <2>1. /\ service = "starting" /\ service' = "up" /\ running' = current
        /\ graceTimer' = (confirmed # current)
        /\ UNCHANGED <<current, previous, confirmed, pc, rel, rollback, passed, lost>>
    BY <1>1 DEF Start, files, script
  <2>2. \A a \in Applier : pc[a] = "idle"
    BY <1>a, <2>1 DEF ProcessOK
  <2> QED BY <1>a, <2>1, <2>2 DEF ForwardInv, GoesForward, NoneBehind, NotBehind, Newer
<1>2. CASE StartLimitHit
  <2>1. /\ service = "starting" /\ service' = "failed" /\ rollback' = "decide"
        /\ UNCHANGED <<current, previous, confirmed, running, pc, rel, passed, lost>>
    BY <1>2 DEF StartLimitHit, files, process, history
  <2> QED BY <1>a, <2>1 DEF ForwardInv, GoesForward, NoneBehind, NotBehind, Newer
<1>3. CASE Dies \/ PowerFails
  <2>1. /\ service' = "starting" /\ NoProcess
        /\ UNCHANGED <<current, previous, confirmed, passed, lost>>
        /\ rollback' \in {"idle", rollback}
    BY <1>3 DEF Dies, PowerFails, files, script, history
  <2> QED BY <1>a, <2>1 DEF ForwardInv, GoesForward, NoneBehind, NotBehind, NoProcess, Newer
<1> QED BY <1>1, <1>2, <1>3

LEMMA RollbackForward == ASSUME UpdateInv, ForwardInv, Rollback PROVE ForwardInv'
<1>a. /\ TypeOK /\ ProcessOK /\ ScriptOK /\ GoesForward /\ (~lost => NoneBehind)
  BY DEF UpdateInv, ForwardInv
<1>b. /\ service = "failed" /\ (\A a \in Applier : pc[a] = "idle")
      /\ UNCHANGED <<running, pc, rel, previous, confirmed, passed, lost>>
      /\ service' \in {"failed", "starting"}
  BY <1>a DEF Rollback, RollbackDecides, RollbackRepoints, RollbackRecords, RollbackRestarts,
     scriptElse, process, history, ScriptOK, ProcessOK
<1>1. CASE RollbackDecides
  <2>1. current' = current /\ (rollback' = "repoint" => current # confirmed)
    BY <1>1 DEF RollbackDecides, MayRollBack
  <2> QED BY <1>a, <1>b, <2>1 DEF ForwardInv, GoesForward, NoneBehind, NotBehind, Newer
<1>2. CASE RollbackRepoints
  <2>1. \/ current' = current /\ rollback' = "idle"
        \/ /\ current' = previous /\ rollback' = "record"
           /\ previous # NoTag /\ current # confirmed
    <3>1. move[2] = previous /\ previous # NoTag /\ current # confirmed
      BY <1>2, <1>a, TagFacts DEF RollbackRepoints, ScriptOK, GoesForward
    <3> QED BY <1>2, <3>1 DEF RollbackRepoints, ScriptEnds
  <2>2. CASE current' = current /\ rollback' = "idle"
    BY <1>a, <1>b, <2>2 DEF ForwardInv, GoesForward, NoneBehind, NotBehind, Newer
  <2>3. CASE /\ current' = previous /\ rollback' = "record"
             /\ previous # NoTag /\ current # confirmed
    BY <1>a, <1>b, <2>3 DEF ForwardInv, GoesForward, NoneBehind, NotBehind, Newer
  <2> QED BY <2>1, <2>2, <2>3
<1>3. CASE RollbackRecords \/ RollbackRestarts
  <2>1. current' = current /\ rollback' \in {"restart", "idle"}
    BY <1>3 DEF RollbackRecords, RollbackRestarts, ScriptEnds
  <2> QED BY <1>a, <1>b, <2>1 DEF ForwardInv, GoesForward, NoneBehind, NotBehind, Newer
<1> QED BY <1>1, <1>2, <1>3 DEF Rollback

LEMMA ForwardStep == UpdateInv /\ ForwardInv /\ [Next]_vars => ForwardInv'
<1> SUFFICES ASSUME UpdateInv, ForwardInv, [Next]_vars PROVE ForwardInv'
  OBVIOUS
<1>1. CASE \E a \in Applier : Check(a) \/ Apply(a)
  BY <1>1, CheckForward, ApplyForward
<1>2. CASE Confirm \/ Start \/ StartLimitHit \/ Dies \/ PowerFails \/ Rollback
  BY <1>2, ConfirmForward, UnitForward, RollbackForward
<1>3. CASE Publish \/ Withdraw \/ UNCHANGED vars
  <2>1. UNCHANGED <<current, previous, confirmed, service, running, graceTimer, pc, rel,
                    rollback, passed, lost>>
    BY <1>3 DEF Publish, Withdraw, vars, files, process, script, history
  <2> QED BY <2>1 DEF ForwardInv, GoesForward, NoneBehind, NotBehind, Newer
<1> QED BY <1>1, <1>2, <1>3 DEF Next

(***************************************************************************)
(* No sequence of updates, failures and rollbacks runs a release that is   *)
(* behind a confirmed one, unless a write of PREVIOUS was lost.            *)
(***************************************************************************)
THEOREM NeverBehindCorrect == Spec => []NeverBehindConfirmed
<1>1. UpdateInv /\ ForwardInv => NeverBehindConfirmed
  BY DEF UpdateInv, ProcessOK, TypeOK, ForwardInv, NoneBehind, NotBehind, NeverBehindConfirmed
<1> QED BY UpdateHolds, ForwardInit, ForwardStep, <1>1, PTL DEF Spec

=============================================================================
