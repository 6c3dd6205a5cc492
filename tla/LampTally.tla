------------------------------ MODULE LampTally ------------------------------
(***************************************************************************)
(* The counter of the lamp writes of a day, internal/tally, with the two   *)
(* goroutines that save it: Run's, on a timer and at the end, and main's,  *)
(* which saves once more when it returns (main.go:207-209).                *)
(*                                                                         *)
(* The counter has a mutex and the file has none: a save takes its         *)
(* snapshot under the mutex, and writes and renames the one temporary file *)
(* beside whatever else goes on.  The local date is what the clock says,   *)
(* which midnight and a correction of the clock change.  The two numbers   *)
(* of a date, the engine's writes and those of requests, are counted       *)
(* alike: one stands for both.                                             *)
(***************************************************************************)
EXTENDS Naturals

CONSTANTS
    LocalDate, \* dates the clock shows
    MaxWrites  \* bound: writes counted on a date

ASSUME TallyAssumption == LocalDate # {} /\ MaxWrites \in Nat /\ "none" \notin LocalDate

VARIABLES
    today,     \* the local date
    counted,   \* Counter.s
    dirty,     \* Counter.dirty
    writes,    \* writes.json
    tmp,       \* writes.json.tmp
    saver,     \* Save, of each goroutine: how far it is, and its snapshot
    stopping,  \* the context is cancelled
    failed     \* history: what the last save of this process could not write

tallyVars == <<today, counted, dirty, writes, tmp, saver, stopping, failed>>
vars_files == <<writes, tmp, saver, failed>>

Saver == {"run", "main"}
Count == 0..MaxWrites
Tally == [date : LocalDate, n : Count]
NoTally == [date |-> "none"]
NewDay(d) == [date |-> d, n |-> 0]
NotSaving == [at |-> "idle", snap |-> NoTally]
File == Tally \cup {NoTally}

\* roll: what is counted is counted for this date.
Rolled(s) == IF s.date = today THEN s ELSE NewDay(today)

TallyUses(s) ==
    /\ counted' = s
    /\ UNCHANGED <<today, vars_files, stopping>>

\* AddAuto after a write of the engine, AddManual after one of a request.
Add ==
    /\ Rolled(counted).n < MaxWrites
    /\ TallyUses([Rolled(counted) EXCEPT !.n = @ + 1])
    /\ dirty' = TRUE

\* Today, for the status page.
ShowToday ==
    /\ TallyUses(Rolled(counted))
    /\ dirty' = (dirty \/ counted.date # today)

DateChanges ==
    /\ today' \in LocalDate
    /\ UNCHANGED <<counted, dirty, vars_files, stopping>>

\* Save, up to the unlock: by Run when its ticker fires and when the context is
\* cancelled, by main when it returns.  How often is left open.
SaveBegins(g) ==
    /\ dirty /\ saver[g].at = "idle"
    /\ g = "main" => stopping
    /\ saver' = [saver EXCEPT ![g] = [at |-> "write", snap |-> counted]]
    /\ dirty' = FALSE
    /\ failed' = NoTally
    /\ UNCHANGED <<today, counted, writes, tmp, stopping>>

\* dirty stays as it is, after an error too: what could not be written is tried again
\* when something else is counted.
SaveEnds(g, lost) ==
    /\ saver' = [saver EXCEPT ![g] = NotSaving]
    /\ failed' = lost

\* WriteFile of the temporary file, in the directory that MkdirAll leaves.
SaveWrites(g) ==
    /\ saver[g].at = "write"
    /\ \/ /\ tmp' = saver[g].snap
          /\ saver' = [saver EXCEPT ![g] = [NotSaving EXCEPT !.at = "rename"]]
          /\ UNCHANGED failed
       \/ UNCHANGED tmp /\ SaveEnds(g, saver[g].snap)
    /\ UNCHANGED <<today, counted, dirty, writes, stopping>>

\* Mutant: the flag is cleared when the file is there.
SaveRenamesClears(g) ==
    /\ saver[g].at = "rename"
    /\ writes' = tmp /\ tmp' = NoTally /\ SaveEnds(g, NoTally)
    /\ dirty' = FALSE
    /\ UNCHANGED <<today, counted, stopping>>

\* Rename, which also fails when the other goroutine has renamed the file.
SaveRenames(g) ==
    /\ saver[g].at = "rename"
    /\ \/ tmp # NoTally /\ writes' = tmp /\ tmp' = NoTally /\ SaveEnds(g, NoTally)
       \/ UNCHANGED <<writes, tmp>> /\ SaveEnds(g, tmp)
    /\ UNCHANGED <<today, counted, dirty, stopping>>

TallyStops ==
    /\ stopping' = TRUE
    /\ UNCHANGED <<today, counted, dirty, vars_files>>

\* Load, in a new process; the old one may have ended anywhere.
TallyRestart ==
    /\ counted' = Rolled(writes)
    /\ dirty' = (writes.date # today)
    /\ saver' = [g \in Saver |-> NotSaving]
    /\ stopping' = FALSE /\ failed' = NoTally
    /\ UNCHANGED <<today, writes, tmp>>

TallyInit ==
    /\ today \in LocalDate
    /\ writes = NoTally /\ tmp = NoTally
    /\ counted = NewDay(today) /\ dirty = TRUE
    /\ saver = [g \in Saver |-> NotSaving]
    /\ stopping = FALSE /\ failed = NoTally

TallyNext ==
    \/ Add \/ ShowToday \/ DateChanges \/ TallyStops \/ TallyRestart
    \/ \E g \in Saver : SaveBegins(g) \/ SaveWrites(g) \/ SaveRenames(g)

TallySpec == TallyInit /\ [][TallyNext]_tallyVars

(***************************************************************************)
(* Properties.                                                             *)
(***************************************************************************)
TallyTypeOK ==
    /\ today \in LocalDate
    /\ counted \in Tally /\ dirty \in BOOLEAN
    /\ writes \in File /\ tmp \in File
    /\ saver \in [Saver -> [at : {"idle", "write", "rename"}, snap : File]]
    /\ stopping \in BOOLEAN /\ failed \in File

\* No write counted during a save is forgotten: as long as the daemon serves and no save
\* is under way or to come, what is in memory is in the file (the counter "survives a
\* restart or OTA update", tally.go:2), or it is just what the last save failed to
\* write.  Then nobody saves it again before the next write is counted or the date
\* changes: a process that ends first loses it.  When the daemon stops, two goroutines
\* save at once, and neither waits for the other.
TallyReachesFile ==
    ~stopping /\ ~dirty /\ saver["run"].at = "idle" => counted \in {writes, failed}
=============================================================================
