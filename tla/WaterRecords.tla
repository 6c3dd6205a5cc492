---------------------------- MODULE WaterRecords ----------------------------
(***************************************************************************)
(* The water records and the built-in records that a start of the daemon   *)
(* puts into a new database, internal/storage/water.go.  The database, a   *)
(* SQLite file, is external: a transaction is seen whole or not at all, a  *)
(* new row's number is one more than the table ever had.                   *)
(*                                                                         *)
(* Of a record the model keeps its number, its origin and how often it was *)
(* edited.  The measurements, the dashboard and the times are left out.    *)
(***************************************************************************)
EXTENDS Integers, FiniteSets

CONSTANTS
    Builtin,    \* the built-in records, by their source_ref
    MaxRecords, \* bound: numbers given
    MaxEdits    \* bound: edits of a record

ASSUME RecordsAssumption ==
    /\ IsFiniteSet(Builtin) /\ "none" \notin Builtin
    /\ MaxRecords \in Nat /\ MaxEdits \in Nat

VARIABLES
    rows,    \* water_records
    highest, \* sqlite_sequence: the highest number ever given
    seeded,  \* the marker water.builtin_seed_v1
    seeding, \* SeedWaterRecords and its transaction
    gone     \* history: the built-in records that were deleted and not posted again

recordsVars == <<rows, highest, seeded, seeding, gone>>

Row(id, ref) == [id |-> id, ref |-> ref, edits |-> 0]
RefsIn(R) == {r.ref : r \in R} \ {"none"}

\* The daemon is down, starting, or serves; left are the records to insert yet.
Down == [at |-> "down", rows |-> {}, highest |-> 0, left |-> {}]
Serving == [Down EXCEPT !.at = "serving"]

\* The transaction begins and finds the marker.
SeedDone ==
    /\ seeding.at = "down"
    /\ seeded
    /\ seeding' = Serving
    /\ UNCHANGED <<rows, highest, seeded, gone>>

UsedNow == rows # {}   \* mutant: an emptied table counts as a new one

\* The table has rows, or had some.
Used == rows # {} \/ highest > 0

SeedBegins ==
    /\ seeding.at = "down"
    /\ ~seeded
    /\ seeding' = [at |-> "inserting", rows |-> rows, highest |-> highest,
                   left |-> IF Used THEN {} ELSE Builtin]
    /\ UNCHANGED <<rows, highest, seeded, gone>>

SeedInserts ==
    /\ seeding.at = "inserting"
    /\ \E ref \in seeding.left :
          seeding' = [seeding EXCEPT !.left = @ \ {ref}, !.highest = @ + 1,
                                     !.rows = @ \cup {Row(seeding.highest + 1, ref)}]
    /\ UNCHANGED <<rows, highest, seeded, gone>>

\* The marker is written and all is committed.
SeedCommits ==
    /\ seeding.at = "inserting" /\ seeding.left = {}
    /\ rows' = seeding.rows /\ highest' = seeding.highest
    /\ seeded' = TRUE
    /\ seeding' = Serving
    /\ UNCHANGED gone

\* A failure of any statement, which ends the daemon, a crash or a stop: what is not
\* committed is rolled back.
RecordsStop ==
    /\ seeding.at # "down"
    /\ seeding' = Down
    /\ UNCHANGED <<rows, highest, seeded, gone>>

\* POST: the page sends no source_ref, but a client may, that of a built-in record too
\* as long as no row has it (UNIQUE(source,source_ref)).  Its other origins are none.
InsertRecord ==
    /\ seeding.at = "serving"
    /\ highest < MaxRecords
    /\ highest' = highest + 1
    /\ \E ref \in (Builtin \ RefsIn(rows)) \cup {"none"} :
          rows' = rows \cup {Row(highest + 1, ref)} /\ gone' = gone \ {ref}
    /\ UNCHANGED <<seeded, seeding>>

\* PUT: the measurements change, the origin does not.
UpdateRecord ==
    /\ seeding.at = "serving"
    /\ \E r \in rows :
          /\ r.edits < MaxEdits
          /\ rows' = (rows \ {r}) \cup {[r EXCEPT !.edits = @ + 1]}
    /\ UNCHANGED <<highest, seeded, seeding, gone>>

DeleteRecord ==
    /\ seeding.at = "serving"
    /\ \E r \in rows : rows' = rows \ {r} /\ gone' = gone \cup RefsIn({r})
    /\ UNCHANGED <<highest, seeded, seeding>>

\* A new database; or one of a version that seeded without the marker, of which the
\* owner has deleted some records, or all.
RecordsInit ==
    /\ seeded = FALSE /\ seeding = Down
    /\ \/ rows = {} /\ highest = 0 /\ gone = {}
       \/ /\ highest = Cardinality(Builtin)
          /\ \E f \in [Builtin -> 1..highest] :
                /\ \A a, b \in Builtin : a # b => f[a] # f[b]
                /\ gone \in SUBSET Builtin
                /\ rows = {Row(f[ref], ref) : ref \in Builtin \ gone}

RecordsNext ==
    \/ SeedDone \/ SeedBegins \/ SeedInserts \/ SeedCommits \/ RecordsStop
    \/ InsertRecord \/ UpdateRecord \/ DeleteRecord

RecordsSpec == RecordsInit /\ [][RecordsNext]_recordsVars

RecordsTypeOK ==
    /\ \A r \in rows : r.id \in 1..highest /\ r.edits \in 0..MaxEdits
    /\ \A r, s \in rows : r.id = s.id => r = s
    /\ highest \in Nat /\ seeded \in BOOLEAN
    /\ seeding.at \in {"down", "inserting", "serving"}
    /\ seeding.left \subseteq Builtin
    /\ gone \subseteq Builtin

\* The built-in records come once and whole: no start brings back one that was deleted
\* or adds one twice, and the owner never sees a part of them, whatever statement
\* fails and wherever the daemon stops ("Never refill those DBs", water.go:326).
SeededOnce ==
    /\ RefsIn(rows) \cap gone = {}
    /\ RefsIn(rows) \cup gone \in {{}, Builtin}
    /\ \A r, s \in rows : r.ref = s.ref /\ r.ref # "none" => r = s
    /\ seeding.at = "serving" => seeded
=============================================================================
