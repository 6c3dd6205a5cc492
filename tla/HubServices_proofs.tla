-------------------------- MODULE HubServices_proofs --------------------------
(***************************************************************************)
(* The services beside the lighting, for every value of their constants:   *)
(* the counter of the lamp writes, the water records and the doser, each   *)
(* by itself; and all of them together, as the hub runs them.              *)
(***************************************************************************)
EXTENDS HubServices, JebaoPumps_proofs, LightCurve_proofs, TankReadings_proofs,
        SequenceTheorems

(***************************************************************************)
(* The counter of the lamp writes and its file.                            *)
(***************************************************************************)
(***************************************************************************)
(* While the daemon serves, only Run saves: the temporary file holds what  *)
(* Run has snapped, and that is what is counted unless the flag is set     *)
(* again.                                                                  *)
(***************************************************************************)
RunSaves ==
    /\ saver["main"].at = "idle"
    /\ ~dirty =>
          /\ saver["run"].at = "write" => saver["run"].snap = counted
          /\ saver["run"].at = "rename" => tmp = counted
          /\ saver["run"].at = "idle" => counted \in {writes, failed}

TallyInv == TallyTypeOK /\ (~stopping => RunSaves)

LEMMA TallyBegins == TallyInit => TallyInv
<1> SUFFICES ASSUME TallyInit PROVE TallyInv
  OBVIOUS
<1>1. NewDay(today) \in Tally
  BY TallyAssumption DEF TallyInit, NewDay, Tally, Count
<1>2. TallyTypeOK
  BY <1>1 DEF TallyInit, TallyTypeOK, File, NotSaving
<1>3. RunSaves
  BY DEF TallyInit, RunSaves, NotSaving, Saver
<1> QED BY <1>2, <1>3 DEF TallyInv

LEMMA RolledType ==
    ASSUME today \in LocalDate, NEW s \in File
    PROVE  Rolled(s) \in Tally
<1>1. NewDay(today) \in Tally
  BY TallyAssumption DEF NewDay, Tally, Count
<1>2. s.date = today => s \in Tally
  BY TallyAssumption DEF File, NoTally
<1> QED BY <1>1, <1>2 DEF Rolled

LEMMA TallyTypes == TallyTypeOK /\ [TallyNext]_tallyVars => TallyTypeOK'
<1> SUFFICES ASSUME TallyTypeOK, [TallyNext]_tallyVars PROVE TallyTypeOK'
  OBVIOUS
<1> USE DEF TallyTypeOK
<1>a. counted \in File /\ Rolled(counted) \in Tally
  BY RolledType DEF File
<1>1. CASE Add
  <2>1. [Rolled(counted) EXCEPT !.n = @ + 1] \in Tally
    BY <1>1, <1>a, TallyAssumption DEF Add, Tally, Count
  <2> QED BY <1>1, <2>1 DEF Add, TallyUses, vars_files
<1>2. CASE ShowToday
  BY <1>2, <1>a DEF ShowToday, TallyUses, vars_files
<1>3. CASE DateChanges
  BY <1>3 DEF DateChanges, vars_files
<1>4. CASE TallyStops
  BY <1>4 DEF TallyStops, vars_files
<1>5. CASE TallyRestart
  <2>1. Rolled(writes) \in Tally
    BY RolledType
  <2> QED BY <1>5, <2>1 DEF TallyRestart, NotSaving, File
<1>6. ASSUME NEW g \in Saver, SaveBegins(g) PROVE TallyTypeOK'
  BY <1>6, <1>a DEF SaveBegins, File
<1>7. ASSUME NEW g \in Saver, SaveWrites(g) PROVE TallyTypeOK'
  <2>1. NotSaving \in [at : {"idle", "write", "rename"}, snap : File]
        /\ [NotSaving EXCEPT !.at = "rename"] \in [at : {"idle", "write", "rename"}, snap : File]
        /\ saver[g].snap \in File
    BY DEF NotSaving, File
  <2> QED BY <1>7, <2>1 DEF SaveWrites, SaveEnds
<1>8. ASSUME NEW g \in Saver, SaveRenames(g) PROVE TallyTypeOK'
  <2>1. NotSaving \in [at : {"idle", "write", "rename"}, snap : File] /\ NoTally \in File
    BY DEF NotSaving, File
  <2> QED BY <1>8, <2>1 DEF SaveRenames, SaveEnds
<1>9. CASE UNCHANGED tallyVars
  BY <1>9 DEF tallyVars
<1> QED BY <1>1, <1>2, <1>3, <1>4, <1>5, <1>6, <1>7, <1>8, <1>9 DEF TallyNext

LEMMA TallyStep == TallyInv /\ [TallyNext]_tallyVars => TallyInv'
<1> SUFFICES ASSUME TallyInv, [TallyNext]_tallyVars, ~stopping' PROVE RunSaves'
  BY TallyTypes DEF TallyInv
<1>a. TallyTypeOK /\ "run" \in Saver /\ "main" \in Saver /\ "run" # "main"
  BY DEF TallyInv, Saver
<1>b. ~stopping => RunSaves
  BY DEF TallyInv
<1>1. CASE Add
  BY <1>1, <1>b DEF Add, TallyUses, vars_files, RunSaves
<1>2. CASE ShowToday
  <2>1. CASE counted.date = today
    <3>1. UNCHANGED <<counted, saver, tmp, writes, failed, stopping>> /\ dirty' = dirty
      BY <1>2, <1>a, <2>1 DEF ShowToday, TallyUses, vars_files, Rolled, TallyTypeOK
    <3> QED BY <1>b, <3>1 DEF RunSaves
  <2>2. CASE counted.date # today
    <3>1. UNCHANGED <<saver, stopping>> /\ dirty' = TRUE
      BY <1>2, <2>2 DEF ShowToday, TallyUses, vars_files
    <3> QED BY <1>b, <3>1 DEF RunSaves
  <2> QED BY <2>1, <2>2
<1>3. CASE DateChanges
  BY <1>3, <1>b DEF DateChanges, vars_files, RunSaves
<1>4. CASE TallyStops
  BY <1>4 DEF TallyStops
<1>5. CASE TallyRestart
  <2>1. saver'["run"].at = "idle" /\ saver'["main"].at = "idle"
    BY <1>5, <1>a DEF TallyRestart, NotSaving
  <2>2. ~dirty' => writes' = counted'
    BY <1>5 DEF TallyRestart, Rolled
  <2> QED BY <2>1, <2>2 DEF RunSaves
<1>6. ASSUME NEW g \in Saver, SaveBegins(g) \/ SaveWrites(g) \/ SaveRenames(g) PROVE RunSaves'
  <2>0. stopping' = stopping
    BY <1>6 DEF SaveBegins, SaveWrites, SaveRenames
  <2>1. ~stopping /\ RunSaves
    BY <1>b, <2>0
  <2>2. g = "run"
    BY <1>6, <2>1 DEF RunSaves, Saver, SaveBegins, SaveWrites, SaveRenames
  <2>3. saver \in [Saver -> [at : {"idle", "write", "rename"}, snap : File]]
    BY <1>a DEF TallyTypeOK
  <2>4. saver'["main"].at = "idle"
    BY <1>6, <1>a, <2>1, <2>2, <2>3 DEF RunSaves, SaveBegins, SaveWrites, SaveRenames, SaveEnds
  <2>5. CASE SaveBegins(g)
    <3>1. saver'["run"] = [at |-> "write", snap |-> counted] /\ counted' = counted
      BY <1>a, <2>2, <2>3, <2>5 DEF SaveBegins
    <3> QED BY <2>4, <3>1 DEF RunSaves
  <2>6. CASE SaveWrites(g)
    <3>1. /\ saver["run"].at = "write" /\ UNCHANGED <<counted, dirty>>
          /\ \/ saver'["run"].at = "rename" /\ tmp' = saver["run"].snap
             \/ saver'["run"].at = "idle" /\ failed' = saver["run"].snap
      BY <1>a, <2>2, <2>3, <2>6 DEF SaveWrites, SaveEnds, NotSaving
    <3> QED BY <2>1, <2>4, <3>1 DEF RunSaves
  <2>7. CASE SaveRenames(g)
    <3>1. /\ saver["run"].at = "rename" /\ UNCHANGED <<counted, dirty>>
          /\ saver'["run"].at = "idle"
          /\ writes' = tmp \/ failed' = tmp
      BY <1>a, <2>2, <2>3, <2>7 DEF SaveRenames, SaveEnds, NotSaving
    <3> QED BY <2>1, <2>4, <3>1 DEF RunSaves
  <2> QED BY <1>6, <2>5, <2>6, <2>7
<1>7. CASE UNCHANGED tallyVars
  BY <1>7, <1>b DEF tallyVars, RunSaves
<1> QED BY <1>1, <1>2, <1>3, <1>4, <1>5, <1>6, <1>7 DEF TallyNext

\* However the counting, the dates and the saves interleave and fail, a counter that
\* nobody is going to save is the one in the file, or the one that the last save failed
\* on: nothing older is ever missing (Save of tally.go).
THEOREM TallyCorrect == TallySpec => []TallyReachesFile
<1>1. TallyInv => TallyReachesFile
  BY DEF TallyInv, RunSaves, TallyReachesFile
<1> QED BY TallyBegins, TallyStep, <1>1, PTL DEF TallySpec

LEMMA TallyTypeCorrect == TallySpec => []TallyTypeOK
<1>1. TallyInv => TallyTypeOK
  BY DEF TallyInv
<1> QED BY TallyBegins, TallyStep, <1>1, PTL DEF TallySpec

(***************************************************************************)
(* The built-in records come once, for every set of them and any number of *)
(* starts, crashes and edits.                                              *)
(***************************************************************************)
RowType == [id : Nat, ref : Builtin \cup {"none"}, edits : 0..MaxEdits]

\* A table whose numbers and whose origins are unique.
Sound(R, high) ==
    /\ R \subseteq RowType /\ high \in Nat
    /\ \A r \in R : 1 <= r.id /\ r.id <= high
    /\ \A r, s \in R : r.id = s.id => r = s
    /\ \A r, s \in R : r.ref = s.ref /\ r.ref # "none" => r = s

\* The built-in records are all there or deleted, but for those to come.
Whole(R, left) ==
    /\ RefsIn(R) \cap gone = {} /\ RefsIn(R) \cap left = {} /\ gone \cap left = {}
    /\ RefsIn(R) \cup gone \cup left \in {{}, Builtin}

\* All of them, once a start has looked at the table or the table was used.
All(R, left) == RefsIn(R) \cup gone \cup left = Builtin

SeedInv ==
    /\ Sound(rows, highest) /\ Whole(rows, {})
    /\ seeded \/ highest # 0 => All(rows, {})
    /\ highest = 0 => gone = {}
    /\ gone \subseteq Builtin
    /\ seeding \in [at : {"down", "inserting", "serving"}, rows : SUBSET RowType,
                    highest : Nat, left : SUBSET Builtin]
    /\ seeding.at = "serving" => seeded
    /\ seeding.at = "inserting" =>
          /\ Sound(seeding.rows, seeding.highest) /\ Whole(seeding.rows, seeding.left)
          /\ All(seeding.rows, seeding.left)
          /\ seeding.highest = 0 => gone = {}

LEMMA SoundNew ==
    ASSUME NEW R, NEW high, Sound(R, high), NEW ref \in Builtin \cup {"none"},
           ref # "none" => ref \notin RefsIn(R)
    PROVE  /\ Sound(R \cup {Row(high + 1, ref)}, high + 1)
           /\ RefsIn(R \cup {Row(high + 1, ref)}) = RefsIn(R) \cup ({ref} \ {"none"})
<1> DEFINE new == Row(high + 1, ref)
<1>1. new \in RowType /\ new.id = high + 1 /\ new.ref = ref
  BY RecordsAssumption DEF Row, RowType, Sound
<1>2. RefsIn(R \cup {new}) = RefsIn(R) \cup ({ref} \ {"none"})
  BY <1>1 DEF RefsIn
<1>3. \A r \in R : r.id # new.id
  BY <1>1 DEF Sound, RowType
<1>4. \A r \in R : r.ref = new.ref => r.ref = "none"
  BY <1>1 DEF RefsIn
<1>5. \A r, s \in R \cup {new} : r.id = s.id => r = s
  BY <1>3 DEF Sound
<1>6. \A r, s \in R \cup {new} : r.ref = s.ref /\ r.ref # "none" => r = s
  BY <1>4 DEF Sound
<1>7. R \cup {new} \subseteq RowType /\ high + 1 \in Nat
  BY <1>1 DEF Sound
<1>8. \A r \in R \cup {new} : 1 <= r.id /\ r.id <= high + 1
  BY <1>1, <1>7 DEF Sound, RowType
<1>9. Sound(R \cup {new}, high + 1)
  BY <1>5, <1>6, <1>7, <1>8 DEF Sound
<1> QED BY <1>2, <1>9

LEMMA SeedInit == RecordsInit => SeedInv
<1> SUFFICES ASSUME RecordsInit PROVE SeedInv
  OBVIOUS
<1>1. /\ seeding.at = "down"
      /\ seeding \in [at : {"down", "inserting", "serving"}, rows : SUBSET RowType,
                      highest : Nat, left : SUBSET Builtin]
  BY DEF RecordsInit, Down
<1>2. CASE rows = {} /\ highest = 0 /\ gone = {}
  BY <1>1, <1>2 DEF SeedInv, Sound, Whole, RefsIn, RecordsInit
<1>3. CASE ~(rows = {} /\ highest = 0 /\ gone = {})
  <2>1. highest = Cardinality(Builtin) /\ highest \in Nat /\ gone \in SUBSET Builtin
    BY <1>3, FS_CardinalityType, RecordsAssumption DEF RecordsInit
  <2>2. PICK f \in [Builtin -> 1..highest] :
           /\ \A a, b \in Builtin : a # b => f[a] # f[b]
           /\ rows = {Row(f[ref], ref) : ref \in Builtin \ gone}
    BY <1>3 DEF RecordsInit
  <2>3. \A ref \in Builtin :
           /\ Row(f[ref], ref) \in RowType
           /\ Row(f[ref], ref).id = f[ref] /\ Row(f[ref], ref).ref = ref
           /\ 1 <= f[ref] /\ f[ref] <= highest
    BY <2>1, <2>2, RecordsAssumption DEF Row, RowType
  <2>4. Sound(rows, highest)
    BY <2>1, <2>2, <2>3 DEF Sound
  <2>5. RefsIn(rows) = Builtin \ gone
    <3>1. {r.ref : r \in rows} = Builtin \ gone
      BY <2>2, <2>3
    <3> QED BY <3>1, RecordsAssumption DEF RefsIn
  <2>6. Whole(rows, {})
    BY <2>1, <2>5 DEF Whole
  <2>7. highest = 0 => gone = {}
    BY <2>1, <2>3
  <2>8. All(rows, {})
    BY <2>1, <2>5 DEF All
  <2> QED BY <1>1, <2>1, <2>4, <2>6, <2>7, <2>8 DEF SeedInv
<1> QED BY <1>2, <1>3

LEMMA SeedStep == SeedInv /\ [RecordsNext]_recordsVars => SeedInv'
<1> SUFFICES ASSUME SeedInv, [RecordsNext]_recordsVars PROVE SeedInv'
  OBVIOUS
<1> DEFINE SeedingType ==
      [at : {"down", "inserting", "serving"}, rows : SUBSET RowType,
       highest : Nat, left : SUBSET Builtin]
<1>a. /\ Sound(rows, highest) /\ Whole(rows, {}) /\ gone \subseteq Builtin
      /\ rows \subseteq RowType /\ highest \in Nat /\ seeding \in SeedingType
      /\ highest = 0 => gone = {}
      /\ seeded \/ highest # 0 => All(rows, {})
  BY DEF SeedInv, Sound
<1>0. ASSUME UNCHANGED <<rows, highest, gone, seeded>>, seeding' \in SeedingType,
             seeding'.at = "serving" => seeded',
             seeding'.at = "inserting" =>
                /\ Sound(seeding'.rows, seeding'.highest)
                /\ Whole(seeding'.rows, seeding'.left)
                /\ All(seeding'.rows, seeding'.left)
                /\ seeding'.highest = 0 => gone = {}
      PROVE  SeedInv'
  BY <1>0, <1>a DEF SeedInv, Whole, All
<1>1. CASE SeedDone
  <2>1. seeding' \in SeedingType /\ seeding'.at = "serving"
    BY <1>1 DEF SeedDone, Serving, Down
  <2> QED BY <1>0, <1>1, <2>1 DEF SeedDone
<1>2. CASE SeedBegins
  <2>1. /\ seeding' = [at |-> "inserting", rows |-> rows, highest |-> highest,
                       left |-> IF Used THEN {} ELSE Builtin]
        /\ UNCHANGED <<rows, highest, gone, seeded>>
    BY <1>2 DEF SeedBegins
  <2>2. Whole(rows, seeding'.left)
    <3>1. CASE Used
      BY <1>a, <2>1, <3>1
    <3>2. CASE ~Used
      <4>1. rows = {} /\ highest = 0
        BY <1>a, <3>2 DEF Used
      <4> QED BY <1>a, <2>1, <3>2, <4>1 DEF Whole, RefsIn
    <3> QED BY <3>1, <3>2
  <2>3. seeding' \in SeedingType
    BY <1>a, <2>1
  <2>4. All(rows, seeding'.left)
    <3>1. CASE Used
      <4>1. highest # 0
        BY <1>a, <3>1 DEF Used, Sound, RowType
      <4> QED BY <1>a, <2>1, <3>1, <4>1
    <3>2. CASE ~Used
      <4>1. rows = {} /\ highest = 0
        BY <1>a, <3>2 DEF Used
      <4> QED BY <1>a, <2>1, <3>2, <4>1 DEF All, RefsIn
    <3> QED BY <3>1, <3>2
  <2> QED BY <1>0, <1>a, <2>1, <2>2, <2>3, <2>4
<1>3. CASE SeedInserts
  <2>1. PICK ref \in seeding.left :
           seeding' = [seeding EXCEPT !.left = @ \ {ref}, !.highest = @ + 1,
                                      !.rows = @ \cup {Row(seeding.highest + 1, ref)}]
    BY <1>3 DEF SeedInserts
  <2>2. /\ seeding.at = "inserting" /\ UNCHANGED <<rows, highest, gone, seeded>>
        /\ Sound(seeding.rows, seeding.highest) /\ Whole(seeding.rows, seeding.left)
        /\ All(seeding.rows, seeding.left)
    BY <1>3 DEF SeedInserts, SeedInv
  <2>3. ref \in Builtin /\ ref # "none" /\ ref \notin RefsIn(seeding.rows)
    BY <1>a, <2>1, <2>2, RecordsAssumption DEF Whole
  <2> DEFINE more == seeding.rows \cup {Row(seeding.highest + 1, ref)}
  <2>4. /\ Sound(more, seeding.highest + 1)
        /\ RefsIn(more) = RefsIn(seeding.rows) \cup {ref}
    BY <2>2, <2>3, SoundNew
  <2>5. /\ seeding'.rows = more /\ seeding'.highest = seeding.highest + 1
        /\ seeding'.left = seeding.left \ {ref} /\ seeding'.at = "inserting"
        /\ seeding' \in SeedingType
    <3>1. more \subseteq RowType
      BY <2>4 DEF Sound
    <3> HIDE DEF more
    <3>2. seeding' = [at |-> seeding.at, rows |-> more, highest |-> seeding.highest + 1,
                      left |-> seeding.left \ {ref}]
      BY <1>a, <2>1 DEF more
    <3> QED BY <1>a, <2>2, <3>1, <3>2
  <2> HIDE DEF more
  <2>6. Whole(more, seeding'.left)
    BY <2>1, <2>2, <2>3, <2>4, <2>5 DEF Whole
  <2>7. seeding'.highest # 0
    BY <1>a, <2>5
  <2>8. All(more, seeding'.left)
    BY <2>1, <2>2, <2>4, <2>5 DEF All
  <2> QED BY <1>0, <2>2, <2>4, <2>5, <2>6, <2>7, <2>8
<1>4. CASE SeedCommits
  <2>1. /\ rows' = seeding.rows /\ highest' = seeding.highest /\ seeded' = TRUE
        /\ seeding' = Serving /\ gone' = gone /\ seeding.left = {} /\ seeding.at = "inserting"
    BY <1>4 DEF SeedCommits
  <2>2. /\ Sound(seeding.rows, seeding.highest) /\ Whole(seeding.rows, seeding.left)
        /\ seeding.highest = 0 => gone = {}
        /\ All(seeding.rows, seeding.left)
    BY <2>1 DEF SeedInv
  <2>3. seeding' \in SeedingType /\ seeding'.at = "serving"
    BY <2>1 DEF Serving, Down
  <2>4. Whole(rows, {})'
    BY <2>1, <2>2 DEF Whole
  <2>5. All(rows, {})'
    BY <2>1, <2>2 DEF All
  <2> QED BY <1>a, <2>1, <2>2, <2>3, <2>4, <2>5 DEF SeedInv
<1>5. CASE RecordsStop
  <2>1. seeding' \in SeedingType /\ seeding'.at = "down"
    BY <1>5 DEF RecordsStop, Down
  <2> QED BY <1>0, <1>5, <2>1 DEF RecordsStop
\* Edits.
<1>6. ASSUME Sound(rows', highest'), RefsIn(rows') \cup gone' = RefsIn(rows) \cup gone,
             RefsIn(rows') \cap gone' = {}, gone' \subseteq Builtin,
             highest' = 0 => gone' = {},
             UNCHANGED <<seeded, seeding>>, seeding.at = "serving"
      PROVE  SeedInv'
  <2>1. Whole(rows, {})'
    BY <1>a, <1>6 DEF Whole
  <2>2. seeded
    BY <1>6 DEF SeedInv
  <2>3. All(rows, {})'
    BY <1>a, <1>6, <2>2 DEF All
  <2> QED BY <1>a, <1>6, <2>1, <2>2, <2>3 DEF SeedInv
<1>7. CASE InsertRecord
  <2>1. PICK ref \in (Builtin \ RefsIn(rows)) \cup {"none"} :
           rows' = rows \cup {Row(highest + 1, ref)} /\ gone' = gone \ {ref}
    BY <1>7 DEF InsertRecord
  <2>2. /\ highest' = highest + 1 /\ UNCHANGED <<seeded, seeding>> /\ seeding.at = "serving"
    BY <1>7 DEF InsertRecord
  <2>3. seeded /\ RefsIn(rows) \cup gone = Builtin /\ RefsIn(rows) \cap gone = {}
    BY <1>a, <2>2 DEF SeedInv, All, Whole
  <2>4. Sound(rows', highest') /\ RefsIn(rows') = RefsIn(rows) \cup ({ref} \ {"none"})
    BY <1>a, <2>1, <2>2, SoundNew
  <2>5. RefsIn(rows') \cup gone' = RefsIn(rows) \cup gone /\ RefsIn(rows') \cap gone' = {}
    BY <2>1, <2>3, <2>4, RecordsAssumption
  <2>6. gone' \subseteq Builtin /\ highest' # 0
    BY <1>a, <2>1, <2>2
  <2> QED BY <1>6, <2>2, <2>4, <2>5, <2>6
<1>8. CASE UpdateRecord
  <2>1. PICK r \in rows : /\ r.edits < MaxEdits
                           /\ rows' = (rows \ {r}) \cup {[r EXCEPT !.edits = @ + 1]}
    BY <1>8 DEF UpdateRecord
  <2> DEFINE new == [r EXCEPT !.edits = @ + 1]
  <2>2. new \in RowType /\ new.id = r.id /\ new.ref = r.ref
    BY <1>a, <2>1, RecordsAssumption DEF RowType
  <2> HIDE DEF new
  <2>3. Sound(rows', highest)
    <3>1. rows' = (rows \ {r}) \cup {new}
      BY <2>1 DEF new
    <3>2. \A s \in rows : s.id = r.id => s = r
      BY <1>a, <2>1 DEF Sound
    <3>3. \A s \in rows : s.ref = r.ref /\ r.ref # "none" => s = r
      BY <1>a, <2>1 DEF Sound
    <3>4. \A s, t \in rows' : s.id = t.id => s = t
      BY <1>a, <2>1, <2>2, <3>1, <3>2 DEF Sound
    <3>5. \A s, t \in rows' : s.ref = t.ref /\ s.ref # "none" => s = t
      BY <1>a, <2>1, <2>2, <3>1, <3>3 DEF Sound
    <3> QED BY <1>a, <2>1, <2>2, <3>1, <3>4, <3>5 DEF Sound
  <2>4. RefsIn(rows') = RefsIn(rows)
    <3>1. {s.ref : s \in rows'} = {s.ref : s \in rows}
      BY <2>1, <2>2 DEF new
    <3> QED BY <3>1 DEF RefsIn
  <2>5. RefsIn(rows) \cap gone = {}
    BY <1>a DEF Whole
  <2> QED BY <1>6, <1>8, <1>a, <2>3, <2>4, <2>5 DEF UpdateRecord
<1>9. CASE DeleteRecord
  <2>1. PICK r \in rows : rows' = rows \ {r} /\ gone' = gone \cup RefsIn({r})
    BY <1>9 DEF DeleteRecord
  <2>2. RefsIn({r}) = {r.ref} \ {"none"} /\ r \in RowType
    BY <1>a, <2>1 DEF RefsIn
  <2>3. Sound(rows', highest)
    BY <1>a, <2>1 DEF Sound
  <2>4. RefsIn(rows') = RefsIn(rows) \ RefsIn({r})
    <3>1. \A s \in rows : s.ref = r.ref /\ r.ref # "none" => s = r
      BY <1>a, <2>1 DEF Sound
    <3> QED BY <2>1, <2>2, <3>1 DEF RefsIn
  <2>5. RefsIn({r}) \subseteq RefsIn(rows) /\ RefsIn({r}) \subseteq Builtin
    BY <2>1, <2>2 DEF RefsIn, RowType
  <2>6. highest # 0
    BY <1>a, <2>1, <2>2 DEF Sound, RowType
  <2>7. RefsIn(rows) \cap gone = {}
    BY <1>a DEF Whole
  <2>8. RefsIn(rows') \cup gone' = RefsIn(rows) \cup gone /\ RefsIn(rows') \cap gone' = {}
    BY <2>1, <2>4, <2>5, <2>7
  <2>9. gone' \subseteq Builtin
    BY <1>a, <2>1, <2>5
  <2> QED BY <1>6, <1>9, <2>3, <2>6, <2>8, <2>9 DEF DeleteRecord
<1>10. CASE UNCHANGED recordsVars
  BY <1>10, <1>0 DEF recordsVars, SeedInv
<1> QED BY <1>1, <1>2, <1>3, <1>4, <1>5, <1>7, <1>8, <1>9, <1>10 DEF RecordsNext

\* A built-in record comes once and never again after its deletion, and all come
\* together, wherever the transaction fails or the daemon stops (SeedWaterRecords
\* of water.go).
THEOREM SeededOnceCorrect == RecordsSpec => []SeededOnce
<1>1. SeedInv => SeededOnce
  BY DEF SeedInv, Sound, Whole, SeededOnce
<1> QED BY <1>1, SeedInit, SeedStep, PTL DEF RecordsSpec

\* Numbers, edits and the marker stay within their types, through the old versions'
\* databases as well (water.go).
LEMMA RecordsTypeCorrect == RecordsSpec => []RecordsTypeOK
<1>1. RecordsInit => seeded \in BOOLEAN
  BY DEF RecordsInit
<1>2. SeedInv /\ seeded \in BOOLEAN /\ [RecordsNext]_recordsVars => (seeded \in BOOLEAN)'
  BY DEF RecordsNext, SeedDone, SeedBegins, SeedInserts, SeedCommits, RecordsStop, InsertRecord,
     UpdateRecord, DeleteRecord, recordsVars
<1>3. SeedInv /\ seeded \in BOOLEAN => RecordsTypeOK
  BY DEF SeedInv, Sound, RowType, RecordsTypeOK
<1> QED BY <1>1, <1>2, <1>3, SeedInit, SeedStep, PTL DEF RecordsSpec

(***************************************************************************)
(* The doser.  The state in memory and the one in the file are each a      *)
(* consistent book: numbered entries, heads within their containers, and   *)
(* levels that the entries account for.                                    *)
(***************************************************************************)
Action == {"settings", "manual_dose", "calibrate", "prime"}
Outcome == {"ok", "simulated", "partial", "timeout"}
EntryType == [id : Nat \ {0}, head : Doser, action : Action, amount : Nat, status : Outcome]

\* The audit ends with the number given last, and no number is missing.
Numbered(s) ==
    /\ s.audit \in Seq(EntryType) /\ Len(s.audit) <= AuditCap
    /\ s.next \in 1..MaxAudit + 1
    /\ \A i \in 1..Len(s.audit) : s.audit[i].id = s.next - Len(s.audit) + i - 1

Filled(s) ==
    \A h \in Doser :
        /\ 0 <= s.heads[h].remaining /\ s.heads[h].remaining <= s.heads[h].container
        /\ 0 <= s.heads[h].filled /\ s.heads[h].filled <= s.heads[h].container
        /\ s.heads[h].since < s.next

StateType == [heads : [Doser -> HeadType], audit : Seq(EntryType), next : Nat, failure : Failure]

Books(s) ==
    /\ s \in StateType
    /\ Numbered(s) /\ Filled(s)
    /\ \A h \in Doser : ReachesBack(h, s) => Balanced(h, s)

\* An acknowledged entry is in the audit of s, or older than it.
Keeps(e, s) ==
    /\ e.id < s.next
    /\ \/ \E i \in 1..Len(s.audit) : s.audit[i] = e
       \/ s.audit # <<>> /\ e.id < s.audit[1].id

BooksInv ==
    /\ Books(store) /\ Books(file)
    /\ file.next <= store.next
    /\ page \in [doser : Doser, head : HeadType] /\ faults \in 0..MaxFaults
    /\ acknowledged \subseteq EntryType
    /\ \A e \in acknowledged : Keeps(e, store) /\ Keeps(e, file)
    /\ \A e, f \in acknowledged : e.id = f.id => e = f

LEMMA HeadLimits ==
    /\ \A c \in Container : c \in Nat
    /\ NewHead \in HeadType
    /\ 0 \in Nat /\ Supply \in Nat /\ 0 <= Supply
  BY DosingAssumption DEF NewHead, HeadType, Rate

\* b is a and e after it, or all but the oldest of them.
Extends(a, b, e) ==
    /\ b \in Seq(EntryType) /\ Len(b) <= AuditCap /\ Len(b) \in Nat /\ Len(b) >= 1
    /\ b[Len(b)] = e
    /\ \/ /\ Len(b) = Len(a) + 1
          /\ \A i \in 1..Len(a) : b[i] = a[i]
       \/ /\ Len(b) = Len(a)
          /\ \A i \in 1..Len(a) - 1 : b[i] = a[i + 1]

LEMMA NewerAppend ==
    ASSUME NEW s \in Seq(EntryType), Len(s) <= AuditCap, NEW e \in EntryType
    PROVE  Extends(s, Newer(Append(s, e), AuditCap), e)
<1> DEFINE a == Append(s, e)
           t == Newer(a, AuditCap)
<1>1. /\ a \in Seq(EntryType) /\ Len(a) = Len(s) + 1 /\ Len(s) \in Nat
      /\ a[Len(s) + 1] = e
      /\ \A i \in 1..Len(s) : a[i] = s[i]
  OBVIOUS
<1>2. AuditCap \in Nat /\ AuditCap >= 1
  BY DosingAssumption
<1> SUFFICES Extends(s, t, e)
  OBVIOUS
<1> HIDE DEF a, t
<1>3. CASE Len(a) <= AuditCap
  <2>1. t = a
    BY <1>3 DEF Newer, t
  <2> QED BY <1>1, <1>3, <2>1 DEF Extends
<1>4. CASE ~(Len(a) <= AuditCap)
  <2>0. Len(s) = AuditCap /\ Len(a) - AuditCap + 1 = 2
    BY <1>1, <1>2, <1>4
  <2>1. Len(s) = AuditCap /\ t = SubSeq(a, 2, Len(a))
    BY <1>4, <2>0 DEF Newer, t
  <2>2. /\ t \in Seq(EntryType) /\ Len(t) = Len(a) - 1
        /\ \A i \in 1..Len(a) - 1 : t[i] = a[i + 1]
    <3>1. \A i \in 2..Len(a) : a[i] \in EntryType
      BY <1>1
    <3> QED BY <1>1, <1>2, <2>1, <3>1, SubSeqProperties
  <2>3. Len(t) = Len(s) /\ t[Len(t)] = e /\ \A i \in 1..Len(s) - 1 : t[i] = s[i + 1]
    BY <1>1, <1>2, <2>1, <2>2
  <2> QED BY <1>2, <2>1, <2>2, <2>3 DEF Extends
<1> QED BY <1>3, <1>4

\* An operation that is noted keeps the numbers in order.
LEMMA NumbersKept ==
    ASSUME NEW s, NEW t, Numbered(s), s.next <= MaxAudit, NEW e \in EntryType, e.id = s.next,
           t.next = s.next + 1, t.audit = Newer(Append(s.audit, e), AuditCap)
    PROVE  Numbered(t)
<1>a. s.audit \in Seq(EntryType) /\ Len(s.audit) <= AuditCap
  BY DEF Numbered
<1>1. /\ s.next \in 1..MaxAudit /\ MaxAudit \in Nat
      /\ s.audit \in Seq(EntryType) /\ Len(s.audit) \in Nat
      /\ \A i \in 1..Len(s.audit) : s.audit[i].id = s.next - Len(s.audit) + i - 1
  BY DosingAssumption DEF Numbered
<1> DEFINE n == Len(s.audit)
           m == Len(t.audit)
<1>b. Extends(s.audit, t.audit, e)
  BY <1>a, NewerAppend
<1>2. /\ t.audit \in Seq(EntryType) /\ m <= AuditCap /\ m \in Nat /\ m >= 1
      /\ t.audit[m] = e
      /\ \/ /\ m = n + 1
            /\ \A i \in 1..n : t.audit[i] = s.audit[i]
         \/ /\ m = n
            /\ \A i \in 1..n - 1 : t.audit[i] = s.audit[i + 1]
  BY <1>b DEF Extends
<1>z. n \in Nat /\ m \in Nat /\ m >= 1 /\ s.next \in Nat
  BY <1>1, <1>2
<1> HIDE DEF n, m
<1>3. t.next \in 1..MaxAudit + 1
  BY <1>1
<1>4. ASSUME NEW i \in 1..m PROVE t.audit[i].id = t.next - m + i - 1
  <2>1. CASE i = m
    <3>1. t.audit[i] = e
      BY <1>2, <2>1
    <3> QED BY <1>z, <2>1, <3>1
  <2>2. CASE i # m /\ m = n + 1 /\ t.audit[i] = s.audit[i]
    <3>1. i \in 1..n
      BY <1>z, <2>2
    <3> QED BY <1>1, <1>z, <2>2, <3>1 DEF n
  <2>3. CASE i # m /\ m = n /\ t.audit[i] = s.audit[i + 1]
    <3>1. i + 1 \in 1..n
      BY <1>z, <2>3
    <3>2. s.audit[i + 1].id = s.next - n + (i + 1) - 1
      BY <1>1, <3>1 DEF n
    <3> QED BY <1>1, <1>z, <2>3, <3>2
  <2>4. \/ m = n + 1 /\ (i # m => t.audit[i] = s.audit[i])
        \/ m = n /\ (i # m => t.audit[i] = s.audit[i + 1])
    <3>1. CASE m = n + 1 /\ \A j \in 1..n : t.audit[j] = s.audit[j]
      <4>1. i # m => i \in 1..n
        BY <1>z, <3>1
      <4> QED BY <3>1, <4>1
    <3>2. CASE m = n /\ \A j \in 1..n - 1 : t.audit[j] = s.audit[j + 1]
      <4>1. i # m => i \in 1..n - 1
        BY <1>z, <3>2
      <4> QED BY <3>2, <4>1
    <3> QED BY <1>2, <3>1, <3>2
  <2> QED BY <2>1, <2>2, <2>3, <2>4
<1> QED BY <1>2, <1>3, <1>4 DEF Numbered, m

\* What was kept, and the entry itself.
LEMMA KeepsMore ==
    ASSUME NEW s, NEW t, Numbered(s), NEW e \in EntryType, e.id = s.next,
           t.next = s.next + 1, t.audit = Newer(Append(s.audit, e), AuditCap)
    PROVE  /\ Keeps(e, t)
           /\ \A f : f.id \in Nat /\ Keeps(f, s) => Keeps(f, t)
<1> DEFINE n == Len(s.audit)
           m == Len(t.audit)
<1>a. s.audit \in Seq(EntryType) /\ Len(s.audit) <= AuditCap
  BY DEF Numbered
<1>1. /\ s.next \in Nat /\ s.audit \in Seq(EntryType) /\ n \in Nat
      /\ \A i \in 1..n : s.audit[i].id = s.next - n + i - 1
  BY DosingAssumption DEF Numbered
<1>b. Extends(s.audit, t.audit, e)
  BY <1>a, NewerAppend
<1>2. /\ t.audit \in Seq(EntryType) /\ m \in Nat /\ m >= 1
      /\ t.audit[m] = e
      /\ \/ /\ m = n + 1
            /\ \A i \in 1..n : t.audit[i] = s.audit[i]
         \/ /\ m = n
            /\ \A i \in 1..n - 1 : t.audit[i] = s.audit[i + 1]
  BY <1>b DEF Extends
<1>z. n \in Nat /\ m \in Nat /\ m >= 1 /\ s.next \in Nat
  BY <1>1, <1>2
<1> HIDE DEF n, m
<1>3. Keeps(e, t)
  BY <1>1, <1>2 DEF Keeps, m
<1>4. ASSUME NEW f, f.id \in Nat, Keeps(f, s) PROVE Keeps(f, t)
  <2>1. f.id < t.next /\ t.audit # <<>>
    <3>1. f.id < s.next
      BY <1>4 DEF Keeps
    <3>2. t.audit # <<>>
      BY <1>2 DEF m
    <3> QED BY <1>4, <1>z, <3>1, <3>2
  <2>2. CASE m = n + 1 /\ \A i \in 1..n : t.audit[i] = s.audit[i]
    <3>1. ASSUME NEW i \in 1..n, s.audit[i] = f PROVE Keeps(f, t)
      <4>1. i \in 1..m /\ t.audit[i] = f
        BY <1>z, <2>2, <3>1
      <4> QED BY <2>1, <4>1 DEF Keeps, m
    <3>2. CASE s.audit # <<>> /\ f.id < s.audit[1].id
      <4>1. t.audit[1] = s.audit[1]
        <5>1. 1 \in 1..n
          BY <1>1, <3>2 DEF n
        <5> QED BY <2>2, <5>1
      <4> QED BY <2>1, <3>2, <4>1 DEF Keeps
    <3> QED BY <1>4, <3>1, <3>2 DEF Keeps, n
  <2>3. CASE m = n /\ \A i \in 1..n - 1 : t.audit[i] = s.audit[i + 1]
    <3>0. t.audit[1].id = s.audit[1].id + 1
      <4>1. CASE n = 1
        BY <1>1, <1>2, <1>z, <2>3, <4>1 DEF n, m
      <4>2. CASE n # 1
        <5>1. 1 \in 1..n - 1 /\ 2 \in 1..n /\ 1 \in 1..n
          BY <1>z, <2>3, <4>2
        <5>2. t.audit[1] = s.audit[2]
          BY <2>3, <5>1
        <5>3. s.audit[2].id = s.next - n + 2 - 1 /\ s.audit[1].id = s.next - n + 1 - 1
          BY <1>1, <5>1 DEF n
        <5> QED BY <1>z, <5>2, <5>3
      <4> QED BY <4>1, <4>2
    <3>a. s.audit[1].id \in Nat
      <4>1. s.audit[1] \in EntryType
        BY <1>1, <1>z, <2>3 DEF n
      <4> QED BY <4>1 DEF EntryType
    <3>1. ASSUME NEW i \in 1..n, s.audit[i] = f PROVE Keeps(f, t)
      <4>1. CASE i = 1
        BY <2>1, <3>0, <3>1, <3>a, <4>1 DEF Keeps
      <4>2. CASE i # 1
        <5>1. i - 1 \in 1..n - 1 /\ i - 1 \in 1..m /\ i - 1 + 1 = i
          BY <1>z, <2>3, <4>2
        <5>2. t.audit[i - 1] = f
          BY <2>3, <3>1, <5>1
        <5> QED BY <2>1, <5>1, <5>2 DEF Keeps, m
      <4> QED BY <4>1, <4>2
    <3>2. CASE s.audit # <<>> /\ f.id < s.audit[1].id
      BY <1>4, <2>1, <3>0, <3>2, <3>a DEF Keeps
    <3> QED BY <1>4, <3>1, <3>2 DEF Keeps, n
  <2> QED BY <1>2, <2>2, <2>3
<1> QED BY <1>3, <1>4

\* The liquid of a head: its settings are the last entry, or it has what it had less
\* what the last entry gave.
LEMMA BalanceKept ==
    ASSUME NEW s, NEW t, s \in StateType, t \in StateType, Numbered(s), Filled(s), Filled(t),
           NEW e \in EntryType, e.id = s.next,
           t.next = s.next + 1, t.audit = Newer(Append(s.audit, e), AuditCap),
           NEW h \in Doser, ReachesBack(h, s) => Balanced(h, s), ReachesBack(h, t),
           \/ /\ t.heads[h].since = s.next /\ t.heads[h].filled = t.heads[h].remaining
           \/ /\ t.heads[h].since = s.heads[h].since
              /\ t.heads[h].filled = s.heads[h].filled
              /\ t.heads[h].container = s.heads[h].container
              /\ t.heads[h].remaining = s.heads[h].remaining
                                         - Given(e, h, s.heads[h].since)
    PROVE  Balanced(h, t)
<1> DEFINE n == Len(s.audit)
           m == Len(t.audit)
           H == t.heads[h]
           G == s.heads[h]
           a == s.audit
           b == t.audit
<1>a. s.audit \in Seq(EntryType) /\ Len(s.audit) <= AuditCap
  BY DEF Numbered
<1>b. Extends(a, b, e)
  BY <1>a, NewerAppend
<1>c. \A i \in 1..n : a[i].id = s.next - n + i - 1
  BY DEF Numbered
<1>d. /\ H.remaining \in 0..H.container /\ H.filled \in 0..H.container
      /\ G.remaining \in 0..G.container /\ G.filled \in 0..G.container
      /\ G.since < s.next /\ G.since \in Nat /\ H.since \in Nat
      /\ H.container \in Nat /\ G.container \in Nat
      /\ s.next \in Nat
  <2>1. H \in HeadType /\ G \in HeadType /\ s.next \in Nat
    BY DEF StateType
  <2>2. H.container \in Nat /\ G.container \in Nat
    BY <2>1, HeadLimits DEF HeadType
  <2> QED BY <2>1, <2>2 DEF HeadType, Filled
<1>e. /\ b \in Seq(EntryType) /\ m \in Nat /\ m >= 1 /\ b[m] = e
      /\ \/ m = n + 1 /\ \A i \in 1..n : b[i] = a[i]
         \/ m = n /\ \A i \in 1..n - 1 : b[i] = a[i + 1]
  BY <1>b DEF Extends
<1>f. n \in Nat
  BY <1>a
<1>g. a = <<>> <=> n = 0
  BY <1>a
<1>h. b # <<>>
  BY <1>e
<1> SUFFICES \E level \in [0..m -> 0..H.container] :
                /\ level[0] = H.filled
                /\ \A i \in 1..m : level[i] = level[i - 1] - Given(b[i], h, H.since)
                /\ level[m] = H.remaining
  BY DEF Balanced
<1>i. \A i \in 1..m : b[i] \in EntryType /\ b[i].id \in Nat
  <2> SUFFICES ASSUME NEW i \in 1..m PROVE b[i] \in EntryType
    BY DEF EntryType
  <2> QED BY <1>e
<1>j. b[1].id <= H.since + 1
  BY <1>h DEF ReachesBack
<1>k. e.id \in Nat /\ e.amount \in Nat
  BY DEF EntryType
<1> HIDE DEF n, m, H, G, a, b
<1>1. CASE H.since = s.next /\ H.filled = H.remaining
  <2> DEFINE level == [i \in 0..m |-> H.remaining]
  <2>1. ASSUME NEW i \in 1..m PROVE b[i].id <= s.next
    <3>1. CASE i = m
      BY <1>e, <1>d, <3>1
    <3>2. CASE i # m /\ m = n + 1 /\ b[i] = a[i]
      <4>1. i \in 1..n
        BY <1>e, <1>f, <3>2
      <4> QED BY <1>c, <1>d, <1>f, <3>2, <4>1
    <3>3. CASE i # m /\ m = n /\ b[i] = a[i + 1]
      <4>1. i + 1 \in 1..n
        BY <1>e, <1>f, <3>3
      <4>2. a[i + 1].id = s.next - n + (i + 1) - 1
        BY <1>c, <4>1
      <4> QED BY <1>d, <1>f, <3>3, <4>1, <4>2
    <3>4. CASE m = n + 1 /\ \A j \in 1..n : b[j] = a[j]
      <4>1. i # m => i \in 1..n
        BY <1>e, <1>f, <3>4
      <4> QED BY <3>1, <3>2, <3>4, <4>1
    <3>5. CASE m = n /\ \A j \in 1..n - 1 : b[j] = a[j + 1]
      <4>1. i # m => i \in 1..n - 1
        BY <1>e, <1>f, <3>5
      <4> QED BY <3>1, <3>3, <3>5, <4>1
    <3> QED BY <1>e, <3>4, <3>5
  <2>2. ASSUME NEW i \in 1..m PROVE Given(b[i], h, H.since) = 0
    <3>1. b[i].id <= H.since /\ b[i].id \in Nat /\ H.since \in Nat
      BY <1>1, <1>d, <1>i, <2>1
    <3>2. ~(b[i].id > H.since)
      BY <3>1
    <3> QED BY <3>2 DEF Given
  <2>3. level \in [0..m -> 0..H.container] /\ level[0] = H.filled /\ level[m] = H.remaining
    BY <1>1, <1>d, <1>e
  <2>4. \A i \in 1..m : level[i] = level[i - 1] - Given(b[i], h, H.since)
    BY <1>d, <1>e, <2>2
  <2> QED BY <2>3, <2>4
<1>2. CASE /\ H.since = G.since /\ H.filled = G.filled /\ H.container = G.container
           /\ H.remaining = G.remaining - Given(e, h, G.since)
  <2>1. CASE m = n + 1 /\ \A i \in 1..n : b[i] = a[i]
    <3>1. ReachesBack(h, s)
      <4>1. CASE n = 0
        BY <1>g, <4>1 DEF ReachesBack, a
      <4>2. CASE n # 0
        <5>1. b[1] = a[1]
          BY <1>f, <2>1, <4>2
        <5> QED BY <1>2, <1>j, <5>1 DEF ReachesBack, a, G
      <4> QED BY <4>1, <4>2
    <3>2. PICK level \in [0..n -> 0..G.container] :
             /\ level[0] = G.filled
             /\ \A i \in 1..n : level[i] = level[i - 1] - Given(a[i], h, G.since)
             /\ level[n] = G.remaining
      BY <3>1 DEF Balanced, n, a, G
    <3> DEFINE more == [i \in 0..m |-> IF i = m THEN H.remaining ELSE level[i]]
    <3>3. more \in [0..m -> 0..H.container]
      <4>1. \A i \in 0..m : i # m => i \in 0..n
        BY <1>f, <2>1
      <4> QED BY <1>2, <1>d, <3>2, <4>1
    <3>4. more[0] = H.filled /\ more[m] = H.remaining
      BY <1>2, <1>e, <1>f, <3>2
    <3>5. ASSUME NEW i \in 1..m PROVE more[i] = more[i - 1] - Given(b[i], h, H.since)
      <4>1. CASE i = m
        <5>1. more[i] = H.remaining /\ more[i - 1] = level[n] /\ b[i] = e
          BY <1>e, <1>f, <2>1, <4>1
        <5> QED BY <1>2, <3>2, <5>1
      <4>2. CASE i # m
        <5>1. i \in 1..n
          BY <1>f, <2>1, <4>2
        <5>2. more[i] = level[i] /\ more[i - 1] = level[i - 1] /\ b[i] = a[i]
          BY <1>e, <1>f, <2>1, <4>2, <5>1
        <5> QED BY <1>2, <3>2, <5>1, <5>2
      <4> QED BY <4>1, <4>2
    <3> QED BY <3>3, <3>4, <3>5
  <2>2. CASE m = n /\ \A i \in 1..n - 1 : b[i] = a[i + 1]
    <3>0. 1 \in 1..n /\ a[1].id = s.next - n /\ a[1].id \in Nat
      <4>1. 1 \in 1..n
        BY <1>e, <1>f, <2>2
      <4>2. a[1] \in EntryType
        BY <1>a, <4>1 DEF a, n
      <4> QED BY <1>c, <1>d, <1>f, <4>1, <4>2 DEF EntryType
    <3>a. b[1].id = a[1].id + 1
      <4>1. CASE n = 1
        BY <1>d, <1>e, <2>2, <3>0, <4>1
      <4>2. CASE n # 1
        <5>1. 1 \in 1..n - 1 /\ 2 \in 1..n
          BY <1>f, <3>0, <4>2
        <5>2. b[1] = a[2] /\ a[2].id = s.next - n + 2 - 1
          BY <1>c, <2>2, <5>1
        <5> QED BY <1>d, <1>f, <3>0, <5>2
      <4> QED BY <4>1, <4>2
    <3>b. a[1].id <= G.since
      BY <1>2, <1>d, <1>j, <3>0, <3>a
    <3>1. ReachesBack(h, s)
      <4>1. a[1].id <= G.since + 1
        BY <1>d, <3>0, <3>b
      <4> QED BY <4>1 DEF ReachesBack, a, G
    <3>2. PICK level \in [0..n -> 0..G.container] :
             /\ level[0] = G.filled
             /\ \A i \in 1..n : level[i] = level[i - 1] - Given(a[i], h, G.since)
             /\ level[n] = G.remaining
      BY <3>1 DEF Balanced, n, a, G
    <3>c. level[1] = G.filled
      <4>1. Given(a[1], h, G.since) = 0
        <5>1. ~(a[1].id > G.since)
          BY <1>d, <3>0, <3>b
        <5> QED BY <5>1 DEF Given
      <4>2. level[1] = level[1 - 1] - Given(a[1], h, G.since)
        BY <3>0, <3>2
      <4> QED BY <1>d, <3>2, <4>1, <4>2
    <3> DEFINE more == [i \in 0..m |-> IF i = m THEN H.remaining ELSE level[i + 1]]
    <3>3. more \in [0..m -> 0..H.container]
      <4>1. \A i \in 0..m : i # m => i + 1 \in 0..n
        BY <1>f, <2>2
      <4> QED BY <1>2, <1>d, <3>2, <4>1
    <3>4. more[0] = H.filled /\ more[m] = H.remaining
      BY <1>2, <1>e, <1>f, <3>c
    <3>5. ASSUME NEW i \in 1..m PROVE more[i] = more[i - 1] - Given(b[i], h, H.since)
      <4>1. CASE i = m
        <5>1. more[i] = H.remaining /\ more[i - 1] = level[n] /\ b[i] = e
          BY <1>e, <1>f, <2>2, <4>1
        <5> QED BY <1>2, <3>2, <5>1
      <4>2. CASE i # m
        <5>1. i \in 1..n - 1 /\ i + 1 \in 1..n /\ i - 1 \in 0..m /\ i - 1 # m
              /\ i - 1 + 1 = i /\ i + 1 - 1 = i
          BY <1>f, <2>2, <4>2
        <5>2. more[i] = level[i + 1] /\ more[i - 1] = level[i] /\ b[i] = a[i + 1]
          BY <1>f, <2>2, <4>2, <5>1
        <5>3. level[i + 1] = level[i + 1 - 1] - Given(a[i + 1], h, G.since)
          BY <3>2, <5>1
        <5> QED BY <1>2, <5>1, <5>2, <5>3
      <4> QED BY <4>1, <4>2
    <3> QED BY <3>3, <3>4, <3>5
  <2> QED BY <1>e, <2>1, <2>2
<1> QED BY <1>1, <1>2 DEF H, G

\* The head k is set by the entry e, or e takes what is missing in t.
Accounted(k, s, t, e) ==
    \/ /\ t.heads[k].since = s.next /\ t.heads[k].filled = t.heads[k].remaining
    \/ /\ t.heads[k].since = s.heads[k].since
       /\ t.heads[k].filled = s.heads[k].filled
       /\ t.heads[k].container = s.heads[k].container
       /\ t.heads[k].remaining = s.heads[k].remaining - Given(e, k, s.heads[k].since)

\* t is s with one more entry.
Noted(s, t) ==
    /\ Books(t) /\ t.next = s.next + 1
    /\ Newest(t) \in EntryType /\ Newest(t).id = s.next /\ Keeps(Newest(t), t)
    /\ \A f : f.id \in Nat /\ Keeps(f, s) => Keeps(f, t)

LEMMA AuditedNoted ==
    ASSUME NEW s, Books(s), s.next <= MaxAudit,
           NEW r, r \in StateType, r.audit = s.audit, r.next = s.next,
           NEW h \in Doser, NEW action \in Action, NEW amount \in Nat, NEW status \in Outcome,
           \A k \in Doser :
              /\ 0 <= r.heads[k].remaining /\ r.heads[k].remaining <= r.heads[k].container
              /\ 0 <= r.heads[k].filled /\ r.heads[k].filled <= r.heads[k].container
              /\ Accounted(k, s, r, Entry(s.next, h, action, amount, status))
    PROVE  Noted(s, Audited(r, h, action, amount, status))
<1> DEFINE e == Entry(s.next, h, action, amount, status)
           t == Audited(r, h, action, amount, status)
<1>1. /\ s \in StateType /\ Numbered(s) /\ Filled(s)
      /\ \A k \in Doser : ReachesBack(k, s) => Balanced(k, s)
      /\ s.next \in Nat \ {0}
  BY DosingAssumption DEF Books, Numbered
<1>2. e \in EntryType /\ e.id = s.next
  BY <1>1 DEF EntryType, Entry
<1>3. /\ t.heads = r.heads /\ t.failure = r.failure /\ t.next = s.next + 1
      /\ t.audit = Newer(Append(s.audit, e), AuditCap)
      /\ t = [heads |-> r.heads, audit |-> Newer(Append(s.audit, e), AuditCap),
              next |-> s.next + 1, failure |-> r.failure]
  <2>1. r = [heads |-> r.heads, audit |-> s.audit, next |-> s.next, failure |-> r.failure]
    BY DEF StateType
  <2>2. t = [r EXCEPT !.next = s.next + 1, !.audit = Newer(Append(s.audit, e), AuditCap)]
    BY <2>1 DEF Audited
  <2> HIDE DEF e, t
  <2> QED BY <2>1, <2>2
<1> HIDE DEF e, t
<1>4. Extends(s.audit, t.audit, e)
  BY <1>1, <1>2, <1>3, NewerAppend DEF Numbered
<1>5. t \in StateType
  BY <1>1, <1>3, <1>4 DEF StateType, Extends
<1>6. Numbered(t)
  BY <1>1, <1>2, <1>3, NumbersKept
<1>7. \A k \in Doser : Accounted(k, s, t, e)
  BY <1>3 DEF Accounted, e
<1>8. Filled(t)
  <2> SUFFICES ASSUME NEW k \in Doser PROVE t.heads[k].since < t.next
    BY <1>3 DEF Filled
  <2>1. s.heads[k].since < s.next /\ s.heads[k].since \in Nat
    BY <1>1 DEF Filled, StateType, HeadType
  <2>2. t.heads[k].since = s.next \/ t.heads[k].since = s.heads[k].since
    BY <1>7 DEF Accounted
  <2> QED BY <1>1, <1>3, <2>1, <2>2
<1>9. ASSUME NEW k \in Doser, ReachesBack(k, t) PROVE Balanced(k, t)
  <2>1. Accounted(k, s, t, e) /\ (ReachesBack(k, s) => Balanced(k, s))
    BY <1>1, <1>7
  <2> QED BY <1>1, <1>2, <1>3, <1>5, <1>8, <1>9, <2>1, BalanceKept DEF Accounted
<1>10. Newest(t) = e
  BY <1>4 DEF Newest, Extends
<1>11. Keeps(e, t) /\ \A f : f.id \in Nat /\ Keeps(f, s) => Keeps(f, t)
  BY <1>1, <1>2, <1>3, KeepsMore
<1> QED BY <1>2, <1>3, <1>5, <1>6, <1>8, <1>9, <1>10, <1>11 DEF Noted, Books, t

LEMMA CommitKeeps ==
    ASSUME BooksInv, NEW t, Noted(store, t), Commit(t)
    PROVE  BooksInv'
<1> DEFINE e == Newest(t)
<1>1. /\ Books(store) /\ Books(file) /\ file.next <= store.next
      /\ store.next \in Nat /\ file.next \in Nat
      /\ page \in [doser : Doser, head : HeadType] /\ faults \in 0..MaxFaults
      /\ acknowledged \subseteq EntryType
  BY DEF BooksInv, Books, StateType
<1>2. /\ Books(t) /\ t.next = store.next + 1
      /\ e \in EntryType /\ e.id = store.next /\ Keeps(e, t)
      /\ \A f : f.id \in Nat /\ Keeps(f, store) => Keeps(f, t)
  BY DEF Noted
<1>3. \A f \in acknowledged : /\ f.id \in Nat /\ f.id < file.next
                              /\ Keeps(f, store) /\ Keeps(f, file)
  BY <1>1 DEF BooksInv, EntryType, Keeps
<1>4. \A f \in acknowledged : Keeps(f, t)
  BY <1>2, <1>3
<1> HIDE DEF e
<1>5. CASE file' = t /\ acknowledged' = acknowledged \cup {Newest(t)} /\ UNCHANGED faults
  <2>1. store' = t /\ page' = page /\ acknowledged' = acknowledged \cup {e}
    BY <1>5 DEF Commit, e
  <2>2. \A f \in acknowledged : f.id # e.id
    BY <1>1, <1>2, <1>3
  <2>3. \A f, g \in acknowledged' : f.id = g.id => f = g
    BY <2>1, <2>2 DEF BooksInv
  <2>4. \A f \in acknowledged' : Keeps(f, t)
    BY <1>2, <1>4, <2>1
  <2> QED BY <1>1, <1>2, <1>5, <2>1, <2>3, <2>4 DEF BooksInv
<1>6. CASE Fault /\ UNCHANGED <<file, acknowledged>>
  <2>1. store' = t /\ UNCHANGED <<file, acknowledged, page>> /\ faults' \in 0..MaxFaults
    BY <1>1, <1>6, DosingAssumption DEF Commit, Fault
  <2>2. file.next <= t.next
    BY <1>1, <1>2
  <2> QED BY <1>1, <1>2, <1>3, <1>4, <2>1, <2>2 DEF BooksInv
<1> QED BY <1>5, <1>6 DEF Commit

LEMMA BooksInit == DosingInit => BooksInv
<1> SUFFICES ASSUME DosingInit PROVE BooksInv
  OBVIOUS
<1>1. /\ Defaults \in StateType /\ Defaults.audit = <<>> /\ Defaults.next = 1
      /\ \A h \in Doser : Defaults.heads[h] = NewHead
  BY HeadLimits DEF Defaults, StateType, Failure
<1>2. Numbered(Defaults)
  BY <1>1, DosingAssumption DEF Numbered
<1>3. Filled(Defaults)
  <2>1. ASSUME NEW h \in Doser
        PROVE  /\ Defaults.heads[h].remaining = Supply /\ Defaults.heads[h].filled = Supply
               /\ Defaults.heads[h].container = Supply /\ Defaults.heads[h].since = 0
    BY <1>1 DEF NewHead
  <2>2. Supply \in Nat /\ 0 <= Supply /\ Supply <= Supply /\ 0 < 1
    BY HeadLimits
  <2>3. ASSUME NEW h \in Doser
        PROVE  /\ 0 <= Defaults.heads[h].remaining
               /\ Defaults.heads[h].remaining <= Defaults.heads[h].container
               /\ 0 <= Defaults.heads[h].filled
               /\ Defaults.heads[h].filled <= Defaults.heads[h].container
               /\ Defaults.heads[h].since < Defaults.next
    BY <1>1, <2>1, <2>2
  <2> QED BY <2>3 DEF Filled
<1>4. ASSUME NEW h \in Doser PROVE Balanced(h, Defaults)
  <2>1. /\ [i \in 0..0 |-> Supply] \in [0..0 -> 0..Supply]
        /\ [i \in 0..0 |-> Supply][0] = Supply
        /\ \A i \in 1..0 : FALSE
    BY HeadLimits
  <2>2. /\ Len(Defaults.audit) = 0 /\ Defaults.heads[h].container = Supply
        /\ Defaults.heads[h].filled = Supply /\ Defaults.heads[h].remaining = Supply
    BY <1>1 DEF NewHead
  <2> QED BY <2>1, <2>2 DEF Balanced
<1>5. Books(Defaults)
  BY <1>1, <1>2, <1>3, <1>4 DEF Books
<1>6. page \in [doser : Doser, head : HeadType] /\ faults \in 0..MaxFaults /\ acknowledged = {}
  BY HeadLimits, DosingAssumption DEF DosingInit
<1> QED BY <1>1, <1>5, <1>6 DEF DosingInit, BooksInv

\* The armed failure is no part of the books.
LEMMA SameBooks ==
    ASSUME NEW s, NEW u, Books(s), u \in StateType,
           u.heads = s.heads, u.audit = s.audit, u.next = s.next
    PROVE  Books(u) /\ \A f : Keeps(f, s) => Keeps(f, u)
<1>1. Numbered(u) <=> Numbered(s)
  BY DEF Numbered
<1>2. Filled(u) <=> Filled(s)
  BY DEF Filled
<1>3. ASSUME NEW k \in Doser, ReachesBack(k, u) PROVE Balanced(k, u)
  <2>1. ReachesBack(k, s)
    BY <1>3 DEF ReachesBack
  <2>2. Balanced(k, s)
    BY <2>1 DEF Books
  <2> QED BY <2>2 DEF Balanced
<1>4. \A f : Keeps(f, s) => Keeps(f, u)
  BY DEF Keeps
<1> QED BY <1>1, <1>2, <1>3, <1>4 DEF Books

\* A dose, whole, partial or failed, is taken from its head and noted.
LEMMA DoseNoted ==
    ASSUME Books(store), store.next <= MaxAudit, NEW h \in Doser, NEW amount \in Amount
    PROVE  /\ store.heads[h].remaining >= amount =>
                 \A f \in Failure : Noted(store, Dose(Unarmed, h, amount, f))
           /\ Noted(store, Audited(Unarmed, h, "manual_dose", amount, "timeout"))
           /\ Books(Unarmed) /\ Unarmed.next = store.next
           /\ \A f : Keeps(f, store) => Keeps(f, Unarmed)
<1>1. /\ store \in StateType /\ Filled(store)
      /\ store = [heads |-> store.heads, audit |-> store.audit, next |-> store.next,
                  failure |-> store.failure]
      /\ store.heads \in [Doser -> HeadType]
  BY DEF Books, StateType
<1>2. /\ Unarmed \in StateType /\ Unarmed.heads = store.heads
      /\ Unarmed.audit = store.audit /\ Unarmed.next = store.next
  BY <1>1 DEF Unarmed, StateType, Failure
<1>3. Books(Unarmed) /\ \A f : Keeps(f, store) => Keeps(f, Unarmed)
  BY <1>2, SameBooks
<1>4. amount \in Nat /\ amount % 2 = 0 /\ amount \div 2 \in Nat /\ amount \div 2 <= amount
  BY DosingAssumption
<1>5. \A k \in Doser : /\ store.heads[k] \in HeadType /\ store.heads[k].container \in Nat
                       /\ store.heads[k].remaining \in Int
  BY <1>1, HeadLimits DEF HeadType
<1>6. ASSUME NEW r, r \in StateType, r.audit = store.audit, r.next = store.next,
             NEW actual \in Nat, actual <= store.heads[h].remaining,
             r.heads = [store.heads EXCEPT ![h].remaining = @ - actual],
             NEW status \in {"simulated", "partial"}
      PROVE  Noted(store, Audited(r, h, "manual_dose", actual, status))
  <2> DEFINE e == Entry(store.next, h, "manual_dose", actual, status)
  <2>0. /\ e.head = h /\ e.action = "manual_dose" /\ e.status = status /\ e.amount = actual
        /\ e.id = store.next
    BY DEF Entry
  <2> HIDE DEF e
  <2>1. ASSUME NEW k \in Doser
        PROVE  /\ 0 <= r.heads[k].remaining /\ r.heads[k].remaining <= r.heads[k].container
               /\ 0 <= r.heads[k].filled /\ r.heads[k].filled <= r.heads[k].container
               /\ Accounted(k, store, r, e)
    <3>1. /\ r.heads[k].container = store.heads[k].container
          /\ r.heads[k].filled = store.heads[k].filled
          /\ r.heads[k].since = store.heads[k].since
          /\ r.heads[k].remaining = store.heads[k].remaining - (IF k = h THEN actual ELSE 0)
      BY <1>1, <1>5, <1>6 DEF HeadType
    <3>2. Given(e, k, store.heads[k].since) = IF k = h THEN actual ELSE 0
      <4>1. store.next > store.heads[k].since
        BY <1>1 DEF Filled, StateType, HeadType
      <4> QED BY <2>0, <4>1 DEF Given
    <3>3. /\ 0 <= store.heads[k].remaining
          /\ store.heads[k].remaining <= store.heads[k].container
          /\ 0 <= store.heads[k].filled /\ store.heads[k].filled <= store.heads[k].container
      BY <1>1 DEF Filled
    <3>4. Accounted(k, store, r, e)
      BY <3>1, <3>2 DEF Accounted
    <3> QED BY <1>5, <1>6, <3>1, <3>3, <3>4
  <2>2. "manual_dose" \in Action /\ status \in Outcome
    BY DEF Action, Outcome
  <2> QED BY <1>6, <2>1, <2>2, AuditedNoted DEF e
<1>7. ASSUME store.heads[h].remaining >= amount, NEW f \in Failure
      PROVE  Noted(store, Dose(Unarmed, h, amount, f))
  <2> DEFINE actual == IF f = "partial" THEN amount \div 2 ELSE amount
             status == IF f = "partial" THEN "partial" ELSE "simulated"
             r == [Unarmed EXCEPT !.heads[h].remaining = @ - actual]
  <2>1. actual \in Nat /\ actual <= store.heads[h].remaining
    BY <1>4, <1>5, <1>7
  <2>2. Dose(Unarmed, h, amount, f) = Audited(r, h, "manual_dose", actual, status)
    BY DEF Dose
  <2>3. status \in {"simulated", "partial"}
    OBVIOUS
  <2> HIDE DEF actual, status
  <2>4. /\ r.heads = [store.heads EXCEPT ![h].remaining = @ - actual]
        /\ r.audit = store.audit /\ r.next = store.next /\ r.failure = Unarmed.failure
        /\ r = [heads |-> r.heads, audit |-> r.audit, next |-> r.next, failure |-> r.failure]
    <3> DEFINE u == Unarmed
               hs == [u.heads EXCEPT ![h].remaining = @ - actual]
    <3>1. u = [heads |-> u.heads, audit |-> u.audit, next |-> u.next, failure |-> u.failure]
      BY <1>2 DEF StateType
    <3>2. hs = [store.heads EXCEPT ![h].remaining = @ - actual]
      BY <1>2
    <3>3. r = [u EXCEPT !.heads = hs]
      BY <3>1
    <3>4. u.audit = store.audit /\ u.next = store.next /\ u.failure = Unarmed.failure
      BY <1>2
    <3> HIDE DEF u, hs, r
    <3>5. r = [heads |-> hs, audit |-> u.audit, next |-> u.next, failure |-> u.failure]
      BY <3>1, <3>3
    <3> QED BY <3>2, <3>4, <3>5
  <2>5. r.heads \in [Doser -> HeadType]
    <3>1. [store.heads[h] EXCEPT !.remaining = @ - actual] \in HeadType
      BY <1>5, <2>1 DEF HeadType
    <3> QED BY <1>1, <2>4, <3>1
  <2>6. r \in StateType
    BY <1>2, <2>4, <2>5 DEF StateType
  <2> HIDE DEF r
  <2> QED BY <1>6, <2>1, <2>2, <2>3, <2>4, <2>6
<1>8. Noted(store, Audited(Unarmed, h, "manual_dose", amount, "timeout"))
  <2> DEFINE e == Entry(store.next, h, "manual_dose", amount, "timeout")
  <2>0. e.status = "timeout"
    BY DEF Entry
  <2> HIDE DEF e
  <2>1. \A k \in Doser : Given(e, k, store.heads[k].since) = 0
    BY <2>0 DEF Given
  <2>2. \A k \in Doser : Accounted(k, store, Unarmed, e)
    <3> SUFFICES ASSUME NEW k \in Doser PROVE Accounted(k, store, Unarmed, e)
      OBVIOUS
    <3>1. store.heads[k].remaining = store.heads[k].remaining - Given(e, k, store.heads[k].since)
      BY <1>5, <2>1
    <3> QED BY <1>2, <3>1 DEF Accounted
  <2>3. "manual_dose" \in Action /\ "timeout" \in Outcome
    BY DEF Action, Outcome
  <2>4. Filled(Unarmed)
    BY <1>3 DEF Books
  <2> QED BY <1>2, <1>4, <2>2, <2>3, <2>4, AuditedNoted DEF Filled, e
<1> QED BY <1>2, <1>3, <1>7, <1>8

\* A calibration and a priming take nothing.
LEMMA CalibrationNoted ==
    ASSUME Books(store), store.next <= MaxAudit, NEW h \in Doser, NEW rate \in Rate
    PROVE  /\ Noted(store, Audited([store EXCEPT !.heads[h].rate = rate], h, "calibrate", 1,
                                   "simulated"))
           /\ Noted(store, Audited(store, h, "prime", 0, "simulated"))
<1>1. /\ store \in StateType /\ Filled(store)
      /\ store = [heads |-> store.heads, audit |-> store.audit, next |-> store.next,
                  failure |-> store.failure]
      /\ store.heads \in [Doser -> HeadType]
      /\ \A k \in Doser : store.heads[k] \in HeadType /\ store.heads[k].remaining \in Int
  BY DEF Books, StateType, HeadType
<1>2. ASSUME NEW r, r \in StateType, r.audit = store.audit, r.next = store.next,
             \A k \in Doser : /\ r.heads[k].remaining = store.heads[k].remaining
                              /\ r.heads[k].container = store.heads[k].container
                              /\ r.heads[k].filled = store.heads[k].filled
                              /\ r.heads[k].since = store.heads[k].since,
             NEW action \in {"calibrate", "prime"}, NEW amount \in Nat
      PROVE  Noted(store, Audited(r, h, action, amount, "simulated"))
  <2> DEFINE e == Entry(store.next, h, action, amount, "simulated")
  <2>0. e.action # "manual_dose"
    BY DEF Entry
  <2> HIDE DEF e
  <2>1. ASSUME NEW k \in Doser PROVE Accounted(k, store, r, e)
    <3>1. Given(e, k, store.heads[k].since) = 0
      BY <2>0 DEF Given
    <3>2. store.heads[k].remaining = store.heads[k].remaining - Given(e, k, store.heads[k].since)
      BY <1>1, <3>1
    <3> QED BY <1>2, <3>2 DEF Accounted
  <2>2. action \in Action /\ "simulated" \in Outcome
    BY DEF Action, Outcome
  <2>3. \A k \in Doser :
           /\ 0 <= r.heads[k].remaining /\ r.heads[k].remaining <= r.heads[k].container
           /\ 0 <= r.heads[k].filled /\ r.heads[k].filled <= r.heads[k].container
    BY <1>1, <1>2 DEF Filled
  <2> QED BY <1>2, <2>1, <2>2, <2>3, AuditedNoted DEF e
<1> DEFINE r == [store EXCEPT !.heads[h].rate = rate]
<1>3. /\ r.heads = [store.heads EXCEPT ![h].rate = rate]
      /\ r.audit = store.audit /\ r.next = store.next /\ r.failure = store.failure
      /\ r = [heads |-> r.heads, audit |-> r.audit, next |-> r.next, failure |-> r.failure]
  BY <1>1
<1>4. r \in StateType
  <2>1. [store.heads[h] EXCEPT !.rate = rate] \in HeadType
    BY <1>1 DEF HeadType
  <2>2. r.heads \in [Doser -> HeadType]
    BY <1>1, <1>3, <2>1
  <2> QED BY <1>1, <1>3, <2>2 DEF StateType
<1>5. ASSUME NEW k \in Doser
      PROVE  /\ r.heads[k].remaining = store.heads[k].remaining
             /\ r.heads[k].container = store.heads[k].container
             /\ r.heads[k].filled = store.heads[k].filled
             /\ r.heads[k].since = store.heads[k].since
  BY <1>1, <1>3 DEF HeadType
<1>6. Noted(store, Audited(r, h, "calibrate", 1, "simulated"))
  BY <1>2, <1>3, <1>4, <1>5
<1>7. Noted(store, Audited(store, h, "prime", 0, "simulated"))
  BY <1>1, <1>2
<1> QED BY <1>6, <1>7

\* Settings give the head the liquid that the form names.
LEMMA UpdateNoted ==
    ASSUME Books(store), store.next <= MaxAudit, NEW h \in Doser, NEW g \in HeadType,
           NEW f \in Form(g), Valid(f)
    PROVE  Noted(store, Audited([store EXCEPT !.heads[h] =
                                   [f EXCEPT !.since = store.next, !.filled = f.remaining]],
                                h, "settings", 0, "ok"))
<1>1. /\ store \in StateType /\ Filled(store)
      /\ store = [heads |-> store.heads, audit |-> store.audit, next |-> store.next,
                  failure |-> store.failure]
      /\ store.heads \in [Doser -> HeadType] /\ store.next \in Nat
      /\ \A k \in Doser : store.heads[k] \in HeadType /\ store.heads[k].remaining \in Int
  BY DEF Books, StateType, HeadType
<1>2. /\ f \in HeadType /\ f.container \in Nat /\ f.remaining \in Int
      /\ 0 <= f.remaining /\ f.remaining <= f.container
  <2>1. f \in HeadType
    <3>1. g.container \in Nat /\ g.container \in Int
      BY HeadLimits DEF HeadType
    <3> QED BY <3>1 DEF Form, HeadType, Rate
  <2> QED BY <2>1, HeadLimits DEF HeadType, Valid
<1> DEFINE set == [f EXCEPT !.since = store.next, !.filled = f.remaining]
           r == [store EXCEPT !.heads[h] = set]
           e == Entry(store.next, h, "settings", 0, "ok")
<1>3. /\ set \in HeadType /\ set.remaining = f.remaining /\ set.filled = f.remaining
      /\ set.container = f.container /\ set.since = store.next
  BY <1>1, <1>2 DEF HeadType
<1>4. e.action = "settings"
  BY DEF Entry
<1> HIDE DEF set, e
<1>5. /\ r.heads = [store.heads EXCEPT ![h] = set]
      /\ r.audit = store.audit /\ r.next = store.next /\ r.failure = store.failure
      /\ r = [heads |-> r.heads, audit |-> r.audit, next |-> r.next, failure |-> r.failure]
  BY <1>1
<1> HIDE DEF r
<1>6. r \in StateType
  <2>1. r.heads \in [Doser -> HeadType]
    BY <1>1, <1>3, <1>5
  <2> QED BY <1>1, <1>5, <2>1 DEF StateType
<1>7. ASSUME NEW k \in Doser
      PROVE  /\ 0 <= r.heads[k].remaining /\ r.heads[k].remaining <= r.heads[k].container
             /\ 0 <= r.heads[k].filled /\ r.heads[k].filled <= r.heads[k].container
             /\ Accounted(k, store, r, e)
  <2>1. CASE k = h
    BY <1>1, <1>2, <1>3, <1>5, <2>1 DEF Accounted
  <2>2. CASE k # h
    <3>1. r.heads[k] = store.heads[k]
      BY <1>1, <1>5, <2>2
    <3>2. Given(e, k, store.heads[k].since) = 0
      BY <1>4 DEF Given
    <3>3. store.heads[k].remaining = store.heads[k].remaining - Given(e, k, store.heads[k].since)
      BY <1>1, <3>2
    <3> QED BY <1>1, <3>1, <3>3 DEF Accounted, Filled
  <2> QED BY <2>1, <2>2
<1>8. "settings" \in Action /\ "ok" \in Outcome
  BY DEF Action, Outcome
<1>9. Noted(store, Audited(r, h, "settings", 0, "ok"))
  BY <1>5, <1>6, <1>7, <1>8, AuditedNoted DEF e
<1> QED BY <1>9 DEF r, set

\* What is in memory and in the file after a step that only they take part in, and
\* that loses no entry that was acknowledged.
LEMMA BooksKeep ==
    ASSUME BooksInv, UNCHANGED <<page, acknowledged>>, Books(store'), Books(file'),
           file'.next <= store'.next, faults' = faults \/ Fault,
           \A f : f.id \in Nat /\ Keeps(f, store) /\ Keeps(f, file) =>
                     Keeps(f, store') /\ Keeps(f, file')
    PROVE  BooksInv'
<1>1. faults' \in 0..MaxFaults
  BY DosingAssumption DEF BooksInv, Fault
<1>2. \A f \in acknowledged : f.id \in Nat
  BY DEF BooksInv, EntryType
<1> QED BY <1>1, <1>2 DEF BooksInv

LEMMA ManualKeeps == ASSUME BooksInv, NEW h \in Doser, Manual(h) PROVE BooksInv'
<1>1. PICK amount \in Amount :
         FailedDose(h, amount) \/ RefusedDose(h, amount) \/ ManualDose(h, amount)
  BY DEF Manual
<1>2. /\ Books(store) /\ Books(file) /\ file.next <= store.next
      /\ store.next \in Nat /\ file.next \in Nat /\ store.failure \in Failure
  BY DEF BooksInv, Books, StateType
<1>3. CASE FailedDose(h, amount)
  <2> DEFINE t == Audited(Unarmed, h, "manual_dose", amount, "timeout")
  <2>1. /\ store.next <= MaxAudit /\ store' = t /\ UNCHANGED <<page, acknowledged>>
        /\ \/ file' = t /\ UNCHANGED faults
           \/ Fault /\ UNCHANGED file
    BY <1>3 DEF FailedDose
  <2>2. Noted(store, t)
    BY <1>2, <2>1, DoseNoted
  <2> HIDE DEF t
  <2>3. Books(t) /\ t.next = store.next + 1 /\ \A f : f.id \in Nat /\ Keeps(f, store) => Keeps(f, t)
    BY <2>2 DEF Noted
  <2>4. CASE file' = t /\ UNCHANGED faults
    BY <1>2, <2>1, <2>3, <2>4, BooksKeep
  <2>5. CASE Fault /\ UNCHANGED file
    BY <1>2, <2>1, <2>3, <2>5, BooksKeep
  <2> QED BY <2>1, <2>4, <2>5
<1>4. CASE RefusedDose(h, amount)
  <2>1. store' = Unarmed /\ UNCHANGED <<file, page, acknowledged, faults>>
    BY <1>4 DEF RefusedDose
  <2>2. Books(Unarmed) /\ Unarmed.next = store.next /\ \A f : Keeps(f, store) => Keeps(f, Unarmed)
    <3>1. store = [heads |-> store.heads, audit |-> store.audit, next |-> store.next,
                   failure |-> store.failure] /\ store \in StateType
      BY <1>2 DEF Books, StateType
    <3>2. /\ Unarmed \in StateType /\ Unarmed.heads = store.heads
          /\ Unarmed.audit = store.audit /\ Unarmed.next = store.next
      BY <3>1 DEF Unarmed, StateType, Failure
    <3> QED BY <1>2, <3>2, SameBooks
  <2> QED BY <1>2, <2>1, <2>2, BooksKeep
<1>5. CASE ManualDose(h, amount)
  <2>1. /\ store.next <= MaxAudit /\ store.heads[h].remaining >= amount
        /\ Commit(Dose(Unarmed, h, amount, store.failure))
    BY <1>5 DEF ManualDose
  <2>2. Noted(store, Dose(Unarmed, h, amount, store.failure))
    BY <1>2, <2>1, DoseNoted
  <2> QED BY <2>1, <2>2, CommitKeeps
<1> QED BY <1>1, <1>3, <1>4, <1>5

LEMMA BooksStep == BooksInv /\ [DosingNext]_dosingVars => BooksInv'
<1> SUFFICES ASSUME BooksInv, [DosingNext]_dosingVars PROVE BooksInv'
  OBVIOUS
<1>0. /\ Books(store) /\ Books(file) /\ file.next <= store.next
      /\ store \in StateType /\ file \in StateType
      /\ page \in [doser : Doser, head : HeadType]
  BY DEF BooksInv, Books
<1>1. ASSUME NEW h \in Doser, Manual(h) PROVE BooksInv'
  BY <1>1, ManualKeeps
<1>2. ASSUME NEW h \in Doser, Calibrate(h) PROVE BooksInv'
  <2>1. PICK rate \in Rate :
           Commit(Audited([store EXCEPT !.heads[h].rate = rate], h, "calibrate", 1, "simulated"))
    BY <1>2 DEF Calibrate
  <2>2. store.next <= MaxAudit
    BY <1>2 DEF Calibrate
  <2> QED BY <1>0, <2>1, <2>2, CalibrationNoted, CommitKeeps
<1>3. ASSUME NEW h \in Doser, Prime(h) PROVE BooksInv'
  <2>1. Noted(store, Audited(store, h, "prime", 0, "simulated"))
    BY <1>0, <1>3, CalibrationNoted DEF Prime, Rate
  <2> QED BY <1>3, <2>1, CommitKeeps DEF Prime
<1>4. CASE Update
  <2>1. PICK f \in Form(page.head) :
           /\ Valid(f)
           /\ LET h   == page.doser
                  set == [f EXCEPT !.since = store.next, !.filled = f.remaining]
              IN Commit(Audited([store EXCEPT !.heads[h] = set], h, "settings", 0, "ok"))
    BY <1>4 DEF Update
  <2>2. page.doser \in Doser /\ page.head \in HeadType /\ store.next <= MaxAudit
    BY <1>0, <1>4 DEF Update
  <2>3. Noted(store, Audited([store EXCEPT !.heads[page.doser] =
                               [f EXCEPT !.since = store.next, !.filled = f.remaining]],
                             page.doser, "settings", 0, "ok"))
    BY <1>0, <2>1, <2>2, UpdateNoted
  <2> QED BY <2>1, <2>3, CommitKeeps
<1>5. CASE Look
  <2>1. page' \in [doser : Doser, head : HeadType]
    BY <1>0, <1>5 DEF Look, StateType
  <2> QED BY <1>5, <2>1 DEF Look, BooksInv
<1>6. CASE SetSimulator
  <2>1. PICK f \in Failure : store' = [store EXCEPT !.failure = f]
    BY <1>6 DEF SetSimulator
  <2>2. /\ store' \in StateType /\ store'.heads = store.heads
        /\ store'.audit = store.audit /\ store'.next = store.next
    <3>1. store = [heads |-> store.heads, audit |-> store.audit, next |-> store.next,
                   failure |-> store.failure]
      BY <1>0 DEF StateType
    <3> QED BY <1>0, <2>1, <3>1 DEF StateType
  <2>3. Books(store') /\ \A g : Keeps(g, store) => Keeps(g, store')
    BY <1>0, <2>2, SameBooks
  <2>4. UNCHANGED <<page, acknowledged>> /\ store'.next <= store'.next
    BY <1>0, <1>6, <2>2 DEF SetSimulator, StateType
  <2>5. CASE file' = store' /\ UNCHANGED faults
    BY <2>3, <2>4, <2>5, BooksKeep
  <2>6. CASE Fault /\ UNCHANGED file
    BY <1>0, <2>2, <2>3, <2>4, <2>6, BooksKeep
  <2> QED BY <1>6, <2>5, <2>6 DEF SetSimulator
<1>7. CASE DosingRestart
  <2>1. store' = file /\ UNCHANGED <<file, page, acknowledged, faults>>
    BY <1>7 DEF DosingRestart
  <2>2. file.next <= file.next
    BY <1>0 DEF StateType
  <2> QED BY <1>0, <2>1, <2>2, BooksKeep
<1>8. CASE UNCHANGED dosingVars
  BY <1>8 DEF dosingVars, BooksInv
<1> QED BY <1>1, <1>2, <1>3, <1>4, <1>5, <1>6, <1>7, <1>8 DEF DosingNext

LEMMA BooksHold == DosingSpec => []BooksInv
  BY BooksInit, BooksStep, PTL DEF DosingSpec

\* Heads, numbers and the audit stay within their types and their limits, for every set
\* of heads, amounts and containers and every length of the audit.
LEMMA DosingTypeCorrect == DosingSpec => []DosingTypeOK
<1>1. \A s : Books(s) => /\ s.heads \in [Doser -> HeadType]
                         /\ Len(s.audit) <= AuditCap /\ s.next \in 1..MaxAudit + 1
                         /\ s.failure \in Failure
                         /\ \A h \in Doser : 0 <= s.heads[h].remaining
                                             /\ s.heads[h].remaining <= s.heads[h].container
  BY DEF Books, StateType, Numbered, Filled
<1>2. BooksInv => DosingTypeOK
  BY <1>1 DEF BooksInv, DosingTypeOK
<1> QED BY BooksHold, <1>2, PTL

\* The liquid is accounted for (Manual, Update and calibrate of store.go), in memory and
\* in the file, however many doses, partial and failed ones, refusals, failures to save
\* and restarts there are.
THEOREM LiquidCorrect == DosingSpec => []LiquidAccounted
<1>1. BooksInv => LiquidAccounted
  BY DEF BooksInv, Books, LiquidAccounted
<1> QED BY BooksHold, <1>1, PTL

\* What was answered with 200 stays in the audit under a number of its own, until newer
\* entries push it out (save and audit of store.go).
THEOREM AcknowledgedCorrect == DosingSpec => []AcknowledgedKept
<1>1. BooksInv => AcknowledgedKept
  BY DEF BooksInv, Keeps, AcknowledgedKept
<1> QED BY BooksHold, <1>1, PTL

(***************************************************************************)
(* The hub.  Its services share nothing: a behaviour of the hub is one of  *)
(* each of them.                                                           *)
(***************************************************************************)
LEMMA ServiceSteps ==
    [HubNext]_hubVars =>
        /\ [JebaoNext]_jebaoVars /\ [CurveNext]_curveVars /\ [DosingNext]_dosingVars
        /\ [ReadingsNext]_readingsVars /\ [RecordsNext]_recordsVars /\ [TallyNext]_tallyVars
<1> SUFFICES ASSUME [HubNext]_hubVars
             PROVE  /\ [JebaoNext]_jebaoVars /\ [CurveNext]_curveVars /\ [DosingNext]_dosingVars
                    /\ [ReadingsNext]_readingsVars /\ [RecordsNext]_recordsVars
                    /\ [TallyNext]_tallyVars
  OBVIOUS
<1>1. /\ JebaoNext \/ UNCHANGED jebaoVars
      /\ CurveNext \/ UNCHANGED curveVars
      /\ DosingNext \/ UNCHANGED dosingVars
      /\ ReadingsNext \/ UNCHANGED readingsVars
      /\ RecordsNext \/ UNCHANGED recordsVars
      /\ TallyNext \/ UNCHANGED tallyVars
  BY DEF HubNext, Still, hubVars
<1> QED BY <1>1

LEMMA HubRunsServices ==
    Spec => JebaoSpec /\ CurveSpec /\ DosingSpec /\ ReadingsSpec /\ RecordsSpec /\ TallySpec
<1>1. HubInit => JebaoInit /\ CurveInit /\ DosingInit /\ ReadingsInit /\ RecordsInit /\ TallyInit
  BY DEF HubInit
<1> QED BY <1>1, ServiceSteps, PTL
        DEF Spec, JebaoSpec, CurveSpec, DosingSpec, ReadingsSpec, RecordsSpec, TallySpec

\* Every service's state is of its type, in every behaviour of the hub.
THEOREM ServicesTypeCorrect == Spec => []ServicesTypeOK
<1>1. HubInit => part \in Part
  BY DEF HubInit
<1>2. part \in Part /\ [HubNext]_hubVars => (part \in Part)'
  BY DEF HubNext, Still, hubVars
<1>3. /\ part \in Part /\ JebaoTypeOK /\ CurveTypeOK /\ DosingTypeOK /\ ReadingsTypeOK
      /\ RecordsTypeOK /\ TallyTypeOK
      => ServicesTypeOK
  BY DEF ServicesTypeOK
<1> QED BY <1>1, <1>2, <1>3, HubRunsServices, JebaoTypeCorrect, CurveTypeCorrect,
           DosingTypeCorrect, ReadingsTypeCorrect, RecordsTypeCorrect, TallyTypeCorrect, PTL
        DEF Spec

\* What the run of the hub checks of the safety of its services holds of it for every
\* value of the constants.
THEOREM ServicesCorrect ==
    Spec => /\ [](OneConversation /\ SuccessConfirmed /\ NeverResent /\ FreshIsOfThisModel)
            /\ HubTouchesOnlyAsked
            /\ [](LevelsInRange /\ BakersAgree) /\ NoJumps
            /\ [](LiquidAccounted /\ AcknowledgedKept)
            /\ MirrorMonotone /\ []FreshFromItsSource
            /\ []SeededOnce
            /\ []TallyReachesFile
BY HubRunsServices, OneConversationCorrect, SuccessCorrect, NeverResentCorrect, FreshCorrect,
   OnlyAskedCorrect, LevelsCorrect, BakersCorrect, NoJumpsCorrect, LiquidCorrect,
   AcknowledgedCorrect, MirrorCorrect, ReadingCorrect, SeededOnceCorrect, TallyCorrect, PTL
=============================================================================
