---------------------------- MODULE HubServices ----------------------------
(***************************************************************************)
(* The services of the hub that run beside the lighting, for TLC: the      *)
(* JEBAO pumps, the levels of a day, the doser's simulator, the readings   *)
(* of the tank, the water records and the counter of the lamp writes.      *)
(*                                                                         *)
(* They share neither state nor locks: main.go gives each its own store,   *)
(* file or tables.  So a behaviour of all of them is any interleaving of   *)
(* one of each, and every property is about one: a behaviour here is that  *)
(* of the service that part names, while the others stand still.           *)
(***************************************************************************)
EXTENDS JebaoPumps, LightCurve, DosingStore, TankReadings, WaterRecords, LampTally

VARIABLE part

hubVars == <<part, jebaoVars, curveVars, dosingVars, readingsVars, recordsVars, tallyVars>>

Part == {"jebao", "curve", "dosing", "readings", "records", "tally"}

HubInit ==
    /\ part \in Part
    /\ JebaoInit
    /\ part # "jebao" => \A d \in Pump : pump[d].kind = "return"
    /\ CurveInit
    /\ part # "curve" => setup = CHOOSE s \in Setup : TRUE
    /\ DosingInit
    /\ part # "dosing" => page.doser = CHOOSE h \in Doser : TRUE
    /\ ReadingsInit
    /\ part # "readings" => setting.configured
    /\ RecordsInit
    /\ part # "records" => rows = {} /\ highest = 0
    /\ TallyInit
    /\ part # "tally" => today = CHOOSE d \in LocalDate : TRUE

\* All services but the one that moves stand still.
Still(moving) ==
    /\ UNCHANGED part
    /\ moving # "jebao" => UNCHANGED jebaoVars
    /\ moving # "curve" => UNCHANGED curveVars
    /\ moving # "dosing" => UNCHANGED dosingVars
    /\ moving # "readings" => UNCHANGED readingsVars
    /\ moving # "records" => UNCHANGED recordsVars
    /\ moving # "tally" => UNCHANGED tallyVars

HubNext ==
    \/ part = "jebao" /\ JebaoNext /\ Still("jebao")
    \/ part = "curve" /\ CurveNext /\ Still("curve")
    \/ part = "dosing" /\ DosingNext /\ Still("dosing")
    \/ part = "readings" /\ ReadingsNext /\ Still("readings")
    \/ part = "records" /\ RecordsNext /\ Still("records")
    \/ part = "tally" /\ TallyNext /\ Still("tally")

\* The goroutines of a refresh and of a write go on, each step within its deadline;
\* so does the poller's, and the minutes pass.
HubFairness ==
    /\ WF_hubVars(part = "jebao" /\ RefreshStep /\ Still("jebao"))
    /\ WF_hubVars(part = "jebao" /\ ControlStep /\ Still("jebao"))
    /\ WF_hubVars(part = "readings" /\ PollerStep /\ Still("readings"))
    /\ WF_hubVars(part = "readings" /\ MinutePasses /\ Still("readings"))

Spec == HubInit /\ [][HubNext]_hubVars /\ HubFairness

ServicesTypeOK ==
    /\ part \in Part
    /\ JebaoTypeOK /\ CurveTypeOK /\ DosingTypeOK /\ ReadingsTypeOK /\ RecordsTypeOK
    /\ TallyTypeOK

-----------------------------------------------------------------------------
\* Values for TLC.
MCDelays == <<1, 2>>

Levels(w, b, c) == [x \in Channel |-> CASE x = "w" -> w [] x = "b" -> b [] x = "c" -> c]

\* A day that ends dark, and one that is bright at midnight.
MCRows ==
    {[h \in Slot |-> CASE h = 1 -> Levels(80, 100, 55) [] h = 2 -> Levels(35, 0, 1)
                       [] OTHER -> Levels(0, 1, 0)],
     [h \in Slot |-> IF h = 0 THEN Levels(90, 2, 0) ELSE Levels(3, 33, 71)]}

SiestaOff == [enabled |-> FALSE, start |-> 0, length |-> 0, depth |-> 25]

\* Siestas within a day and past midnight, one of them ending on a row.
MCSiesta == {SiestaOff} \cup
    [enabled : {TRUE}, start : {6, 17}, length : {6, 8}, depth : {25}]

MCLunar ==
    [enabled : BOOLEAN, start : {18}, end : {8}, level : {15, 100}, threshold : {2}]

RowsOnTheHour == [h \in Slot |-> h * Hour]

\* Every effect of the engine; and the pushes of an ordinary day under a full moon, with
\* a row off the hour and the preset without moonlight.
MCSetup ==
    [rows : MCRows, times : {RowsOnTheHour}, master : {0, 50, 200}, shift : {-5, 0}, pro : {TRUE},
     lit : {90}, dino : {FALSE}, siesta : MCSiesta,
     lunar : {l \in MCLunar : l.enabled \/ l.level = 15},
     acclimation : [enabled : BOOLEAN, start : {40}, days : {3}]]
    \cup
    [rows : MCRows, times : {RowsOnTheHour, [RowsOnTheHour EXCEPT ![3] = @ + 2]},
     master : {50, 100}, shift : {0}, pro : BOOLEAN, lit : {100}, dino : BOOLEAN,
     siesta : {x \in MCSiesta : x.start # 17 /\ x.length # 8},
     lunar : {l \in MCLunar : l.enabled},
     acclimation : [enabled : {FALSE}, start : {40}, days : {3}]]
=============================================================================
