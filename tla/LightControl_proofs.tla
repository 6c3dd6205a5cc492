------------------------- MODULE LightControl_proofs -------------------------
(***************************************************************************)
(* Theorems about LightControl, for every value of its constants.          *)
(***************************************************************************)
EXTENDS LightControl, TLAPS

-----------------------------------------------------------------------------
(* Types of the values that the actions build.                             *)

LEMMA Values ==
    /\ ManualLevel \subseteq Level
    /\ NoTick \in Tick /\ NoCopy \in Copy
    /\ NoArg \in Arg /\ NoSwitch \in Effects
    /\ NoOverride \in Override
<1>1. ManualLevel \subseteq Level
  BY DEF Level
<1>2. NoCopy \in Copy
  BY <1>1, LampAssumption DEF LampAssumption, NoCopy, Copy, ManualLevel
<1>3. NoTick \in Tick
  BY DEF NoTick, Tick, Source
<1>4. NoSwitch \in Effects
  BY EngineAssumption DEF EngineAssumption, NoSwitch, Effects
<1>5. NoArg \in Arg
  BY <1>2, <1>4 DEF NoArg, Arg
<1>6. NoOverride \in Override
  BY DEF Override
<1> QED
  BY <1>1, <1>2, <1>3, <1>4, <1>5, <1>6

LEMMA LampValues ==
    ASSUME LampTypeOK
    PROVE  /\ \A v \in Level \cup {NoLevel} : Hand(v) \in Lamp
           /\ \A sane \in BOOLEAN : SyncTime(sane) \in Lamp
           /\ \A w \in Copy, sane \in BOOLEAN :
                PushSchedule(w.sched, w.auto, w.manual, sane) \in Lamp
BY DEF LampTypeOK, Lamp, Hand, SyncTime, PushSchedule, Copy

LEMMA ExchangeType ==
    ASSUME LampTypeOK, NEW new \in Lamp, NEW ok \in BOOLEAN, Exchange(new, ok)
    PROVE  lamp' \in Lamp /\ faults' \in 0..MaxFaults
BY LampAssumption DEF LampAssumption, LampTypeOK, Exchange, Fault

LEMMA DoType ==
    ASSUME LampTypeOK, NEW new \in Lamp, NEW ok \in BOOLEAN, Do(new, ok)
    PROVE  LampTypeOK'
<1>1. CASE UNCHANGED lampVars
  BY <1>1 DEF LampTypeOK, lampVars
<1>2. CASE Exchange(new, ok) /\ failing' = ~ok /\ recovered' = (recovered \/ (ok /\ failing))
           /\ UNCHANGED <<link, awake>>
  <2>1. lamp' \in Lamp /\ faults' \in 0..MaxFaults
    BY <1>2, ExchangeType
  <2> QED
    BY <1>2, <2>1, Zenon DEF LampTypeOK
<1> QED
  BY <1>1, <1>2 DEF Do

LEMMA DirectType ==
    ASSUME LampTypeOK, NEW new \in Lamp, NEW ok \in BOOLEAN, Direct(new, ok)
    PROVE  LampTypeOK'
<1>1. lamp' \in Lamp /\ faults' \in 0..MaxFaults
  BY ExchangeType DEF Direct
<1> QED
  BY <1>1 DEF Direct, LampTypeOK

LEMMA StepEndsType ==
    ASSUME EngineTypeOK, StepEnds
    PROVE  /\ (at \in Place /\ tick \in Tick /\ copy \in Copy)'
           /\ (booted \in BOOLEAN)'
           /\ (cadence \in Minutes \cup {OffMinutes})'
BY Values DEF StepEnds, EngineTypeOK, Place

LEMMA MaintenanceEndsType ==
    ASSUME MaintenanceEnds
    PROVE  (at \in Place /\ copy \in Copy)'
BY Values DEF MaintenanceEnds, Place

LEMMA InitType == Init => TypeOK
<1> SUFFICES ASSUME Init PROVE TypeOK
  OBVIOUS
<1>1. LampTypeOK
  <2>1. lamp \in Lamp
    BY Values DEF Init, LampInit, Lamp
  <2>2. faults \in 0..MaxFaults
    BY LampAssumption DEF LampAssumption, Init, LampInit
  <2> QED
    BY <2>1, <2>2 DEF Init, LampInit, LampTypeOK
<1>2. EngineTypeOK
  <2>1. phase \in Phase /\ clockSane \in BOOLEAN /\ fx \in Effects
    BY EngineAssumption DEF EngineAssumption, Init, EngineInit
  <2>2. store \in Store
    BY <1>1, Values, LampAssumption DEF LampAssumption, LampTypeOK, Lamp, Init, EngineInit, Store
  <2>3. live \in BOOLEAN /\ tickNow \in BOOLEAN
    BY <2>1 DEF Init, EngineInit, EngineStart, Effects
  <2> QED
    BY <2>1, <2>2, <2>3, Values
       DEF Init, EngineInit, EngineStart, EngineTypeOK, Source, Place
<1>3. pc \in [Thread -> ThreadPlace] /\ arg \in [Thread -> Arg]
  <2>1. pc \in [Thread -> ThreadPlace]
    BY DEF Init, StartPc, ThreadPlace
  <2>2. arg \in [Thread -> Arg]
    BY Values DEF Init, StartArg, Arg
  <2> QED
    BY <2>1, <2>2
<1> QED
  BY <1>1, <1>2, <1>3, ControlAssumption DEF ControlAssumption, Init, TypeOK

-----------------------------------------------------------------------------
(* Each step of the engine keeps the types of the lamp and of the engine.  *)

LEMMA StepEndsKeeps ==
    ASSUME EngineTypeOK, StepEnds,
           UNCHANGED <<settings, reticker, overrideWas, tickNow, maintNow, hostVars, dataVars>>,
           (lastSent \in Level \cup {NoLevel})', (source \in Source)'
    PROVE  EngineTypeOK'
<1>1. /\ (at \in Place /\ tick \in Tick /\ copy \in Copy)'
      /\ (booted \in BOOLEAN)' /\ (cadence \in Minutes \cup {OffMinutes})'
  BY StepEndsType
<1> QED
  BY <1>1 DEF EngineTypeOK, settings, hostVars, dataVars

LEMMA StepGoesOn ==
    ASSUME EngineTypeOK,
           UNCHANGED <<settings, loopVars, tickNow, maintNow, hostVars, dataVars>>,
           (at \in Place /\ copy \in Copy /\ tick \in Tick /\ overrideWas \in BOOLEAN)',
           (lastSent \in Level \cup {NoLevel})', (source \in Source)'
    PROVE  EngineTypeOK'
BY DEF EngineTypeOK, settings, loopVars, hostVars, dataVars

LEMMA MaintenanceKeeps ==
    ASSUME EngineTypeOK, (at \in Place /\ copy \in Copy)',
           UNCHANGED <<settings, loopVars, stepVars, tickNow, maintNow, hostVars, dataVars>>
    PROVE  EngineTypeOK'
BY DEF EngineTypeOK, settings, loopVars, stepVars, hostVars, dataVars

LEMMA WorkingType ==
    ASSUME NEW s \in Store
    PROVE  Working(s) \in Copy
BY DEF Working, Store, Copy

LEMMA LoopType ==
    ASSUME LampTypeOK, EngineTypeOK
    PROVE  TickerFires \/ TakeTickNow \/ TakeReticker \/ DailyTimer \/ TakeMaintNow \/ Reconnected
             => LampTypeOK' /\ EngineTypeOK'
<1>1. ASSUME TickerFires PROVE LampTypeOK' /\ EngineTypeOK'
  BY <1>1 DEF TickerFires, LampTypeOK, EngineTypeOK, lampVars, loopVars, settings, stepVars,
     hostVars, dataVars, Place
<1>2. ASSUME TakeTickNow PROVE LampTypeOK' /\ EngineTypeOK'
  <2>1. tickNow' \in BOOLEAN
    BY <1>2 DEF TakeTickNow
  <2>2. LampTypeOK'
    BY <1>2, <2>1 DEF TakeTickNow, LampTypeOK, lampVars
  <2>3. EngineTypeOK'
    BY <1>2, <2>1 DEF TakeTickNow, EngineTypeOK, loopVars, settings, stepVars, hostVars, dataVars, Place
  <2> QED
    BY <2>2, <2>3
<1>3. ASSUME TakeReticker PROVE LampTypeOK' /\ EngineTypeOK'
  <2>1. reticker' \in BOOLEAN
    BY <1>3 DEF TakeReticker
  <2>2. LampTypeOK'
    BY <1>3, <2>1 DEF TakeReticker, LampTypeOK, lampVars
  <2>3. EngineTypeOK'
    BY <1>3, <2>1 DEF TakeReticker, EngineTypeOK, loopVars, settings, stepVars, hostVars, dataVars, Place
  <2> QED
    BY <2>2, <2>3
<1>4. ASSUME DailyTimer PROVE LampTypeOK' /\ EngineTypeOK'
  BY <1>4 DEF DailyTimer, LampTypeOK, EngineTypeOK, lampVars, loopVars, settings, stepVars,
     hostVars, dataVars, Place
<1>5. ASSUME TakeMaintNow PROVE LampTypeOK' /\ EngineTypeOK'
  <2>1. maintNow' \in BOOLEAN
    BY <1>5 DEF TakeMaintNow
  <2>2. LampTypeOK'
    BY <1>5, <2>1 DEF TakeMaintNow, LampTypeOK, lampVars
  <2>3. EngineTypeOK'
    BY <1>5, <2>1 DEF TakeMaintNow, EngineTypeOK, loopVars, settings, stepVars, hostVars, dataVars, Place
  <2> QED
    BY <2>2, <2>3
<1>6. ASSUME Reconnected PROVE LampTypeOK' /\ EngineTypeOK'
  <2>1. maintNow' \in BOOLEAN /\ recovered' \in BOOLEAN
    BY <1>6 DEF Reconnected
  <2>2. LampTypeOK'
    BY <1>6, <2>1 DEF Reconnected, LampTypeOK, lampVars
  <2>3. EngineTypeOK'
    BY <1>6, <2>1 DEF Reconnected, EngineTypeOK, loopVars, settings, stepVars, hostVars, dataVars, Place
  <2> QED
    BY <2>2, <2>3
<1> QED
  BY <1>1, <1>2, <1>3, <1>4, <1>5, <1>6

LEMMA StepType ==
    ASSUME LampTypeOK, EngineTypeOK
    PROVE  Step => LampTypeOK' /\ EngineTypeOK'
<1> USE DEF lampVars, stepVars
<1>1. ASSUME StepSkipped PROVE LampTypeOK' /\ EngineTypeOK'
  <2>1. LampTypeOK'
    BY <1>1 DEF StepSkipped, LampTypeOK
  <2>2. (lastSent \in Level \cup {NoLevel})' /\ (source \in Source)'
    BY <1>1 DEF StepSkipped, EngineTypeOK
  <2> QED
    BY <1>1, <2>1, <2>2, StepEndsKeeps DEF StepSkipped
<1>2. ASSUME StepRead PROVE LampTypeOK' /\ EngineTypeOK'
  <2>1. LampTypeOK'
    BY <1>2 DEF StepRead, LampTypeOK
  <2>3. tick' \in Tick
    <3>1. EngineSeesOverride => override.src \in OverrideSource
      BY DEF EngineTypeOK, EngineSeesOverride, Override, NoOverride
    <3> DEFINE seen == IF EngineSeesOverride THEN override.src ELSE "schedule"
    <3>2. seen \in Source
      BY <3>1 DEF Source
    <3>3. overrideWas \in BOOLEAN /\ live \in BOOLEAN
      BY DEF EngineTypeOK
    <3>4. tick' = [NoTick EXCEPT !.was = overrideWas, !.live = live, !.source = seen]
      BY <1>2 DEF StepRead
    <3> HIDE DEF seen
    <3> QED
      BY <3>2, <3>3, <3>4, Values DEF Tick
  <2>2. (at \in Place /\ copy \in Copy /\ tick \in Tick /\ overrideWas \in BOOLEAN)'
        /\ (lastSent \in Level \cup {NoLevel})' /\ (source \in Source)'
    BY <1>2, <2>3 DEF StepRead, EngineTypeOK, Place
  <2> QED
    BY <1>2, <2>1, <2>2, StepGoesOn DEF StepRead
<1>3. ASSUME StepCompute PROVE LampTypeOK' /\ EngineTypeOK'
  <2>1. LampTypeOK'
    BY <1>3 DEF StepCompute, LampTypeOK
  <2>3. Compute \in Level
    BY DEF Compute, EngineTypeOK, Store, Level, CurveLevel
  <2>4. OverrideActive => <<"override", tick.source>> \in Level
    BY DEF Level, OverrideLevel, OverrideActive, EngineTypeOK, Tick, Source
  <2>5. tick' \in Tick
    BY <1>3, <2>3, <2>4 DEF StepCompute, EngineTypeOK, Tick
  <2>6. overrideWas' \in BOOLEAN
    BY <1>3 DEF StepCompute, OverrideActive
  <2>2. (at \in Place /\ copy \in Copy /\ tick \in Tick /\ overrideWas \in BOOLEAN)'
        /\ (lastSent \in Level \cup {NoLevel})' /\ (source \in Source)'
    BY <1>3, <2>5, <2>6 DEF StepCompute, EngineTypeOK, Place
  <2> QED
    BY <1>3, <2>1, <2>2, StepGoesOn DEF StepCompute
<1>4. ASSUME StepRearms PROVE LampTypeOK' /\ EngineTypeOK'
  <2>1. LampTypeOK'
    BY <1>4 DEF StepRearms, LampTypeOK
  <2>2. (at \in Place /\ copy \in Copy /\ tick \in Tick /\ overrideWas \in BOOLEAN)'
        /\ (lastSent \in Level \cup {NoLevel})' /\ (source \in Source)'
    BY <1>4 DEF StepRearms, EngineTypeOK, Place, Tick
  <2> QED
    BY <1>4, <2>1, <2>2, StepGoesOn DEF StepRearms
<1>5. ASSUME StepRearmRead PROVE LampTypeOK' /\ EngineTypeOK'
  <2>1. LampTypeOK'
    BY <1>5 DEF StepRearmRead, LampTypeOK
  <2>2. (at \in Place /\ copy \in Copy /\ tick \in Tick /\ overrideWas \in BOOLEAN)'
        /\ (lastSent \in Level \cup {NoLevel})' /\ (source \in Source)'
    BY <1>5, WorkingType DEF StepRearmRead, EngineTypeOK, Place
  <2> QED
    BY <1>5, <2>1, <2>2, StepGoesOn DEF StepRearmRead
<1>6. ASSUME StepRearmSend PROVE LampTypeOK' /\ EngineTypeOK'
  <2>1. LampTypeOK'
    BY <1>6, DirectType, LampValues DEF StepRearmSend, EngineTypeOK
  <2>2. (lastSent \in Level \cup {NoLevel})' /\ (source \in Source)'
    BY <1>6 DEF StepRearmSend, EngineTypeOK
  <2> QED
    BY <1>6, <2>1, <2>2, StepEndsKeeps DEF StepRearmSend
<1>7. ASSUME StepDormant PROVE LampTypeOK' /\ EngineTypeOK'
  <2>1. LampTypeOK'
    BY <1>7 DEF StepDormant, LampTypeOK
  <2>2. (lastSent \in Level \cup {NoLevel})' /\ (source \in Source)'
    BY <1>7 DEF StepDormant, EngineTypeOK, Tick
  <2> QED
    BY <1>7, <2>1, <2>2, StepEndsKeeps DEF StepDormant
<1>8. ASSUME StepDrives PROVE LampTypeOK' /\ EngineTypeOK'
  <2>1. LampTypeOK'
    BY <1>8 DEF StepDrives, LampTypeOK
  <2>2. (at \in Place /\ copy \in Copy /\ tick \in Tick /\ overrideWas \in BOOLEAN)'
        /\ (lastSent \in Level \cup {NoLevel})' /\ (source \in Source)'
    BY <1>8 DEF StepDrives, EngineTypeOK, Place, Tick
  <2> QED
    BY <1>8, <2>1, <2>2, StepGoesOn DEF StepDrives
<1>9. ASSUME StepUnchanged PROVE LampTypeOK' /\ EngineTypeOK'
  <2>1. LampTypeOK'
    BY <1>9 DEF StepUnchanged, LampTypeOK
  <2>2. (lastSent \in Level \cup {NoLevel})' /\ (source \in Source)'
    BY <1>9 DEF StepUnchanged, EngineTypeOK, Tick
  <2> QED
    BY <1>9, <2>1, <2>2, StepEndsKeeps DEF StepUnchanged
<1>10. ASSUME StepHand PROVE LampTypeOK' /\ EngineTypeOK'
  <2>1. PICK ok \in BOOLEAN : Do(Hand(tick.out), ok) /\ tick' = [tick EXCEPT !.ok = ok]
    BY <1>10 DEF StepHand
  <2>2. LampTypeOK'
    BY <2>1, DoType, LampValues DEF EngineTypeOK, Tick
  <2>3. (at \in Place /\ copy \in Copy /\ tick \in Tick /\ overrideWas \in BOOLEAN)'
        /\ (lastSent \in Level \cup {NoLevel})' /\ (source \in Source)'
    BY <1>10, <2>1 DEF StepHand, EngineTypeOK, Place, Tick
  <2> QED
    BY <1>10, <2>2, <2>3, StepGoesOn DEF StepHand
<1>11. ASSUME StepBook PROVE LampTypeOK' /\ EngineTypeOK'
  <2>1. LampTypeOK'
    BY <1>11 DEF StepBook, LampTypeOK
  <2>2. (lastSent \in Level \cup {NoLevel})' /\ (source \in Source)'
    BY <1>11 DEF StepBook, EngineTypeOK, Tick
  <2> QED
    BY <1>11, <2>1, <2>2, StepEndsKeeps DEF StepBook
<1> QED
  BY <1>1, <1>2, <1>3, <1>4, <1>5, <1>6, <1>7, <1>8, <1>9, <1>10, <1>11 DEF Step

LEMMA MaintenanceType ==
    ASSUME LampTypeOK, EngineTypeOK
    PROVE  Maintenance => LampTypeOK' /\ EngineTypeOK'
<1> USE DEF lampVars
<1>1. ASSUME SyncClock PROVE LampTypeOK' /\ EngineTypeOK'
  <2>1. LampTypeOK'
    BY <1>1, DoType, LampValues DEF SyncClock, LampTypeOK, EngineTypeOK
  <2>2. (at \in Place /\ copy \in Copy)'
    BY <1>1, MaintenanceEndsType, WorkingType DEF SyncClock, EngineTypeOK, Place
  <2> QED
    BY <1>1, <2>1, <2>2, MaintenanceKeeps DEF SyncClock
<1>2. ASSUME DriftSnapshot PROVE LampTypeOK' /\ EngineTypeOK'
  <2>1. LampTypeOK'
    BY <1>2 DEF DriftSnapshot, LampTypeOK, EngineTypeOK
  <2>2. (at \in Place /\ copy \in Copy)'
    BY <1>2, MaintenanceEndsType, WorkingType DEF DriftSnapshot, EngineTypeOK, Place
  <2> QED
    BY <1>2, <2>1, <2>2, MaintenanceKeeps DEF DriftSnapshot
<1>3. ASSUME DriftCompare PROVE LampTypeOK' /\ EngineTypeOK'
  <2>1. LampTypeOK'
    BY <1>3, DoType DEF DriftCompare, LampTypeOK, EngineTypeOK
  <2>2. (at \in Place /\ copy \in Copy)'
    BY <1>3, MaintenanceEndsType, WorkingType DEF DriftCompare, EngineTypeOK, Place
  <2> QED
    BY <1>3, <2>1, <2>2, MaintenanceKeeps DEF DriftCompare
<1>4. ASSUME DriftRepushRead PROVE LampTypeOK' /\ EngineTypeOK'
  <2>1. LampTypeOK'
    BY <1>4 DEF DriftRepushRead, LampTypeOK, EngineTypeOK
  <2>2. (at \in Place /\ copy \in Copy)'
    BY <1>4, MaintenanceEndsType, WorkingType DEF DriftRepushRead, EngineTypeOK, Place
  <2> QED
    BY <1>4, <2>1, <2>2, MaintenanceKeeps DEF DriftRepushRead
<1>5. ASSUME DriftRepushSend PROVE LampTypeOK' /\ EngineTypeOK'
  <2>1. LampTypeOK'
    BY <1>5, DirectType, LampValues DEF DriftRepushSend, LampTypeOK, EngineTypeOK
  <2>2. (at \in Place /\ copy \in Copy)'
    BY <1>5, MaintenanceEndsType, WorkingType DEF DriftRepushSend, EngineTypeOK, Place
  <2> QED
    BY <1>5, <2>1, <2>2, MaintenanceKeeps DEF DriftRepushSend
<1> QED
  BY <1>1, <1>2, <1>3, <1>4, <1>5 DEF Maintenance

-----------------------------------------------------------------------------
(* Each step of a request keeps all types.                                 *)

LEMMA EngineKept ==
    ASSUME EngineTypeOK, UNCHANGED <<engineVars, hostVars, dataVars>>
    PROVE  EngineTypeOK'
BY DEF EngineTypeOK, engineVars, loopVars, settings, stepVars, hostVars, dataVars

LEMMA LampKept ==
    ASSUME LampTypeOK, UNCHANGED lampVars
    PROVE  LampTypeOK'
BY DEF LampTypeOK, lampVars

(* What a request does to its own place and its own locals. *)
ThreadTypeOK == pc \in [Thread -> ThreadPlace] /\ arg \in [Thread -> Arg]

LEMMA ThreadKept ==
    ASSUME ThreadTypeOK, NEW t \in Thread, NEW place \in ThreadPlace,
           pc' = [pc EXCEPT ![t] = place],
           \/ UNCHANGED arg
           \/ \E a \in Arg : arg' = [arg EXCEPT ![t] = a]
    PROVE  ThreadTypeOK'
BY DEF ThreadTypeOK

LEMMA SendType ==
    ASSUME TypeOK, NEW t \in Thread
    PROVE  Send(arg[t].work) \in Lamp
BY LampValues DEF TypeOK, EngineTypeOK, Send, Arg

LEMMA RequestLampType ==
    ASSUME TypeOK, NEW t \in Thread
    PROVE  RequestStep(t) => LampTypeOK'
<1> USE DEF TypeOK
<1>1. ASSUME RampRead(t) PROVE LampTypeOK'
  BY <1>1, LampKept DEF RampRead
<1>2. ASSUME SetLive(t) PROVE LampTypeOK'
  BY <1>2, LampKept DEF SetLive
<1>3. ASSUME LiveKick(t) PROVE LampTypeOK'
  BY <1>3, LampKept DEF LiveKick
<1>4. ASSUME SetInterval(t) PROVE LampTypeOK'
  BY <1>4, LampKept DEF SetInterval
<1>5. ASSUME Retick(t) PROVE LampTypeOK'
  BY <1>5, LampKept DEF Retick
<1>6. ASSUME RampAfter(t) PROVE LampTypeOK'
  BY <1>6, LampKept DEF RampAfter
<1>7. ASSUME Republish(t) PROVE LampTypeOK'
  BY <1>7, LampKept DEF Republish
<1>8. ASSUME RepublishSend(t) PROVE LampTypeOK'
  BY <1>8, SendType, DirectType DEF RepublishSend
<1>9. ASSUME Kick(t) PROVE LampTypeOK'
  BY <1>9, LampKept DEF Kick
<1>10. ASSUME ClearOverride(t) PROVE LampTypeOK'
  BY <1>10, LampKept DEF ClearOverride, SetOverride
<1>11. ASSUME PushSend(t) PROVE LampTypeOK'
  BY <1>11, SendType, DirectType DEF PushSend
<1>12. ASSUME PushSave(t) PROVE LampTypeOK'
  BY <1>12, LampKept DEF PushSave
<1>13. ASSUME HandSave(t) PROVE LampTypeOK'
  BY <1>13, LampKept DEF HandSave
<1>14. ASSUME ReadSave(t) PROVE LampTypeOK'
  BY <1>14, LampKept DEF ReadSave
<1>15. ASSUME SessionRead(t) PROVE LampTypeOK'
  BY <1>15, DoType DEF SessionRead, LampTypeOK
<1> QED
  BY <1>1, <1>2, <1>3, <1>4, <1>5, <1>6, <1>7, <1>8, <1>9, <1>10, <1>11, <1>12, <1>13, <1>14, <1>15 DEF RequestStep

LEMMA RequestEngineType ==
    ASSUME TypeOK, NEW t \in Thread
    PROVE  RequestStep(t) => EngineTypeOK'
<1> USE DEF TypeOK
<1>1. ASSUME RampRead(t) PROVE EngineTypeOK'
  BY <1>1, EngineKept DEF RampRead
<1>2. ASSUME SetLive(t) PROVE EngineTypeOK'
  BY <1>2 DEF SetLive, EngineTypeOK, engineVars, EngineElse, loopVars, settings, stepVars, hostVars, dataVars, Arg, Effects
<1>3. ASSUME LiveKick(t) PROVE EngineTypeOK'
  BY <1>3 DEF LiveKick, EngineTypeOK, engineVars, EngineElse, loopVars, settings, stepVars, hostVars, dataVars
<1>4. ASSUME SetInterval(t) PROVE EngineTypeOK'
  BY <1>4 DEF SetInterval, EngineTypeOK, engineVars, EngineElse, loopVars, settings, stepVars, hostVars, dataVars, Arg, Effects, Cadence
<1>5. ASSUME Retick(t) PROVE EngineTypeOK'
  BY <1>5 DEF Retick, EngineTypeOK, engineVars, EngineElse, loopVars, settings, stepVars, hostVars, dataVars
<1>6. ASSUME RampAfter(t) PROVE EngineTypeOK'
  BY <1>6, EngineKept DEF RampAfter
<1>7. ASSUME Republish(t) PROVE EngineTypeOK'
  BY <1>7, EngineKept DEF Republish
<1>8. ASSUME RepublishSend(t) PROVE EngineTypeOK'
  BY <1>8, EngineKept DEF RepublishSend
<1>9. ASSUME Kick(t) PROVE EngineTypeOK'
  BY <1>9 DEF Kick, EngineTypeOK, engineVars, EngineElse, loopVars, settings, stepVars, hostVars, dataVars
<1>10. ASSUME ClearOverride(t) PROVE EngineTypeOK'
  BY <1>10, Values DEF ClearOverride, EngineTypeOK, engineVars, EngineElse, loopVars, settings, stepVars, hostVars, dataVars, SetOverride
<1>11. ASSUME PushSend(t) PROVE EngineTypeOK'
  BY <1>11, EngineKept DEF PushSend
<1>a. ASSUME store' \in Store, UNCHANGED <<engineVars, hostVars, fx>> PROVE EngineTypeOK'
  BY <1>a DEF EngineTypeOK, engineVars, loopVars, settings, stepVars, hostVars
<1>b. store \in Store /\ arg[t].work \in Copy
  BY DEF EngineTypeOK, Arg
<1>12. ASSUME PushSave(t) PROVE EngineTypeOK'
  <2>1. store' \in Store
    BY <1>12, <1>b DEF PushSave, Copy, Store
  <2> QED BY <1>12, <1>a, <2>1 DEF PushSave
<1>13. ASSUME HandSave(t) PROVE EngineTypeOK'
  <2>1. store' \in Store
    BY <1>13, <1>b, Values DEF HandSave, Store, ManualLevel
  <2> QED BY <1>13, <1>a, <2>1 DEF HandSave
<1>14. ASSUME ReadSave(t) PROVE EngineTypeOK'
  <2>1. store' \in Store
    BY <1>14, <1>b DEF ReadSave, Copy, Store
  <2> QED BY <1>14, <1>a, <2>1 DEF ReadSave
<1>15. ASSUME SessionRead(t) PROVE EngineTypeOK'
  BY <1>15, EngineKept DEF SessionRead
<1> QED
  BY <1>1, <1>2, <1>3, <1>4, <1>5, <1>6, <1>7, <1>8, <1>9, <1>10, <1>11, <1>12, <1>13, <1>14, <1>15 DEF RequestStep

LEMMA RequestThreadType ==
    ASSUME TypeOK, NEW t \in Thread
    PROVE  RequestStep(t) => ThreadTypeOK'
<1> USE DEF TypeOK
<1>0. ThreadTypeOK /\ arg[t] \in Arg
  BY DEF ThreadTypeOK
<1>1. ASSUME RampRead(t) PROVE ThreadTypeOK'
  <2>1. [arg[t] EXCEPT !.ramp = fx] \in Arg
    BY <1>0, WorkingType, Values DEF Arg, EngineTypeOK
  <2> QED
    BY <1>1, <2>1, <1>0, ThreadKept DEF RampRead, Move, ThreadPlace, ThreadTypeOK
<1>2. ASSUME SetLive(t) PROVE ThreadTypeOK'
  BY <1>2, <1>0, ThreadKept, Values DEF SetLive, Move, Finish, ThreadPlace
<1>3. ASSUME LiveKick(t) PROVE ThreadTypeOK'
  BY <1>3, <1>0, ThreadKept, Values DEF LiveKick, Move, Finish, ThreadPlace
<1>4. ASSUME SetInterval(t) PROVE ThreadTypeOK'
  <2>1. [arg[t] EXCEPT !.ramp = NoSwitch] \in Arg
    BY <1>0, WorkingType, Values DEF Arg, EngineTypeOK
  <2> QED
    BY <1>4, <2>1, <1>0, ThreadKept DEF SetInterval, Move, ThreadPlace, ThreadTypeOK
<1>5. ASSUME Retick(t) PROVE ThreadTypeOK'
  BY <1>5, <1>0, ThreadKept, Values DEF Retick, Move, Finish, ThreadPlace
<1>6. ASSUME RampAfter(t) PROVE ThreadTypeOK'
  BY <1>6, <1>0, ThreadKept, Values DEF RampAfter, Move, Finish, ThreadPlace
<1>7. ASSUME Republish(t) PROVE ThreadTypeOK'
  <2>1. [arg[t] EXCEPT !.work = Working(store)] \in Arg
    BY <1>0, WorkingType, Values DEF Arg, EngineTypeOK
  <2> QED
    BY <1>7, <2>1, <1>0, ThreadKept DEF Republish, Move, ThreadPlace, ThreadTypeOK
<1>8. ASSUME RepublishSend(t) PROVE ThreadTypeOK'
  BY <1>8, <1>0, ThreadKept, Values DEF RepublishSend, Move, Finish, ThreadPlace
<1>9. ASSUME Kick(t) PROVE ThreadTypeOK'
  BY <1>9, <1>0, ThreadKept, Values DEF Kick, Move, Finish, ThreadPlace
<1>10. ASSUME ClearOverride(t) PROVE ThreadTypeOK'
  BY <1>10, <1>0, ThreadKept, Values DEF ClearOverride, SetOverride, Move, Finish, ThreadPlace
<1>11. ASSUME PushSend(t) PROVE ThreadTypeOK'
  BY <1>11, <1>0, ThreadKept, Values DEF PushSend, Move, Finish, ThreadPlace
<1>12. ASSUME PushSave(t) PROVE ThreadTypeOK'
  BY <1>12, <1>0, ThreadKept, Values DEF PushSave, Move, Finish, ThreadPlace
<1>13. ASSUME HandSave(t) PROVE ThreadTypeOK'
  BY <1>13, <1>0, ThreadKept, Values DEF HandSave, Move, Finish, ThreadPlace
<1>14. ASSUME ReadSave(t) PROVE ThreadTypeOK'
  BY <1>14, <1>0, ThreadKept, Values DEF ReadSave, Move, Finish, ThreadPlace
<1>15. ASSUME SessionRead(t) PROVE ThreadTypeOK'
  BY <1>15, <1>0, ThreadKept, Values DEF SessionRead, Move, Finish, ThreadPlace
<1> QED
  BY <1>1, <1>2, <1>3, <1>4, <1>5, <1>6, <1>7, <1>8, <1>9, <1>10, <1>11, <1>12, <1>13, <1>14, <1>15 DEF RequestStep

LEMMA NewRequestType ==
    ASSUME TypeOK, NEW c \in Client
    PROVE  NewRequest(c) => LampTypeOK' /\ EngineTypeOK' /\ ThreadTypeOK'
<1> USE DEF TypeOK
<1>0. ThreadTypeOK /\ arg[c] \in Arg /\ c \in Thread
  BY DEF ThreadTypeOK, Thread
<1>1. ASSUME RampStart(c) PROVE LampTypeOK' /\ EngineTypeOK' /\ ThreadTypeOK'
  <2>1. LampTypeOK'
    BY <1>1, LampKept DEF RampStart, RampSave
  <2>2. EngineTypeOK'
    BY <1>1 DEF RampStart, RampSave, EngineTypeOK, engineVars, EngineElse, loopVars, settings, stepVars, hostVars, dataVars, Effects
  <2>3. [arg[c] EXCEPT !.goal = "start"] \in Arg
    BY <1>0 DEF Arg
  <2>4. ThreadTypeOK'
    BY <1>1, <1>0, <2>3, ThreadKept DEF RampStart, RampSave, ThreadPlace, ThreadTypeOK
  <2> QED
    BY <2>1, <2>2, <2>4
<1>2. ASSUME RampStop(c) PROVE LampTypeOK' /\ EngineTypeOK' /\ ThreadTypeOK'
  <2>1. LampTypeOK'
    BY <1>2, LampKept DEF RampStop, RampSave
  <2>2. EngineTypeOK'
    BY ZenonT(40), <1>2 DEF RampStop, RampSave, EngineTypeOK, engineVars, EngineElse, loopVars, settings, stepVars, hostVars, dataVars, Effects
  <2>3. [arg[c] EXCEPT !.goal = "stop"] \in Arg
    BY <1>0 DEF Arg
  <2>4. ThreadTypeOK'
    BY <1>2, <1>0, <2>3, ThreadKept DEF RampStop, RampSave, ThreadPlace, ThreadTypeOK
  <2> QED
    BY <2>1, <2>2, <2>4
<1>3. ASSUME RampConfig(c) PROVE LampTypeOK' /\ EngineTypeOK' /\ ThreadTypeOK'
  <2>1. LampTypeOK'
    BY <1>3, LampKept DEF RampConfig, RampSave
  <2>2. EngineTypeOK'
    BY <1>3 DEF RampConfig, RampSave, EngineTypeOK, engineVars, EngineElse, loopVars, settings, stepVars, hostVars, dataVars, Effects
  <2>3. [arg[c] EXCEPT !.goal = "config"] \in Arg
    BY <1>0 DEF Arg
  <2>4. ThreadTypeOK'
    BY <1>3, <1>0, <2>3, ThreadKept DEF RampConfig, RampSave, ThreadPlace, ThreadTypeOK
  <2> QED
    BY <2>1, <2>2, <2>4
<1>4. ASSUME KickRequest(c) PROVE LampTypeOK' /\ EngineTypeOK' /\ ThreadTypeOK'
  <2>1. LampTypeOK'
    BY <1>4, LampKept DEF KickRequest
  <2>2. EngineTypeOK'
    BY <1>4, EngineKept DEF KickRequest
  <2>4. ThreadTypeOK'
    BY <1>4, <1>0, ThreadKept DEF KickRequest, ThreadPlace
  <2> QED
    BY <2>1, <2>2, <2>4
<1>5. ASSUME FeedStart(c) PROVE LampTypeOK' /\ EngineTypeOK' /\ ThreadTypeOK'
  <2>1. LampTypeOK'
    BY <1>5, LampKept DEF FeedStart, SetOverride
  <2>2. EngineTypeOK'
    BY <1>5 DEF FeedStart, SetOverride, EngineTypeOK, engineVars, EngineElse, loopVars, settings, stepVars, hostVars, dataVars, Override, OverrideSource
  <2>4. ThreadTypeOK'
    BY <1>5, <1>0, ThreadKept DEF FeedStart, SetOverride, ThreadPlace
  <2> QED
    BY <2>1, <2>2, <2>4
<1>6. ASSUME FeedStop(c) PROVE LampTypeOK' /\ EngineTypeOK' /\ ThreadTypeOK'
  <2>1. LampTypeOK'
    BY <1>6, LampKept DEF FeedStop, StopOverride
  <2>2. EngineTypeOK'
    BY <1>6, EngineKept DEF FeedStop, StopOverride
  <2>4. ThreadTypeOK'
    BY <1>6, <1>0, ThreadKept DEF FeedStop, StopOverride, ThreadPlace
  <2> QED
    BY <2>1, <2>2, <2>4
<1>7. ASSUME MaintenanceStart(c) PROVE LampTypeOK' /\ EngineTypeOK' /\ ThreadTypeOK'
  <2>1. LampTypeOK'
    BY <1>7, LampKept DEF MaintenanceStart, SetOverride
  <2>2. EngineTypeOK'
    BY <1>7 DEF MaintenanceStart, SetOverride, EngineTypeOK, engineVars, EngineElse, loopVars, settings, stepVars, hostVars, dataVars, Override, OverrideSource
  <2>4. ThreadTypeOK'
    BY <1>7, <1>0, ThreadKept DEF MaintenanceStart, SetOverride, ThreadPlace
  <2> QED
    BY <2>1, <2>2, <2>4
<1>8. ASSUME MaintenanceStop(c) PROVE LampTypeOK' /\ EngineTypeOK' /\ ThreadTypeOK'
  <2>1. LampTypeOK'
    BY <1>8, LampKept DEF MaintenanceStop, StopOverride
  <2>2. EngineTypeOK'
    BY <1>8, EngineKept DEF MaintenanceStop, StopOverride
  <2>4. ThreadTypeOK'
    BY <1>8, <1>0, ThreadKept DEF MaintenanceStop, StopOverride, ThreadPlace
  <2> QED
    BY <2>1, <2>2, <2>4
<1>9. ASSUME Push(c) PROVE LampTypeOK' /\ EngineTypeOK' /\ ThreadTypeOK'
  <2>1. LampTypeOK'
    BY <1>9, LampKept DEF Push
  <2>2. EngineTypeOK'
    BY <1>9, EngineKept DEF Push
  <2>3. PICK s \in Schedule, auto \in Modes :
          arg' = [arg EXCEPT ![c].work = [sched |-> s, auto |-> auto, manual |-> <<"manual">>]]
    BY <1>9 DEF Push
  <2>5. [arg[c] EXCEPT !.work = [sched |-> s, auto |-> auto, manual |-> <<"manual">>]] \in Arg
    BY <1>0, Values, ControlAssumption DEF ControlAssumption, Arg, Copy, ManualLevel
  <2>4. ThreadTypeOK'
    BY <1>9, <1>0, <2>3, <2>5, ThreadKept DEF Push, ThreadPlace, ThreadTypeOK
  <2> QED
    BY <2>1, <2>2, <2>4
<1>10. ASSUME HandRequest(c) PROVE LampTypeOK' /\ EngineTypeOK' /\ ThreadTypeOK'
  <2>1. LampTypeOK'
    BY <1>10, Values, LampValues, DirectType DEF HandRequest, ManualLevel
  <2>2. EngineTypeOK'
    BY <1>10, EngineKept DEF HandRequest
  <2>4. ThreadTypeOK'
    BY <1>10, <1>0, ThreadKept DEF HandRequest, ThreadPlace
  <2> QED
    BY <2>1, <2>2, <2>4
<1>11. ASSUME ReadLamp(c) PROVE LampTypeOK' /\ EngineTypeOK' /\ ThreadTypeOK'
  <2>1. LampTypeOK'
    BY <1>11, LampKept DEF ReadLamp
  <2>2. EngineTypeOK'
    BY <1>11, EngineKept DEF ReadLamp
  <2>3. [arg[c] EXCEPT !.work = Working(lamp)] \in Arg
    BY <1>0 DEF Arg, Working, Copy, LampTypeOK, Lamp
  <2>4. ThreadTypeOK'
    BY <1>11, <1>0, <2>3, ThreadKept DEF ReadLamp, ThreadPlace, ThreadTypeOK
  <2> QED
    BY <2>1, <2>2, <2>4
<1>12. ASSUME SessionOpen(c) PROVE LampTypeOK' /\ EngineTypeOK' /\ ThreadTypeOK'
  <2>1. LampTypeOK'
    BY <1>12 DEF SessionOpen, Touch, LampTypeOK
  <2>2. EngineTypeOK'
    BY <1>12, EngineKept DEF SessionOpen
  <2>4. ThreadTypeOK'
    BY <1>12, <1>0, ThreadKept DEF SessionOpen, ThreadPlace
  <2> QED
    BY <2>1, <2>2, <2>4
<1>13. ASSUME SessionClose(c) PROVE LampTypeOK' /\ EngineTypeOK' /\ ThreadTypeOK'
  <2>1. LampTypeOK'
    BY <1>13 DEF SessionClose, Sleep, LampTypeOK
  <2>2. EngineTypeOK'
    BY <1>13, EngineKept DEF SessionClose
  <2>4. ThreadTypeOK'
    BY <1>13 DEF SessionClose, clientVars, ThreadTypeOK
  <2> QED
    BY <2>1, <2>2, <2>4
<1> QED
  BY <1>1, <1>2, <1>3, <1>4, <1>5, <1>6, <1>7, <1>8, <1>9, <1>10, <1>11, <1>12, <1>13 DEF NewRequest

LEMMA EnvironmentType ==
    ASSUME TypeOK
    PROVE  Environment => TypeOK'
<1> USE DEF TypeOK
<1>1. ASSUME TimePasses PROVE LampTypeOK' /\ EngineTypeOK'
  BY <1>1, LampKept DEF TimePasses, EngineTypeOK, engineVars, loopVars, settings, stepVars, dataVars
<1>2. ASSUME ClockSet PROVE LampTypeOK' /\ EngineTypeOK'
  <2>1. override' \in Override
    BY <1>2, Values DEF ClockSet, EngineTypeOK, Override, NoOverride
  <2>2. clockSane' \in BOOLEAN
    BY <1>2 DEF ClockSet
  <2> QED
    BY <1>2, <2>1, <2>2, LampKept DEF ClockSet, EngineTypeOK, loopVars, stepVars, dataVars
<1>3. ASSUME OverrideExpires PROVE LampTypeOK' /\ EngineTypeOK'
  <2>1. override' \in Override
    BY <1>3, Values DEF OverrideExpires, EngineTypeOK, Override, NoOverride
  <2> QED
    BY <1>3, <2>1, LampKept DEF OverrideExpires, EngineTypeOK, loopVars, stepVars, hostVars, dataVars
<1>4. ASSUME DemandExpires \/ LinkDown \/ LinkUp \/ PowerCycle PROVE LampTypeOK'
  <2>1. faults' \in 0..MaxFaults
    BY <1>4, LampAssumption DEF LampAssumption, DemandExpires, Sleep, LinkDown, LinkUp, PowerCycle,
       Fault, LampTypeOK
  <2>2. lamp' \in Lamp
    BY <1>4 DEF DemandExpires, Sleep, LinkDown, LinkUp, PowerCycle, LampTypeOK, Lamp
  <2>3. link' \in BOOLEAN /\ awake' \in BOOLEAN
    BY <1>4, Zenon DEF DemandExpires, Sleep, LinkDown, LinkUp, PowerCycle, LampTypeOK
  <2>4. UNCHANGED <<failing, recovered>>
    BY <1>4 DEF DemandExpires, Sleep, LinkDown, LinkUp, PowerCycle
  <2> QED
    BY <2>1, <2>2, <2>3, <2>4 DEF LampTypeOK
<1>5. ASSUME UNCHANGED <<engineVars, hostVars, dataVars>> PROVE EngineTypeOK'
  BY <1>5, EngineKept
<1> QED
  BY <1>1, <1>2, <1>3, <1>4, <1>5, LampKept DEF Environment, clientVars

LEMMA RestartType ==
    ASSUME TypeOK
    PROVE  Restart => TypeOK'
<1> SUFFICES ASSUME Restart PROVE TypeOK'
  OBVIOUS
<1>1. LampTypeOK'
  BY DEF Restart, TypeOK, LampTypeOK
<1>2. EngineTypeOK'
  <2>1. live' \in BOOLEAN
    BY DEF Restart, TypeOK, EngineTypeOK, Effects
  <2> QED
    BY <2>1, Values DEF Restart, TypeOK, EngineTypeOK, hostVars, dataVars, Source, Place
<1>3. pc' \in [Thread -> ThreadPlace]
  BY DEF Restart, StartPc, ThreadPlace
<1>4. arg' \in [Thread -> Arg]
  BY Values DEF Restart, StartArg, Arg
<1>5. restarts' \in 0..MaxRestarts
  BY ControlAssumption DEF ControlAssumption, Restart, TypeOK
<1> QED
  BY <1>1, <1>2, <1>3, <1>4, <1>5 DEF TypeOK

-----------------------------------------------------------------------------
(* Every variable keeps its type, whatever the number of clients, the      *)
(* requests they make and the faults that happen.                          *)
THEOREM TypeCorrect == Spec => []TypeOK
<1>1. TypeOK /\ [Next]_vars => TypeOK'
  <2> SUFFICES ASSUME TypeOK, [Next]_vars PROVE TypeOK'
    OBVIOUS
  <2>1. ASSUME Engine PROVE TypeOK'
    <3>1. LampTypeOK' /\ EngineTypeOK'
      BY <2>1, LoopType, StepType, MaintenanceType DEF Engine, EngineNext, TypeOK
    <3> QED
      BY <2>1, <3>1 DEF Engine, clientVars, TypeOK
  <2>2. ASSUME NEW c \in Client, NewRequest(c) PROVE TypeOK'
    <3>1. UNCHANGED restarts
      BY <2>2 DEF NewRequest, RampStart, RampStop, RampConfig, RampSave, KickRequest, FeedStart,
         FeedStop, MaintenanceStart, MaintenanceStop, SetOverride, StopOverride, Push,
         HandRequest, ReadLamp, SessionOpen, SessionClose
    <3> QED
      BY <2>2, <3>1, NewRequestType DEF TypeOK, ThreadTypeOK
  <2>3. ASSUME NEW t \in Thread, RequestStep(t) PROVE TypeOK'
    <3>1. UNCHANGED restarts
      BY <2>3 DEF RequestStep, RampRead, SetLive, LiveKick, SetInterval, Retick, RampAfter,
         Republish, RepublishSend, Kick, ClearOverride, SetOverride, PushSend, PushSave,
         HandSave, ReadSave, SessionRead
    <3> QED
      BY <2>3, <3>1, RequestLampType, RequestEngineType, RequestThreadType DEF TypeOK, ThreadTypeOK
  <2>4. ASSUME UNCHANGED vars PROVE TypeOK'
    BY <2>4, LampKept, EngineKept DEF vars, clientVars, TypeOK
  <2> QED
    BY <2>1, <2>2, <2>3, <2>4, EnvironmentType, RestartType DEF Next
<1> QED
  BY <1>1, InitType, PTL DEF Spec

-----------------------------------------------------------------------------
(* The cadence.  CadenceFollowsInterval is inductive by itself: only       *)
(* SetInterval makes the two differ, and it stands before Retick until the *)
(* channel holds the wake-up.                                              *)

LEMMA CadenceKept ==
    ASSUME CadenceFollowsInterval, UNCHANGED <<loopVars, interval>>,
           \A t \in Thread : pc[t] = "retick" => pc'[t] = "retick"
    PROVE  CadenceFollowsInterval'
BY DEF CadenceFollowsInterval, loopVars

LEMMA CadenceEngine ==
    ASSUME CadenceFollowsInterval
    PROVE  Engine => CadenceFollowsInterval'
<1>1. ASSUME TakeReticker PROVE CadenceFollowsInterval'
  BY <1>1 DEF TakeReticker, CadenceFollowsInterval, settings
<1>2. ASSUME StepEnds, UNCHANGED <<settings, reticker, pc>> PROVE CadenceFollowsInterval'
  BY <1>2 DEF StepEnds, CadenceFollowsInterval, settings
<1>3. ASSUME UNCHANGED <<settings, loopVars, pc>> PROVE CadenceFollowsInterval'
  BY <1>3, CadenceKept DEF settings
<1>4. ASSUME TickerFires \/ TakeTickNow \/ DailyTimer \/ TakeMaintNow \/ Reconnected
      PROVE  UNCHANGED <<settings, loopVars>>
  BY <1>4 DEF TickerFires, TakeTickNow, DailyTimer, TakeMaintNow, Reconnected
<1>5. ASSUME Step
      PROVE  UNCHANGED <<settings, loopVars>> \/ (StepEnds /\ UNCHANGED <<settings, reticker>>)
  BY <1>5 DEF Step, StepSkipped, StepRead, StepCompute, StepRearms, StepRearmRead, StepRearmSend,
     StepDormant, StepDrives, StepUnchanged, StepHand, StepBook
<1>6. ASSUME Maintenance PROVE UNCHANGED <<settings, loopVars>>
  BY <1>6 DEF Maintenance, SyncClock, DriftSnapshot, DriftCompare, DriftRepushRead, DriftRepushSend
<1> QED
  BY <1>1, <1>2, <1>3, <1>4, <1>5, <1>6 DEF Engine, EngineNext, clientVars

LEMMA CadenceRequests ==
    ASSUME TypeOK, CadenceFollowsInterval, NEW t \in Thread
    PROVE  RequestStep(t) => CadenceFollowsInterval'
<1> USE DEF TypeOK, Move, Finish
<1>1. ASSUME SetInterval(t) PROVE CadenceFollowsInterval'
  BY <1>1 DEF SetInterval, CadenceFollowsInterval, EngineElse, loopVars
<1>2. ASSUME Retick(t) PROVE CadenceFollowsInterval'
  BY <1>2 DEF Retick, CadenceFollowsInterval
<1>3. ASSUME RampRead(t) \/ LiveKick(t) \/ RampAfter(t) \/ Republish(t) \/ RepublishSend(t) \/ Kick(t)
      PROVE  CadenceFollowsInterval'
  BY <1>3, CadenceKept DEF RampRead, LiveKick, RampAfter, Republish, RepublishSend, Kick,
     engineVars, settings
<1>4. ASSUME SetLive(t) \/ ClearOverride(t) PROVE CadenceFollowsInterval'
  BY <1>4, CadenceKept DEF SetLive, ClearOverride, SetOverride, EngineElse
<1>5. ASSUME PushSend(t) \/ PushSave(t) \/ HandSave(t) \/ ReadSave(t) \/ SessionRead(t)
      PROVE  CadenceFollowsInterval'
  BY <1>5, CadenceKept DEF PushSend, PushSave, HandSave, ReadSave, SessionRead, engineVars, settings
<1> QED
  BY <1>1, <1>2, <1>3, <1>4, <1>5 DEF RequestStep

LEMMA CadenceNewRequest ==
    ASSUME TypeOK, CadenceFollowsInterval, NEW c \in Client
    PROVE  NewRequest(c) => CadenceFollowsInterval'
<1> USE DEF TypeOK
<1>1. ASSUME NewRequest(c)
      PROVE  /\ UNCHANGED <<loopVars, interval>>
             /\ pc[c] = "idle" /\ (UNCHANGED pc \/ \E p \in ThreadPlace : pc' = [pc EXCEPT ![c] = p])
  BY <1>1 DEF NewRequest, RampStart, RampStop, RampConfig, RampSave, KickRequest, FeedStart,
     FeedStop, MaintenanceStart, MaintenanceStop, SetOverride, StopOverride, Push, HandRequest,
     ReadLamp, SessionOpen, SessionClose, Accept, engineVars, settings, EngineElse, clientVars,
     ThreadPlace
<1> QED
  BY <1>1, CadenceKept

(* The period of the ticker is the one that was asked for last, or         *)
(* somebody is about to reset it, for any number of requests racing with   *)
(* each other and with the start of the engine.                            *)
THEOREM CadenceCorrect == Spec => []CadenceFollowsInterval
<1>1. Init => CadenceFollowsInterval
  BY DEF Init, EngineInit, EngineStart, CadenceFollowsInterval
<1>2. TypeOK /\ CadenceFollowsInterval /\ [Next]_vars => CadenceFollowsInterval'
  <2> SUFFICES ASSUME TypeOK, CadenceFollowsInterval, [Next]_vars PROVE CadenceFollowsInterval'
    OBVIOUS
  <2>1. ASSUME Environment PROVE CadenceFollowsInterval'
    BY <2>1, CadenceKept DEF Environment, TimePasses, ClockSet, OverrideExpires, engineVars,
       settings, clientVars
  <2>2. ASSUME Restart PROVE CadenceFollowsInterval'
    BY <2>2 DEF Restart, CadenceFollowsInterval
  <2>3. ASSUME UNCHANGED vars PROVE CadenceFollowsInterval'
    BY <2>3, CadenceKept DEF vars, engineVars, settings, clientVars
  <2> QED
    BY <2>1, <2>2, <2>3, CadenceEngine, CadenceRequests, CadenceNewRequest DEF Next
<1> QED
  BY <1>1, <1>2, TypeCorrect, PTL DEF Spec

-----------------------------------------------------------------------------
(* The override.  OverridePickedUp speaks of an idle engine; to keep it,   *)
(* the tick in progress must have seen the override too, unless a wake-up  *)
(* is on its way, and the engine of a host without a clock must not have   *)
(* moved.                                                                  *)

Choosing == at \in {"compute", "decide"}
Acting == at \in {"hand", "book", "rearm", "rearmSend"}
Agrees(src) ==
    /\ EngineSeesOverride => src = override.src
    /\ override = NoOverride => src = "schedule"

TickFollowsOverride ==
    /\ at = "idle" => booted
    /\ ~clockSane => source = "schedule" /\ ~Choosing /\ ~Acting
    /\ clockSane /\ ~KickPending =>
         /\ Choosing => Agrees(tick.source)
         /\ Acting \/ (booted /\ ~Choosing /\ at # "step") => Agrees(source)

LEMMA TickKept ==
    ASSUME TickFollowsOverride, UNCHANGED <<at, booted, clockSane, override, source, tick>>,
           KickPending => KickPending'
    PROVE  TickFollowsOverride'
BY DEF TickFollowsOverride, Choosing, Acting, Agrees, EngineSeesOverride

LEMMA TickLoop ==
    ASSUME TickFollowsOverride, UNCHANGED <<pc, override, clockSane>>
    PROVE  TickerFires \/ TakeTickNow \/ TakeReticker \/ DailyTimer \/ TakeMaintNow \/ Reconnected
             => TickFollowsOverride'
<1> USE DEF TickFollowsOverride, Choosing, Acting, Agrees, EngineSeesOverride, KickPending, Loop,
            loopVars, stepVars
<1>1. ASSUME TickerFires \/ TakeTickNow PROVE TickFollowsOverride'
  BY <1>1 DEF TickerFires, TakeTickNow
<1>2. ASSUME DailyTimer \/ TakeMaintNow PROVE TickFollowsOverride'
  BY <1>2 DEF DailyTimer, TakeMaintNow
<1>3. ASSUME TakeReticker PROVE TickFollowsOverride'
  BY <1>3 DEF TakeReticker
<1>4. ASSUME Reconnected PROVE TickFollowsOverride'
  BY <1>4 DEF Reconnected
<1> QED
  BY <1>1, <1>2, <1>3, <1>4

LEMMA TickStep ==
    ASSUME TypeOK, TickFollowsOverride, UNCHANGED <<pc, override, clockSane>>
    PROVE  Step => TickFollowsOverride'
<1> USE DEF TickFollowsOverride, Choosing, Acting, Agrees, EngineSeesOverride, KickPending
<1>1. ASSUME StepSkipped PROVE TickFollowsOverride'
  BY <1>1 DEF StepSkipped, StepEnds
<1>2. ASSUME StepRead PROVE TickFollowsOverride'
  <2>1. tick'.source = IF EngineSeesOverride THEN override.src ELSE "schedule"
    BY <1>2 DEF StepRead, NoTick
  <2>2. at' = "compute" /\ clockSane
    BY <1>2 DEF StepRead
  <2>3. EngineSeesOverride => override # NoOverride
    BY DEF NoOverride
  <2> QED
    BY <2>1, <2>2, <2>3
<1>3. ASSUME StepCompute PROVE TickFollowsOverride'
  <2>1. tick'.source = tick.source
    BY <1>3 DEF StepCompute, TypeOK, EngineTypeOK, Tick
  <2> QED
    BY <1>3, <2>1 DEF StepCompute, loopVars
<1>4. ASSUME StepRearms PROVE TickFollowsOverride'
  BY <1>4 DEF StepRearms, loopVars
<1>5. ASSUME StepRearmRead PROVE TickFollowsOverride'
  BY <1>5 DEF StepRearmRead, loopVars, stepVars
<1>6. ASSUME StepRearmSend PROVE TickFollowsOverride'
  BY <1>6 DEF StepRearmSend, StepEnds
<1>7. ASSUME StepDormant PROVE TickFollowsOverride'
  BY <1>7 DEF StepDormant, StepEnds
<1>8. ASSUME StepDrives PROVE TickFollowsOverride'
  BY <1>8 DEF StepDrives, loopVars
<1>9. ASSUME StepUnchanged PROVE TickFollowsOverride'
  BY <1>9 DEF StepUnchanged, StepEnds
<1>10. ASSUME StepHand PROVE TickFollowsOverride'
  BY <1>10 DEF StepHand, loopVars
<1>11. ASSUME StepBook PROVE TickFollowsOverride'
  BY <1>11 DEF StepBook, StepEnds
<1> QED
  BY <1>1, <1>2, <1>3, <1>4, <1>5, <1>6, <1>7, <1>8, <1>9, <1>10, <1>11 DEF Step

LEMMA TickMaintenance ==
    ASSUME TickFollowsOverride, UNCHANGED <<pc, override, clockSane>>
    PROVE  Maintenance => TickFollowsOverride'
<1> SUFFICES ASSUME Maintenance PROVE TickFollowsOverride'
  OBVIOUS
<1>1. /\ at \in {"sync", "snap", "drift", "repush", "repushSend"}
      /\ UNCHANGED <<booted, source, tick, tickNow>>
  BY DEF Maintenance, SyncClock, DriftSnapshot, DriftCompare, DriftRepushRead, DriftRepushSend,
     loopVars, stepVars
<1>2. \/ at' \in {"snap", "drift", "repush", "repushSend"}
      \/ at' = IF booted THEN "idle" ELSE "step"
  BY DEF Maintenance, SyncClock, DriftSnapshot, DriftCompare, DriftRepushRead, DriftRepushSend,
     MaintenanceEnds
<1> QED
  BY <1>1, <1>2 DEF TickFollowsOverride, Choosing, Acting, Agrees, EngineSeesOverride, KickPending

LEMMA TickRequests ==
    ASSUME TypeOK, TickFollowsOverride, NEW t \in Thread
    PROVE  RequestStep(t) => TickFollowsOverride'
<1> USE DEF TypeOK, Move, Finish, KickPending
<1>1. ASSUME Kick(t) PROVE TickFollowsOverride'
  BY <1>1 DEF Kick, TickFollowsOverride, Choosing, Acting, loopVars, stepVars, hostVars
<1>2. ASSUME ClearOverride(t) PROVE TickFollowsOverride'
  BY <1>2 DEF ClearOverride, SetOverride, EngineElse, TickFollowsOverride, Choosing, Acting,
     loopVars, stepVars, hostVars
<1>3. ASSUME RampRead(t) \/ RampAfter(t) \/ Republish(t) \/ RepublishSend(t)
      PROVE  TickFollowsOverride'
  BY <1>3, TickKept DEF RampRead, RampAfter, Republish, RepublishSend, engineVars, settings,
     loopVars, stepVars, hostVars
<1>4. ASSUME SetLive(t) \/ SetInterval(t) PROVE TickFollowsOverride'
  BY <1>4, TickKept DEF SetLive, SetInterval, EngineElse, loopVars, stepVars, hostVars
<1>5. ASSUME LiveKick(t) \/ Retick(t) PROVE TickFollowsOverride'
  BY <1>5, TickKept DEF LiveKick, Retick, settings, loopVars, stepVars, hostVars
<1>6. ASSUME PushSend(t) \/ PushSave(t) \/ HandSave(t) \/ ReadSave(t) \/ SessionRead(t)
      PROVE  TickFollowsOverride'
  BY <1>6, TickKept DEF PushSend, PushSave, HandSave, ReadSave, SessionRead, engineVars, settings,
     loopVars, stepVars, hostVars
<1> QED
  BY <1>1, <1>2, <1>3, <1>4, <1>5, <1>6 DEF RequestStep

LEMMA TickNewRequest ==
    ASSUME TypeOK, TickFollowsOverride, NEW c \in Client
    PROVE  NewRequest(c) => TickFollowsOverride'
<1> USE DEF TypeOK
<1>0. c \in Thread
  BY DEF Thread
<1>1. ASSUME FeedStart(c) \/ MaintenanceStart(c) PROVE TickFollowsOverride'
  <2>1. KickPending' /\ UNCHANGED <<at, booted, clockSane, source, tick>>
    BY <1>0, <1>1 DEF FeedStart, MaintenanceStart, SetOverride, KickPending, EngineElse, loopVars,
       stepVars, hostVars
  <2> QED
    BY <2>1 DEF TickFollowsOverride, Choosing, Acting
<1>2. ASSUME RampStart(c) \/ RampStop(c) \/ RampConfig(c) \/ KickRequest(c) \/ FeedStop(c)
             \/ MaintenanceStop(c) \/ Push(c) \/ HandRequest(c) \/ ReadLamp(c) \/ SessionOpen(c)
             \/ SessionClose(c)
      PROVE  TickFollowsOverride'
  <2>1. /\ UNCHANGED <<engineVars, hostVars>>
        /\ pc[c] = "idle" /\ (UNCHANGED pc \/ \E p \in ThreadPlace : pc' = [pc EXCEPT ![c] = p])
    BY <1>2 DEF RampStart, RampStop, RampConfig, RampSave, KickRequest, FeedStop, MaintenanceStop,
       StopOverride, Push, HandRequest, ReadLamp, SessionOpen, SessionClose, Accept, clientVars,
       ThreadPlace
  <2>2. KickPending => KickPending'
    BY <2>1 DEF KickPending, engineVars
  <2> QED
    BY <2>1, <2>2, TickKept DEF engineVars, settings, loopVars, stepVars, hostVars
<1> QED
  BY <1>1, <1>2 DEF NewRequest

LEMMA TickEnvironment ==
    ASSUME TypeOK, TickFollowsOverride
    PROVE  Environment => TickFollowsOverride'
<1>1. ASSUME TimePasses, UNCHANGED pc PROVE TickFollowsOverride'
  BY <1>1, TickKept DEF TimePasses, engineVars, settings, loopVars, stepVars, KickPending
<1>2. ASSUME UNCHANGED <<engineVars, hostVars, pc>> PROVE TickFollowsOverride'
  BY <1>2, TickKept DEF engineVars, settings, loopVars, stepVars, hostVars, KickPending
<1>3. ASSUME ClockSet, UNCHANGED pc PROVE TickFollowsOverride'
  <2>1. override'.until # "future" /\ source = "schedule" /\ ~Choosing /\ ~Acting
    BY <1>3 DEF ClockSet, TickFollowsOverride, TypeOK, EngineTypeOK, Override, NoOverride
  <2> QED
    BY <1>3, <2>1 DEF ClockSet, TickFollowsOverride, Choosing, Acting, Agrees, EngineSeesOverride,
       loopVars, stepVars
<1>4. ASSUME OverrideExpires, UNCHANGED pc PROVE TickFollowsOverride'
  <2>1. override'.until # "future" /\ override' # NoOverride
    BY <1>4 DEF OverrideExpires, TypeOK, EngineTypeOK, Override, NoOverride, OverrideSource
  <2> QED
    BY <1>4, <2>1 DEF OverrideExpires, TickFollowsOverride, Choosing, Acting, Agrees,
       EngineSeesOverride, KickPending, loopVars, stepVars, hostVars
<1> QED
  BY <1>1, <1>2, <1>3, <1>4 DEF Environment, clientVars

(* No change of the override is lost in the wake-up channel, for any       *)
(* number of requests: the output of the last tick is that of the override *)
(* in force once no wake-up is on its way.                                 *)
THEOREM OverrideCorrect == Spec => []OverridePickedUp
<1>1. Init => TickFollowsOverride
  BY DEF Init, EngineInit, EngineStart, TickFollowsOverride, Choosing, Acting, Agrees
<1>2. TypeOK /\ TickFollowsOverride /\ [Next]_vars => TickFollowsOverride'
  <2> SUFFICES ASSUME TypeOK, TickFollowsOverride, [Next]_vars PROVE TickFollowsOverride'
    OBVIOUS
  <2>1. ASSUME Engine PROVE TickFollowsOverride'
    <3>1. UNCHANGED <<pc, override, clockSane>>
      <4>1. ASSUME EngineNext PROVE UNCHANGED <<settings, hostVars>>
        BY <4>1 DEF EngineNext, TickerFires, TakeTickNow, TakeReticker, DailyTimer, TakeMaintNow,
           Step, StepSkipped, StepRead, StepCompute, StepRearms, StepRearmRead, StepRearmSend,
           StepDormant, StepDrives, StepUnchanged, StepHand, StepBook, Maintenance, SyncClock,
           DriftSnapshot, DriftCompare, DriftRepushRead, DriftRepushSend
      <4>2. ASSUME Reconnected PROVE UNCHANGED <<settings, hostVars>>
        BY <4>2 DEF Reconnected
      <4> QED
        BY <2>1, <4>1, <4>2 DEF Engine, clientVars, settings, hostVars
    <3> QED
      BY <2>1, <3>1, TickLoop, TickStep, TickMaintenance DEF Engine, EngineNext
  <2>2. ASSUME Restart PROVE TickFollowsOverride'
    BY <2>2 DEF Restart, TickFollowsOverride, Choosing, Acting
  <2>3. ASSUME UNCHANGED vars PROVE TickFollowsOverride'
    BY <2>3, TickKept DEF vars, engineVars, settings, loopVars, stepVars, hostVars, clientVars,
       KickPending
  <2> QED
    BY <2>1, <2>2, <2>3, TickRequests, TickNewRequest, TickEnvironment DEF Next
<1>3. TickFollowsOverride => OverridePickedUp
  BY DEF TickFollowsOverride, OverridePickedUp, Choosing, Acting, Agrees
<1> QED
  BY <1>1, <1>2, <1>3, TypeCorrect, PTL DEF Spec

-----------------------------------------------------------------------------
(* The mode and the cadence.  From the moment a request has read the       *)
(* switch, what it carries is the switch, because no other request runs    *)
(* beside it; what it has applied stays, because nothing but this path     *)
(* sets live and interval.                                                 *)

Applying == {"rampRead", "setLive", "liveKick", "setInterval"}

OneBusy == \A t, u \in Thread : pc[t] # "idle" /\ pc[u] # "idle" => t = u

Applied == live = fx.active /\ interval = Cadence(fx)

AppliedSoFar(t) ==
    /\ pc[t] # "rampRead" /\ pc[t] \in Applying => arg[t].ramp = fx
    /\ pc[t] \in {"liveKick", "setInterval"} => live = fx.active

ModeInv ==
    /\ OneBusy
    /\ \A t \in Thread : AppliedSoFar(t)
    /\ (\A t \in Thread : pc[t] \notin Applying) => Applied

(* A step that leaves the mode, the cadence and the switch alone, and moves *)
(* no goroutine but one, which does not apply the switch.                  *)
LEMMA ModeKept ==
    ASSUME TypeOK, ModeInv, UNCHANGED <<live, interval, fx>>, NEW t \in Thread,
           \A u \in Thread \ {t} : pc'[u] = pc[u] /\ arg'[u] = arg[u],
           \A u \in Thread \ {t} : pc[t] = "idle" => pc[u] = "idle",
           pc[t] \notin Applying /\ pc'[t] \notin Applying
    PROVE  ModeInv'
<1>1. OneBusy'
  BY DEF ModeInv, OneBusy
<1>2. ASSUME NEW u \in Thread PROVE AppliedSoFar(u)'
  <2>1. CASE u = t
    BY <2>1 DEF AppliedSoFar, Applying
  <2>2. CASE u # t
    BY <2>2 DEF ModeInv, AppliedSoFar
  <2> QED BY <2>1, <2>2
<1>3. (\A u \in Thread : pc'[u] \notin Applying) => Applied'
  <2>1. SUFFICES ASSUME \A u \in Thread : pc'[u] \notin Applying PROVE Applied'
    OBVIOUS
  <2>2. \A u \in Thread : pc[u] \notin Applying
    BY <2>1
  <2> QED BY <2>2 DEF ModeInv, Applied, Cadence
<1> QED
  BY <1>1, <1>2, <1>3 DEF ModeInv

LEMMA ModeStill ==
    ASSUME ModeInv, UNCHANGED <<live, interval, fx, pc, arg>>
    PROVE  ModeInv'
BY DEF ModeInv, OneBusy, AppliedSoFar, Applied, Cadence

LEMMA ModeEngine == TypeOK /\ ModeInv /\ Engine => ModeInv'
<1> SUFFICES ASSUME TypeOK, ModeInv, Engine PROVE ModeInv'
  OBVIOUS
<1>1. UNCHANGED <<live, interval>>
  <2>1. ASSUME TakeReticker \/ TickerFires \/ TakeTickNow \/ DailyTimer \/ TakeMaintNow \/ Reconnected
        PROVE  UNCHANGED <<live, interval>>
    BY <2>1 DEF TakeReticker, TickerFires, TakeTickNow, DailyTimer, TakeMaintNow, Reconnected, settings
  <2>2. ASSUME Step PROVE UNCHANGED <<live, interval>>
    BY <2>2 DEF Step, StepSkipped, StepRead, StepCompute, StepRearms, StepRearmRead, StepRearmSend,
       StepDormant, StepDrives, StepUnchanged, StepHand, StepBook, settings
  <2>3. ASSUME Maintenance PROVE UNCHANGED <<live, interval>>
    BY <2>3 DEF Maintenance, SyncClock, DriftSnapshot, DriftCompare, DriftRepushRead,
       DriftRepushSend, settings
  <2> QED
    BY <2>1, <2>2, <2>3 DEF Engine, EngineNext
<1>2. UNCHANGED fx
  <2>1. ASSUME TakeReticker \/ TickerFires \/ TakeTickNow \/ DailyTimer \/ TakeMaintNow \/ Reconnected
        PROVE  UNCHANGED fx
    BY <2>1 DEF TakeReticker, TickerFires, TakeTickNow, DailyTimer, TakeMaintNow, Reconnected, dataVars
  <2>2. ASSUME Step PROVE UNCHANGED fx
    BY <2>2 DEF Step, StepSkipped, StepRead, StepCompute, StepRearms, StepRearmRead, StepRearmSend,
       StepDormant, StepDrives, StepUnchanged, StepHand, StepBook, dataVars
  <2>3. ASSUME Maintenance PROVE UNCHANGED fx
    BY <2>3 DEF Maintenance, SyncClock, DriftSnapshot, DriftCompare, DriftRepushRead,
       DriftRepushSend, dataVars
  <2> QED
    BY <2>1, <2>2, <2>3 DEF Engine, EngineNext
<1> QED
  BY <1>1, <1>2, ModeStill DEF Engine, clientVars

LEMMA ModeRequests ==
    ASSUME TypeOK, ModeInv, NEW t \in Thread, RequestStep(t)
    PROVE  ModeInv'
<1> USE DEF TypeOK, Move, Finish
<1>a. /\ pc \in [Thread -> ThreadPlace] /\ arg \in [Thread -> Arg]
      /\ OneBusy /\ AppliedSoFar(t)
  BY DEF ModeInv
<1>b. pc[t] # "idle"
  BY DEF RequestStep, RampRead, SetLive, LiveKick, SetInterval, Retick, RampAfter, Republish,
     RepublishSend, Kick, ClearOverride, PushSend, PushSave, HandSave, ReadSave, SessionRead
<1>c. \A u \in Thread \ {t} : pc[u] = "idle"
  BY <1>a, <1>b DEF OneBusy
<1>1. ASSUME NEW p, pc' = [pc EXCEPT ![t] = p], p \in Applying,
             \A u \in Thread \ {t} : arg'[u] = arg[u], AppliedSoFar(t)'
      PROVE  ModeInv'
  <2>1. OneBusy'
    BY <1>1, <1>a, <1>c DEF OneBusy
  <2>2. \A u \in Thread : AppliedSoFar(u)'
    BY <1>1, <1>a, <1>c DEF AppliedSoFar, Applying
  <2>3. pc'[t] \in Applying
    BY <1>1, <1>a
  <2> QED BY <2>1, <2>2, <2>3 DEF ModeInv
<1>2. CASE RampRead(t)
  <2>1. AppliedSoFar(t)'
    BY <1>2, <1>a DEF RampRead, AppliedSoFar, Arg, dataVars
  <2> QED BY <1>2, <1>a, <1>1, <2>1 DEF RampRead, Applying
<1>3. CASE SetLive(t)
  <2>1. arg[t].ramp = fx
    BY <1>3, <1>a DEF SetLive, AppliedSoFar, Applying
  <2>2. AppliedSoFar(t)'
    BY <1>3, <1>a, <2>1 DEF SetLive, AppliedSoFar, dataVars
  <2> QED BY <1>3, <1>a, <1>1, <2>2 DEF SetLive, Applying
<1>4. CASE LiveKick(t)
  <2>1. AppliedSoFar(t)'
    BY <1>4, <1>a DEF LiveKick, AppliedSoFar, Applying, settings, dataVars
  <2> QED BY <1>4, <1>a, <1>1, <2>1 DEF LiveKick, Applying
<1>5. CASE SetInterval(t)
  <2>1. arg[t].ramp = fx /\ live = fx.active
    BY <1>5, <1>a DEF SetInterval, AppliedSoFar, Applying
  <2>2. Applied'
    BY <1>5, <2>1 DEF SetInterval, Applied, Cadence, dataVars
  <2>3. pc'[t] \in {"retick", "after"} /\ \A u \in Thread \ {t} : pc'[u] = "idle"
    BY <1>5, <1>a, <1>c DEF SetInterval
  <2> QED BY <2>2, <2>3 DEF ModeInv, OneBusy, AppliedSoFar, Applying
<1>6. CASE Retick(t) \/ RampAfter(t) \/ Republish(t) \/ RepublishSend(t) \/ Kick(t) \/ ClearOverride(t)
  <2>1. UNCHANGED <<live, interval, fx>>
    BY <1>6 DEF Retick, RampAfter, Republish, RepublishSend, Kick, ClearOverride, SetOverride,
       settings, engineVars, dataVars
  <2>2. \A u \in Thread \ {t} : pc'[u] = pc[u] /\ arg'[u] = arg[u]
    BY <1>6, <1>a DEF Retick, RampAfter, Republish, RepublishSend, Kick, ClearOverride, SetOverride
  <2>3. pc[t] \notin Applying /\ pc'[t] \notin Applying
    BY <1>6, <1>a DEF Retick, RampAfter, Republish, RepublishSend, Kick, ClearOverride,
       SetOverride, Applying
  <2> QED BY <2>1, <2>2, <2>3, <1>b, ModeKept
<1>7. CASE PushSend(t) \/ PushSave(t) \/ HandSave(t) \/ ReadSave(t) \/ SessionRead(t)
  <2>1. UNCHANGED <<live, interval, fx>>
    BY <1>7 DEF PushSend, PushSave, HandSave, ReadSave, SessionRead, settings, engineVars, dataVars
  <2>2. \A u \in Thread \ {t} : pc'[u] = pc[u] /\ arg'[u] = arg[u]
    BY <1>7, <1>a DEF PushSend, PushSave, HandSave, ReadSave, SessionRead
  <2>3. pc[t] \notin Applying /\ pc'[t] \notin Applying
    BY <1>7, <1>a DEF PushSend, PushSave, HandSave, ReadSave, SessionRead, Applying
  <2> QED BY <2>1, <2>2, <2>3, <1>b, ModeKept
<1> QED
  BY <1>2, <1>3, <1>4, <1>5, <1>6, <1>7 DEF RequestStep

LEMMA ModeNewRequest ==
    ASSUME TypeOK, ModeInv, NEW c \in Client, NewRequest(c), \A d \in Client : d = c
    PROVE  ModeInv'
<1> USE DEF TypeOK
<1>a. pc \in [Thread -> ThreadPlace] /\ arg \in [Thread -> Arg] /\ c \in Thread
  BY DEF Thread
<1>b. pc["main"] = "idle" /\ pc[c] = "idle"
  BY DEF NewRequest, RampStart, RampStop, RampConfig, KickRequest, FeedStart, FeedStop,
     MaintenanceStart, MaintenanceStop, Push, HandRequest, ReadLamp, SessionOpen, SessionClose, Accept
<1>c. \A u \in Thread : pc[u] = "idle"
  BY <1>b DEF Thread
<1>1. CASE RampStart(c) \/ RampStop(c) \/ RampConfig(c)
  <2>1. pc' = [pc EXCEPT ![c] = "rampRead"]
    BY <1>1 DEF RampStart, RampStop, RampConfig, RampSave
  <2>2. pc'[c] = "rampRead" /\ \A u \in Thread \ {c} : pc'[u] = "idle"
    BY <2>1, <1>a, <1>c
  <2> QED BY <2>2, <1>a DEF ModeInv, OneBusy, AppliedSoFar, Applying
<1>2. CASE KickRequest(c) \/ FeedStart(c) \/ FeedStop(c) \/ MaintenanceStart(c) \/ MaintenanceStop(c)
  <2>1. UNCHANGED <<live, interval, fx, arg>>
    BY <1>2 DEF KickRequest, FeedStart, FeedStop, MaintenanceStart, MaintenanceStop, SetOverride,
       StopOverride, engineVars, settings, dataVars
  <2>2. \E p \in {"kick", "clear"} : pc' = [pc EXCEPT ![c] = p]
    BY <1>2 DEF KickRequest, FeedStart, FeedStop, MaintenanceStart, MaintenanceStop, SetOverride,
       StopOverride
  <2>3. pc[c] \notin Applying /\ pc'[c] \notin Applying
    BY <2>2, <1>a, <1>b DEF Applying
  <2> QED BY <1>a, <1>c, <2>1, <2>2, <2>3, ModeKept
<1>3. CASE Push(c) \/ HandRequest(c) \/ ReadLamp(c) \/ SessionOpen(c) \/ SessionClose(c)
  <2>1. UNCHANGED <<live, interval, fx>>
    BY <1>3 DEF Push, HandRequest, ReadLamp, SessionOpen, SessionClose, engineVars, settings, dataVars
  <2>2. UNCHANGED pc \/ \E p \in {"pushSend", "handSave", "idle", "readSave", "touchRead"} :
                           pc' = [pc EXCEPT ![c] = p]
    BY <1>3 DEF Push, HandRequest, ReadLamp, SessionOpen, SessionClose, clientVars
  <2>3. \A u \in Thread \ {c} : arg'[u] = arg[u]
    BY <1>3, <1>a DEF Push, HandRequest, ReadLamp, SessionOpen, SessionClose, clientVars
  <2>4. pc[c] \notin Applying /\ pc'[c] \notin Applying
    BY <2>2, <1>a, <1>b DEF Applying
  <2> QED BY <1>a, <1>c, <2>1, <2>2, <2>3, <2>4, ModeKept
<1> QED
  BY <1>1, <1>2, <1>3 DEF NewRequest

LEMMA ModeStart ==
    ASSUME pc = StartPc
    PROVE  ModeInv
<1>1. pc["main"] = "rampRead" /\ \A t \in Thread \ {"main"} : pc[t] = "idle"
  BY DEF StartPc, Thread
<1> QED
  BY <1>1 DEF ModeInv, OneBusy, AppliedSoFar, Applying, Thread

(* With one request at a time, the mode and the cadence are those of the   *)
(* saved switch whenever none is in progress, wherever a restart cut the   *)
(* request before short (applyRampCadence, effects.go:91).                 *)
THEOREM ModeCorrect ==
    ASSUME \A c, d \in Client : c = d
    PROVE  Spec => []ModeFollowsSwitch
<1>1. Init => ModeInv
  BY ModeStart DEF Init
<1>2. TypeOK /\ ModeInv /\ [Next]_vars => ModeInv'
  <2> SUFFICES ASSUME TypeOK, ModeInv, [Next]_vars PROVE ModeInv'
    OBVIOUS
  <2>1. CASE Environment
    <3>1. UNCHANGED <<live, interval, fx, pc, arg>>
      BY <2>1 DEF Environment, TimePasses, ClockSet, OverrideExpires, engineVars, settings,
         clientVars, dataVars
    <3> QED BY <3>1, ModeStill
  <2>2. CASE Restart
    <3>1. pc' = StartPc
      BY <2>2 DEF Restart
    <3>2. pc'["main"] = "rampRead" /\ \A t \in Thread \ {"main"} : pc'[t] = "idle"
      BY <3>1 DEF StartPc, Thread
    <3> QED BY <3>2 DEF ModeInv, OneBusy, AppliedSoFar, Applying, Thread
  <2>3. CASE UNCHANGED vars
    BY <2>3, ModeStill DEF vars, engineVars, settings, clientVars, dataVars
  <2>4. ASSUME NEW c \in Client, NewRequest(c) PROVE ModeInv'
    <3>1. \A d \in Client : d = c
      OBVIOUS
    <3> QED BY <2>4, <3>1, ModeNewRequest
  <2> QED
    BY <2>1, <2>2, <2>3, <2>4, ModeEngine, ModeRequests DEF Next
<1>3. ModeInv => ModeFollowsSwitch
  BY DEF ModeInv, Applied, Applying, ModeFollowsSwitch, Settled
<1> QED
  BY <1>1, <1>2, <1>3, TypeCorrect, PTL DEF Spec

-----------------------------------------------------------------------------
(* Who ends an override.  Once an override's level can reach the lamp,     *)
(* overrideWas is set, and it stays set until the next tick copies it to   *)
(* tick.was; the tick then drives the lamp, or hands it back its schedule. *)

TickPlace == {"compute", "decide", "hand", "book", "rearm", "rearmSend"}

TickOwns ==
    /\ tick.was => at \in TickPlace
    /\ at = "compute" => tick.was = overrideWas
    /\ at \in {"compute", "decide", "hand", "book"} => tick.live = live
    /\ at \in {"decide", "hand", "book"} =>
         /\ OverrideActive => overrideWas
         /\ tick.out \in OverrideLevel => OverrideActive
    /\ at \in {"hand", "book"} => ~Dormant

(* The link goes down with the lamp's power only, which clears the level.  *)
DarkWithoutLink == ~link => lamp.hand = NoLevel

OwnerInv == OverrideHasOwner /\ TickOwns /\ DarkWithoutLink

LEMMA LevelKinds ==
    /\ NoLevel \notin OverrideLevel
    /\ \A v \in ManualLevel \cup CurveLevel : v \notin OverrideLevel
<1>1. \A v \in OverrideLevel : v[1] = "override"
  BY DEF OverrideLevel
<1>2. \A v \in CurveLevel : v[1] = "curve"
  BY DEF CurveLevel
<1>3. \A v \in ManualLevel \cup {NoLevel} : v[1] \in {"manual", "none"}
  BY DEF ManualLevel, NoLevel
<1> QED
  BY <1>1, <1>2, <1>3, Zenon

(* Without lost packets the caller of an exchange is told the truth. *)
LEMMA ExchangeHonest ==
    ASSUME "loss" \notin Faults, NEW new, NEW ok, Exchange(new, ok)
    PROVE  (link /\ ok /\ lamp' = new) \/ (~link /\ ~ok /\ lamp' = lamp)
BY DEF Exchange, Fault

LEMMA DirectHonest ==
    ASSUME "loss" \notin Faults, NEW new, NEW ok, Direct(new, ok)
    PROVE  /\ UNCHANGED link
           /\ (link /\ ok /\ lamp' = new) \/ (~link /\ ~ok /\ lamp' = lamp)
BY ExchangeHonest DEF Direct

LEMMA DoHonest ==
    ASSUME "loss" \notin Faults, NEW new, NEW ok, Do(new, ok)
    PROVE  /\ UNCHANGED link
           /\ (link /\ ok /\ lamp' = new) \/ (~ok /\ lamp' = lamp)
<1>1. CASE ~awake /\ ~ok /\ UNCHANGED lampVars
  BY <1>1 DEF lampVars
<1>2. CASE Exchange(new, ok) /\ UNCHANGED link
  BY <1>2, ExchangeHonest
<1> QED
  BY <1>1, <1>2 DEF Do

(* A step that leaves the tick alone and writes no override level. *)
LEMMA OwnerKept ==
    ASSUME OwnerInv, UNCHANGED <<at, tick, overrideWas, live>>,
           \/ lamp'.hand \in {lamp.hand, NoLevel}
           \/ link /\ link' /\ lamp'.hand \in ManualLevel,
           ~link' => ~link \/ lamp'.hand = NoLevel
    PROVE  OwnerInv'
<1>1. OverrideHasOwner'
  BY LevelKinds DEF OwnerInv, OverrideHasOwner
<1>2. TickOwns'
  BY DEF OwnerInv, TickOwns, Dormant, OverrideActive
<1>3. DarkWithoutLink'
  BY DEF OwnerInv, DarkWithoutLink
<1> QED
  BY <1>1, <1>2, <1>3 DEF OwnerInv

(* A step outside a tick. *)
LEMMA OwnerOutsideTick ==
    ASSUME OwnerInv, UNCHANGED <<tick, overrideWas, live, link>>,
           at \notin TickPlace, at' \notin TickPlace,
           lamp'.hand \in {lamp.hand, NoLevel}
    PROVE  OwnerInv'
<1>1. OverrideHasOwner'
  BY LevelKinds DEF OwnerInv, OverrideHasOwner
<1>2. TickOwns'
  BY DEF OwnerInv, TickOwns, TickPlace
<1>3. DarkWithoutLink'
  BY DEF OwnerInv, DarkWithoutLink
<1> QED
  BY <1>1, <1>2, <1>3 DEF OwnerInv

LEMMA OwnerLoop ==
    ASSUME OwnerInv
    PROVE  TickerFires \/ TakeTickNow \/ TakeReticker \/ DailyTimer \/ TakeMaintNow \/ Reconnected
             => OwnerInv'
<1>1. ASSUME TickerFires PROVE OwnerInv'
  BY <1>1, OwnerOutsideTick DEF TickerFires, Loop, TickPlace, settings, stepVars, lampVars
<1>2. ASSUME TakeTickNow PROVE OwnerInv'
  BY <1>2, OwnerOutsideTick DEF TakeTickNow, Loop, TickPlace, settings, stepVars, lampVars
<1>3. ASSUME TakeReticker PROVE OwnerInv'
  BY <1>3, OwnerOutsideTick DEF TakeReticker, Loop, TickPlace, settings, stepVars, lampVars
<1>4. ASSUME DailyTimer PROVE OwnerInv'
  BY <1>4, OwnerOutsideTick DEF DailyTimer, Loop, TickPlace, settings, stepVars, lampVars
<1>5. ASSUME TakeMaintNow PROVE OwnerInv'
  BY <1>5, OwnerOutsideTick DEF TakeMaintNow, Loop, TickPlace, settings, stepVars, lampVars
<1>6. ASSUME Reconnected PROVE OwnerInv'
  BY <1>6, OwnerKept DEF Reconnected, settings, stepVars
<1> QED
  BY <1>1, <1>2, <1>3, <1>4, <1>5, <1>6

LEMMA OwnerMaintenance ==
    ASSUME TypeOK, OwnerInv, "loss" \notin Faults
    PROVE  Maintenance => OwnerInv'
<1> USE DEF settings, stepVars
<1>0. ASSUME MaintenanceEnds PROVE at' \notin TickPlace
  BY <1>0 DEF MaintenanceEnds, TickPlace
<1>1. ASSUME SyncClock PROVE OwnerInv'
  <2>1. PICK ok \in BOOLEAN : Do(SyncTime(clockSane), ok)
    BY <1>1 DEF SyncClock
  <2>2. link' = link /\ lamp' \in {lamp, SyncTime(clockSane)}
    BY <2>1, DoHonest
  <2>3. lamp'.hand = lamp.hand
    BY <2>2 DEF SyncTime, TypeOK, LampTypeOK, Lamp
  <2>4. at \notin TickPlace /\ at' \notin TickPlace
    BY <1>1, <1>0 DEF SyncClock, TickPlace
  <2> QED
    BY <1>1, <2>2, <2>3, <2>4, OwnerOutsideTick DEF SyncClock
<1>2. ASSUME DriftSnapshot PROVE OwnerInv'
  <2>1. at \notin TickPlace /\ at' \notin TickPlace
    BY <1>2, <1>0 DEF DriftSnapshot, TickPlace
  <2> QED
    BY <1>2, <2>1, OwnerOutsideTick DEF DriftSnapshot, lampVars
<1>3. ASSUME DriftCompare PROVE OwnerInv'
  <2>1. PICK ok \in BOOLEAN : Do(lamp, ok)
    BY <1>3 DEF DriftCompare
  <2>2. UNCHANGED link /\ lamp' = lamp
    BY <2>1, DoHonest
  <2>4. at \notin TickPlace /\ at' \notin TickPlace
    BY <1>3, <1>0 DEF DriftCompare, TickPlace
  <2> QED
    BY <1>3, <2>2, <2>4, OwnerOutsideTick DEF DriftCompare
<1>4. ASSUME DriftRepushRead PROVE OwnerInv'
  BY <1>4, OwnerOutsideTick DEF DriftRepushRead, TickPlace, lampVars
<1>5. ASSUME DriftRepushSend PROVE OwnerInv'
  <2> DEFINE new == PushSchedule(copy.sched, copy.auto, copy.manual, clockSane)
  <2>1. PICK ok \in BOOLEAN : Direct(new, ok)
    BY <1>5 DEF DriftRepushSend
  <2>2. UNCHANGED link /\ lamp' \in {lamp, new}
    BY <2>1, DirectHonest
  <2>3. lamp'.hand \in {lamp.hand, NoLevel}
    BY <2>2 DEF PushSchedule
  <2>4. at \notin TickPlace /\ at' \notin TickPlace
    BY <1>5, <1>0 DEF DriftRepushSend, TickPlace
  <2> QED
    BY <1>5, <2>2, <2>3, <2>4, OwnerOutsideTick DEF DriftRepushSend
<1> QED
  BY <1>1, <1>2, <1>3, <1>4, <1>5 DEF Maintenance

LEMMA OwnerStep ==
    ASSUME TypeOK, OwnerInv, "loss" \notin Faults
    PROVE  Step => OwnerInv'
<1> USE DEF settings, stepVars, lampVars
<1>a. TickOwns /\ OverrideHasOwner /\ DarkWithoutLink
  BY DEF OwnerInv
<1>b. ASSUME lamp' = lamp, link' = link, TickOwns', tick'.was \/ live' \/ overrideWas'
             \/ lamp.hand \notin OverrideLevel
      PROVE  OwnerInv'
  BY <1>b, <1>a DEF OwnerInv, OverrideHasOwner, DarkWithoutLink
<1>c. ASSUME StepEnds PROVE TickOwns' /\ ~tick'.was
  BY <1>c DEF StepEnds, NoTick, TickOwns
<1>d. lamp.hand \in OverrideLevel => tick.was \/ live \/ overrideWas
  BY <1>a DEF OverrideHasOwner
<1>1. ASSUME StepSkipped PROVE OwnerInv'
  <2>1. ~tick.was
    BY <1>1, <1>a DEF StepSkipped, TickOwns, TickPlace
  <2> QED
    BY <1>1, <2>1, <1>b, <1>c, <1>d DEF StepSkipped
<1>2. ASSUME StepRead PROVE OwnerInv'
  <2>1. tick'.was = overrideWas /\ tick'.live = live
    BY <1>2 DEF StepRead, NoTick
  <2>2. TickOwns'
    BY <1>2, <2>1 DEF StepRead, TickOwns, TickPlace
  <2>3. ~tick.was
    BY <1>2, <1>a DEF StepRead, TickOwns, TickPlace
  <2> QED
    BY <1>2, <2>2, <2>3, <1>b, <1>d DEF StepRead
<1>3. ASSUME StepCompute PROVE OwnerInv'
  <2> DEFINE out == IF OverrideActive THEN <<"override", tick.source>> ELSE Compute
  <2>1. tick' = [tick EXCEPT !.out = out] /\ tick \in Tick
    BY <1>3 DEF StepCompute, TypeOK, EngineTypeOK
  <2>2. tick'.was = tick.was /\ tick'.live = tick.live /\ tick'.source = tick.source /\ tick'.out = out
    BY <2>1 DEF Tick
  <2>3. ~OverrideActive => out \notin OverrideLevel
    BY LevelKinds DEF Compute, TypeOK, EngineTypeOK, Store, CurveLevel
  <2>4. (OverrideActive <=> OverrideActive') /\ tick.live = live
    BY <2>2, <1>3, <1>a DEF OverrideActive, StepCompute, TickOwns
  <2>5. tick'.out \in OverrideLevel => OverrideActive'
    BY <2>2, <2>3, <2>4
  <2>6. TickOwns'
    BY <1>3, <2>2, <2>4, <2>5 DEF StepCompute, TickOwns, TickPlace
  <2>7. tick.was = overrideWas
    BY <1>3, <1>a DEF StepCompute, TickOwns
  <2> QED
    BY <1>3, <2>2, <2>6, <2>7, <1>b, <1>d DEF StepCompute
<1>4. ASSUME StepRearms PROVE OwnerInv'
  <2>1. TickOwns'
    BY <1>4 DEF StepRearms, TickOwns, TickPlace
  <2> QED
    BY <1>4, <2>1, <1>b, <1>d DEF StepRearms
<1>5. ASSUME StepRearmRead PROVE OwnerInv'
  <2>1. TickOwns'
    BY <1>5 DEF StepRearmRead, TickOwns, TickPlace
  <2> QED
    BY <1>5, <2>1, <1>b, <1>d DEF StepRearmRead
<1>6. ASSUME StepRearmSend PROVE OwnerInv'
  <2> DEFINE new == PushSchedule(copy.sched, copy.auto, copy.manual, clockSane)
  <2>1. PICK ok \in BOOLEAN : Direct(new, ok)
    BY <1>6 DEF StepRearmSend
  <2>2. link' = link /\ (lamp' = new \/ (~link /\ lamp' = lamp))
    BY <2>1, DirectHonest
  <2>3. lamp'.hand = NoLevel
    BY <2>2, <1>a DEF PushSchedule, DarkWithoutLink
  <2>4. TickOwns'
    BY <1>6, <1>c DEF StepRearmSend
  <2> QED
    BY <2>3, <2>4, LevelKinds DEF OwnerInv, OverrideHasOwner, DarkWithoutLink
<1>7. ASSUME StepDormant PROVE OwnerInv'
  <2>1. ~tick.was
    BY <1>7 DEF StepDormant, Dormant, JustEnded
  <2> QED
    BY <1>7, <2>1, <1>b, <1>c, <1>d DEF StepDormant
<1>8. ASSUME StepDrives PROVE OwnerInv'
  <2>1. TickOwns'
    BY <1>8, <1>a DEF StepDrives, TickOwns, TickPlace, Dormant, OverrideActive
  <2> QED
    BY <1>8, <2>1, <1>b, <1>d DEF StepDrives
<1>9. ASSUME StepUnchanged PROVE OwnerInv'
  <2>1. tick.was => overrideWas
    BY <1>9, <1>a DEF StepUnchanged, OutputChanged, JustEnded, TickOwns
  <2> QED
    BY <1>9, <2>1, <1>b, <1>c, <1>d DEF StepUnchanged
<1>10. ASSUME StepHand PROVE OwnerInv'
  <2>1. PICK ok \in BOOLEAN : Do(Hand(tick.out), ok) /\ tick' = [tick EXCEPT !.ok = ok]
    BY <1>10 DEF StepHand
  <2>2. link' = link /\ (lamp' = lamp \/ (link /\ lamp' = Hand(tick.out)))
    BY <2>1, DoHonest
  <2>3. tick'.was = tick.was /\ tick'.live = tick.live /\ tick'.source = tick.source /\ tick'.out = tick.out
    BY <2>1 DEF TypeOK, EngineTypeOK, Tick
  <2>4. TickOwns'
    BY <1>10, <1>a, <2>3 DEF StepHand, TickOwns, TickPlace, Dormant, OverrideActive
  <2>5. CASE lamp' = lamp
    BY <1>10, <2>2, <2>3, <2>4, <2>5, <1>b, <1>d DEF StepHand
  <2>6. CASE link /\ lamp' = Hand(tick.out)
    <3>1. lamp'.hand = tick.out
      BY <2>6 DEF Hand, TypeOK, LampTypeOK, Lamp
    <3>2. tick.out \in OverrideLevel => overrideWas
      BY <1>10, <1>a DEF StepHand, TickOwns
    <3> QED
      BY <1>10, <2>2, <2>4, <2>6, <3>1, <3>2 DEF StepHand, OwnerInv, OverrideHasOwner, DarkWithoutLink
  <2> QED
    BY <2>2, <2>5, <2>6
<1>11. ASSUME StepBook PROVE OwnerInv'
  <2>1. live \/ overrideWas
    BY <1>11, <1>a DEF StepBook, TickOwns, Dormant
  <2> QED
    BY <1>11, <2>1, <1>b, <1>c DEF StepBook
<1> QED
  BY <1>1, <1>2, <1>3, <1>4, <1>5, <1>6, <1>7, <1>8, <1>9, <1>10, <1>11 DEF Step

(* While nobody throws the smooth-ramp switch, applying it changes nothing: *)
(* the engine's mode is the saved one all along.                           *)
LiveSaved ==
    /\ live = fx.active
    /\ \A t \in Thread : pc[t] = "setLive" => arg[t].ramp.active = fx.active

LEMMA LiveStill ==
    ASSUME LiveSaved, UNCHANGED live, fx'.active = fx.active,
           \A t \in Thread : pc'[t] = "setLive" => pc[t] = "setLive" /\ arg'[t].ramp = arg[t].ramp
    PROVE  LiveSaved'
BY DEF LiveSaved

LEMMA LiveRequests ==
    ASSUME TypeOK, LiveSaved, NEW t \in Thread, RequestStep(t)
    PROVE  LiveSaved' /\ UNCHANGED live
<1> USE DEF TypeOK, Move, Finish
<1>a. pc \in [Thread -> ThreadPlace] /\ arg \in [Thread -> Arg]
  OBVIOUS
<1>1. CASE RampRead(t)
  <2>1. UNCHANGED <<live, fx>>
    BY <1>1 DEF RampRead, engineVars, settings, dataVars
  <2>2. arg'[t].ramp = fx /\ \A u \in Thread \ {t} : arg'[u] = arg[u] /\ pc'[u] = pc[u]
    BY <1>1, <1>a DEF RampRead, Arg
  <2> QED BY <2>1, <2>2 DEF LiveSaved
<1>2. CASE SetLive(t)
  <2>1. arg[t].ramp.active = fx.active
    BY <1>2 DEF SetLive, LiveSaved
  <2>2. UNCHANGED <<live, fx, arg>>
    BY <1>2, <2>1 DEF SetLive, LiveSaved, dataVars
  <2>3. \A u \in Thread : pc'[u] = "setLive" => pc[u] = "setLive"
    BY <1>2, <1>a DEF SetLive
  <2> QED BY <2>2, <2>3, LiveStill
<1>3. CASE LiveKick(t) \/ SetInterval(t) \/ Retick(t) \/ RampAfter(t) \/ Republish(t)
           \/ RepublishSend(t) \/ Kick(t) \/ ClearOverride(t) \/ PushSend(t) \/ PushSave(t)
           \/ HandSave(t) \/ ReadSave(t) \/ SessionRead(t)
  <2>1. UNCHANGED <<live, fx>>
    BY <1>3 DEF LiveKick, SetInterval, Retick, RampAfter, Republish, RepublishSend, Kick,
       ClearOverride, SetOverride, PushSend, PushSave, HandSave, ReadSave, SessionRead,
       engineVars, settings, dataVars
  <2>2. pc'[t] # "setLive" /\ \A u \in Thread \ {t} : pc'[u] = pc[u] /\ arg'[u] = arg[u]
    BY <1>3, <1>a DEF LiveKick, SetInterval, Retick, RampAfter, Republish, RepublishSend, Kick,
       ClearOverride, SetOverride, PushSend, PushSave, HandSave, ReadSave, SessionRead
  <2> QED BY <2>1, <2>2, LiveStill
<1> QED
  BY <1>1, <1>2, <1>3 DEF RequestStep

LEMMA LiveNewRequest ==
    ASSUME TypeOK, LiveSaved, Requests \cap {"rampStart", "rampStop"} = {},
           NEW c \in Client, NewRequest(c)
    PROVE  LiveSaved' /\ UNCHANGED live
<1> USE DEF TypeOK
<1>a. pc \in [Thread -> ThreadPlace] /\ arg \in [Thread -> Arg]
  OBVIOUS
<1>1. ~RampStart(c) /\ ~RampStop(c)
  BY DEF RampStart, RampStop, Accept
<1>2. CASE RampConfig(c)
  <2>1. fx'.active = fx.active /\ UNCHANGED live
    BY <1>2 DEF RampConfig, RampSave, engineVars, settings, EngineTypeOK, Effects
  <2>2. pc'[c] = "rampRead" /\ \A u \in Thread \ {c} : pc'[u] = pc[u] /\ arg'[u] = arg[u]
    BY <1>2, <1>a DEF RampConfig, RampSave, Thread
  <2> QED BY <2>1, <2>2, LiveStill
<1>3. CASE KickRequest(c) \/ FeedStart(c) \/ FeedStop(c) \/ MaintenanceStart(c)
           \/ MaintenanceStop(c) \/ Push(c) \/ HandRequest(c) \/ ReadLamp(c) \/ SessionOpen(c)
           \/ SessionClose(c)
  <2>1. UNCHANGED <<live, fx>>
    BY <1>3 DEF KickRequest, FeedStart, FeedStop, MaintenanceStart, MaintenanceStop, SetOverride,
       StopOverride, Push, HandRequest, ReadLamp, SessionOpen, SessionClose, engineVars, settings,
       dataVars
  <2>2. \A u \in Thread : pc'[u] = "setLive" => pc[u] = "setLive" /\ u # c
    BY <1>3, <1>a DEF KickRequest, FeedStart, FeedStop, MaintenanceStart, MaintenanceStop,
       SetOverride, StopOverride, Push, HandRequest, ReadLamp, SessionOpen, SessionClose, Accept,
       Thread, clientVars
  <2>3. \A u \in Thread \ {c} : arg'[u] = arg[u]
    BY <1>3, <1>a DEF KickRequest, FeedStart, FeedStop, MaintenanceStart, MaintenanceStop,
       SetOverride, StopOverride, Push, HandRequest, ReadLamp, SessionOpen, SessionClose, clientVars
  <2> QED BY <2>1, <2>2, <2>3, LiveStill
<1> QED
  BY <1>1, <1>2, <1>3 DEF NewRequest

(* No engine step sets the mode or the switch. *)
LEMMA EngineKeepsMode == Engine => UNCHANGED <<live, fx, pc, arg>>
<1>1. ASSUME TakeReticker \/ TickerFires \/ TakeTickNow \/ DailyTimer \/ TakeMaintNow \/ Reconnected
      PROVE  UNCHANGED <<live, fx>>
  BY <1>1 DEF TakeReticker, TickerFires, TakeTickNow, DailyTimer, TakeMaintNow, Reconnected,
     settings, dataVars
<1>2. ASSUME Step PROVE UNCHANGED <<live, fx>>
  BY <1>2 DEF Step, StepSkipped, StepRead, StepCompute, StepRearms, StepRearmRead, StepRearmSend,
     StepDormant, StepDrives, StepUnchanged, StepHand, StepBook, settings, dataVars
<1>3. ASSUME Maintenance PROVE UNCHANGED <<live, fx>>
  BY <1>3 DEF Maintenance, SyncClock, DriftSnapshot, DriftCompare, DriftRepushRead,
     DriftRepushSend, settings, dataVars
<1> QED
  BY <1>1, <1>2, <1>3 DEF Engine, EngineNext, clientVars

LEMMA EnvironmentKeepsMode == Environment => UNCHANGED <<live, fx, pc, arg>>
BY DEF Environment, TimePasses, ClockSet, OverrideExpires, engineVars, settings, dataVars,
   clientVars

(* What a request does to the lamp's level. *)
LEMMA OwnerRequests ==
    ASSUME TypeOK, OwnerInv, "loss" \notin Faults, NEW t \in Thread, RequestStep(t),
           UNCHANGED live
    PROVE  OwnerInv'
<1> USE DEF engineVars, stepVars
<1>1. UNCHANGED <<at, tick, overrideWas>>
  BY DEF RequestStep, RampRead, SetLive, LiveKick, SetInterval, EngineElse, Retick, RampAfter,
     Republish, RepublishSend, Kick, ClearOverride, SetOverride, PushSend, PushSave, HandSave,
     ReadSave, SessionRead
<1>2. CASE RepublishSend(t) \/ PushSend(t)
  <2>1. PICK ok \in BOOLEAN : Direct(Send(arg[t].work), ok)
    BY <1>2 DEF RepublishSend, PushSend
  <2>2. link' = link /\ lamp' \in {lamp, Send(arg[t].work)}
    BY <2>1, DirectHonest
  <2>3. lamp'.hand \in {lamp.hand, NoLevel}
    BY <2>2 DEF Send, PushSchedule
  <2> QED BY <1>1, <2>2, <2>3, OwnerKept
<1>3. CASE SessionRead(t)
  <2>1. PICK ok \in BOOLEAN : Do(lamp, ok)
    BY <1>3 DEF SessionRead
  <2>2. link' = link /\ lamp' = lamp
    BY <2>1, DoHonest
  <2> QED BY <1>1, <2>2, OwnerKept
<1>4. CASE RampRead(t) \/ SetLive(t) \/ LiveKick(t) \/ SetInterval(t) \/ Retick(t) \/ RampAfter(t)
           \/ Republish(t) \/ Kick(t) \/ ClearOverride(t) \/ PushSave(t) \/ HandSave(t)
           \/ ReadSave(t)
  <2>1. lamp' = lamp /\ link' = link
    BY <1>4 DEF RampRead, SetLive, LiveKick, SetInterval, Retick, RampAfter, Republish, Kick,
       ClearOverride, SetOverride, PushSave, HandSave, ReadSave, lampVars
  <2> QED BY <1>1, <2>1, OwnerKept
<1> QED
  BY <1>2, <1>3, <1>4 DEF RequestStep

LEMMA OwnerNewRequest ==
    ASSUME TypeOK, OwnerInv, "loss" \notin Faults, NEW c \in Client, NewRequest(c),
           UNCHANGED live
    PROVE  OwnerInv'
<1> USE DEF engineVars, stepVars
<1>1. UNCHANGED <<at, tick, overrideWas>>
  BY DEF NewRequest, RampStart, RampStop, RampConfig, RampSave, KickRequest, FeedStart, FeedStop,
     MaintenanceStart, MaintenanceStop, SetOverride, StopOverride, EngineElse, Push, HandRequest,
     ReadLamp, SessionOpen, SessionClose
<1>2. CASE HandRequest(c)
  <2>1. PICK ok \in BOOLEAN : Direct(Hand(<<"manual">>), ok)
    BY <1>2 DEF HandRequest
  <2>2. link' = link /\ (lamp' = lamp \/ (link /\ lamp' = Hand(<<"manual">>)))
    BY <2>1, DirectHonest
  <2>3. lamp'.hand = lamp.hand \/ (link /\ lamp'.hand \in ManualLevel)
    BY <2>2 DEF Hand, TypeOK, LampTypeOK, Lamp, ManualLevel
  <2> QED BY <1>1, <2>2, <2>3, OwnerKept
<1>3. CASE ~HandRequest(c)
  <2>1. lamp' = lamp /\ link' = link
    BY <1>3 DEF NewRequest, RampStart, RampStop, RampConfig, RampSave, KickRequest, FeedStart,
       FeedStop, MaintenanceStart, MaintenanceStop, SetOverride, StopOverride, Push, ReadLamp,
       SessionOpen, Touch, SessionClose, Sleep, lampVars
  <2> QED BY <1>1, <2>1, OwnerKept
<1> QED
  BY <1>2, <1>3

LEMMA OwnerEnvironment ==
    ASSUME TypeOK, OwnerInv, Faults \subseteq {"power"}, Environment
    PROVE  OwnerInv'
<1>1. UNCHANGED <<at, tick, overrideWas, live>>
  BY DEF Environment, TimePasses, ClockSet, OverrideExpires, engineVars, settings, stepVars
<1>2. CASE TimePasses \/ ClockSet \/ OverrideExpires
  BY <1>1, <1>2, OwnerKept DEF TimePasses, ClockSet, OverrideExpires, lampVars
<1>3. CASE DemandExpires \/ LinkUp
  BY <1>1, <1>3, OwnerKept DEF DemandExpires, Sleep, LinkUp
<1>4. CASE PowerCycle
  <2>1. lamp'.hand = NoLevel
    BY <1>4 DEF PowerCycle, TypeOK, LampTypeOK, Lamp
  <2> QED BY <1>1, <2>1, OwnerKept
<1>5. ~LinkDown
  BY DEF LinkDown, Fault
<1> QED
  BY <1>2, <1>3, <1>4, <1>5 DEF Environment

(* An override level on the lamp always has somebody who will end it,      *)
(* whatever the requests in progress are, as long as nobody throws the     *)
(* ramp switch, the process lives and no packet is lost.  Each hypothesis  *)
(* is needed: a restart forgets overrideWas; a re-arm that the lamp does   *)
(* not act on is not tried again (engine.go:330-337); a switch thrown off  *)
(* after a live tick failed to write leaves the end to rampStop's own      *)
(* republish (effects.go:150-165).                                         *)
THEOREM OwnerCorrect ==
    ASSUME Requests \cap {"rampStart", "rampStop"} = {}, Faults \subseteq {"power"},
           MaxRestarts = 0
    PROVE  Spec => []OverrideHasOwner
<1> DEFINE Inv == LiveSaved /\ OwnerInv
<1>1. Init => Inv
  <2> SUFFICES ASSUME Init PROVE Inv
    OBVIOUS
  <2>1. LiveSaved
    BY DEF Init, EngineInit, EngineStart, LiveSaved, StartPc
  <2>2. lamp.hand = NoLevel /\ link
    BY DEF Init, LampInit
  <2>3. TickOwns
    BY DEF Init, EngineInit, EngineStart, NoTick, TickOwns
  <2> QED
    BY <2>1, <2>2, <2>3, LevelKinds DEF OwnerInv, OverrideHasOwner, DarkWithoutLink
<1>2. TypeOK /\ Inv /\ [Next]_vars => Inv'
  <2> SUFFICES ASSUME TypeOK, LiveSaved, OwnerInv, [Next]_vars PROVE LiveSaved' /\ OwnerInv'
    OBVIOUS
  <2>0. "loss" \notin Faults
    OBVIOUS
  <2>1. CASE Engine
    BY <2>0, <2>1, EngineKeepsMode, LiveStill, OwnerLoop, OwnerStep, OwnerMaintenance
       DEF Engine, EngineNext
  <2>2. ASSUME NEW c \in Client, NewRequest(c) PROVE LiveSaved' /\ OwnerInv'
    BY <2>0, <2>2, LiveNewRequest, OwnerNewRequest
  <2>3. ASSUME NEW t \in Thread, RequestStep(t) PROVE LiveSaved' /\ OwnerInv'
    BY <2>0, <2>3, LiveRequests, OwnerRequests
  <2>4. CASE Environment
    BY <2>4, EnvironmentKeepsMode, LiveStill, OwnerEnvironment
  <2>5. ~Restart
    BY DEF Restart, TypeOK
  <2>6. CASE UNCHANGED vars
    <3>1. UNCHANGED <<at, tick, overrideWas, live, lamp, link>>
      BY <2>6 DEF vars, engineVars, settings, stepVars, lampVars
    <3>2. UNCHANGED <<fx, pc, arg>>
      BY <2>6 DEF vars, dataVars, clientVars
    <3> QED BY <3>1, <3>2, LiveStill, OwnerKept
  <2> QED
    BY <2>1, <2>2, <2>3, <2>4, <2>5, <2>6 DEF Next
<1>3. Inv => OverrideHasOwner
  BY DEF OwnerInv
<1> QED
  BY <1>1, <1>2, <1>3, TypeCorrect, PTL DEF Spec

-----------------------------------------------------------------------------
(* What the engine believes the lamp shows.  lastSent is right because the *)
(* engine is the lamp's only writer: its re-arm comes after it has cleared *)
(* lastSent, and its drift check never finds a drift to repair, since the  *)
(* lamp holds the schedule that was pushed.                                *)

Believed == lastSent # NoLevel => lamp.hand = lastSent

Written ==
    /\ at # "book" \/ ~tick.ok => Believed
    /\ at = "book" /\ tick.ok => lamp.hand = tick.out
    /\ at \in {"rearm", "rearmSend"} => lastSent = NoLevel

Held ==
    /\ at \notin {"repush", "repushSend"}
    /\ at = "drift" => store.pushed
    /\ store.pushed =>
         /\ lamp.sched = store.sched
         /\ at \in {"rearmSend", "drift"} => copy.sched = store.sched
         /\ \A t \in Thread : pc[t] = "readSave" => arg[t].work.sched = store.sched

(* Where a request that writes the lamp or the pushed schedule would stand, *)
(* and the way of a ramp request, which ends in a republish for rampStop.  *)
WriterPlace == {"republish", "republishSend", "pushSend", "pushSave", "handSave"}
RampPlace == {"rampRead", "setLive", "liveKick", "setInterval", "retick", "after"}

NoWriters ==
    \A t \in Thread :
        /\ pc[t] \notin WriterPlace
        /\ pc[t] \in RampPlace => arg[t].goal \in {"start", "config"}

(* A step of one goroutine that stays off the writers' places. *)
LEMMA NoWritersKept ==
    ASSUME NoWriters, NEW t \in Thread, pc'[t] \notin WriterPlace,
           pc'[t] \in RampPlace => arg'[t].goal \in {"start", "config"},
           \A u \in Thread \ {t} : pc'[u] = pc[u] /\ arg'[u] = arg[u]
    PROVE  NoWriters'
BY DEF NoWriters

LEMMA NoWritersRequests ==
    ASSUME TypeOK, NoWriters, NEW t \in Thread, RequestStep(t)
    PROVE  NoWriters'
<1> USE DEF TypeOK, Move, Finish
<1>a. pc \in [Thread -> ThreadPlace] /\ arg \in [Thread -> Arg]
      /\ pc[t] \notin WriterPlace /\ (pc[t] \in RampPlace => arg[t].goal \in {"start", "config"})
  BY DEF NoWriters
<1>1. CASE RampRead(t)
  <2>1. arg'[t].goal = arg[t].goal
    BY <1>1, <1>a DEF RampRead, Arg
  <2> QED
    BY <1>1, <2>1, <1>a, NoWritersKept DEF RampRead, RampPlace, WriterPlace
<1>2. CASE SetLive(t) \/ LiveKick(t) \/ Retick(t)
  <2>1. arg' = arg /\ pc'[t] \in RampPlace /\ pc[t] \in RampPlace
    BY <1>2, <1>a DEF SetLive, LiveKick, Retick, RampPlace
  <2>2. \A u \in Thread \ {t} : pc'[u] = pc[u]
    BY <1>2, <1>a DEF SetLive, LiveKick, Retick
  <2>3. pc'[t] \notin WriterPlace
    BY <2>1 DEF RampPlace, WriterPlace
  <2> QED
    BY <2>1, <2>2, <2>3, <1>a, NoWritersKept
<1>3. CASE SetInterval(t)
  <2>1. arg'[t].goal = arg[t].goal
    BY <1>3, <1>a DEF SetInterval, Arg
  <2> QED
    BY <1>3, <2>1, <1>a, NoWritersKept DEF SetInterval, RampPlace, WriterPlace
<1>4. CASE RampAfter(t)
  <2>1. arg[t].goal \in {"start", "config"}
    BY <1>4, <1>a DEF RampAfter, RampPlace
  <2>2. pc'[t] \in {"idle", "kick"} /\ \A u \in Thread \ {t} : pc'[u] = pc[u] /\ arg'[u] = arg[u]
    BY <1>4, <2>1, <1>a DEF RampAfter
  <2> QED
    BY <2>2, NoWritersKept DEF RampPlace, WriterPlace
<1>5. CASE Kick(t) \/ ClearOverride(t) \/ ReadSave(t) \/ SessionRead(t)
  <2>1. pc'[t] \in {"idle", "kick"} /\ \A u \in Thread \ {t} : pc'[u] = pc[u] /\ arg'[u] = arg[u]
    BY <1>5, <1>a DEF Kick, ClearOverride, SetOverride, ReadSave, SessionRead
  <2> QED
    BY <2>1, NoWritersKept DEF RampPlace, WriterPlace
<1>6. ~(Republish(t) \/ RepublishSend(t) \/ PushSend(t) \/ PushSave(t) \/ HandSave(t))
  BY <1>a DEF Republish, RepublishSend, PushSend, PushSave, HandSave, WriterPlace
<1> QED
  BY <1>1, <1>2, <1>3, <1>4, <1>5, <1>6 DEF RequestStep

LEMMA NoWritersNewRequest ==
    ASSUME TypeOK, NoWriters, Requests \cap {"rampStop", "push", "hand"} = {},
           NEW c \in Client, NewRequest(c)
    PROVE  NoWriters'
<1> USE DEF TypeOK
<1>a. pc \in [Thread -> ThreadPlace] /\ arg \in [Thread -> Arg] /\ c \in Thread
  BY DEF Thread
<1>1. ~RampStop(c) /\ ~Push(c) /\ ~HandRequest(c)
  BY DEF RampStop, Push, HandRequest, Accept
<1>2. CASE RampStart(c) \/ RampConfig(c)
  <2>1. pc' = [pc EXCEPT ![c] = "rampRead"]
        /\ \E goal \in {"start", "config"} : arg' = [arg EXCEPT ![c].goal = goal]
    BY <1>2 DEF RampStart, RampConfig, RampSave
  <2>2. pc'[c] = "rampRead" /\ arg'[c].goal \in {"start", "config"}
        /\ \A u \in Thread \ {c} : pc'[u] = pc[u] /\ arg'[u] = arg[u]
    BY <2>1, <1>a DEF Arg
  <2> QED
    BY <2>2, <1>a, NoWritersKept DEF RampPlace, WriterPlace
<1>3. CASE KickRequest(c) \/ FeedStart(c) \/ FeedStop(c) \/ MaintenanceStart(c)
           \/ MaintenanceStop(c) \/ ReadLamp(c) \/ SessionOpen(c) \/ SessionClose(c)
  <2>1. pc'[c] \in {"idle", "kick", "clear", "readSave", "touchRead"}
    BY <1>3, <1>a DEF KickRequest, FeedStart, FeedStop, MaintenanceStart, MaintenanceStop,
       SetOverride, StopOverride, ReadLamp, SessionOpen, SessionClose, Accept, clientVars
  <2>2. \A u \in Thread \ {c} : pc'[u] = pc[u] /\ arg'[u] = arg[u]
    BY <1>3, <1>a DEF KickRequest, FeedStart, FeedStop, MaintenanceStart, MaintenanceStop,
       SetOverride, StopOverride, ReadLamp, SessionOpen, SessionClose, Accept, clientVars
  <2> QED
    BY <2>1, <2>2, <1>a, NoWritersKept DEF RampPlace, WriterPlace
<1> QED
  BY <1>1, <1>2, <1>3 DEF NewRequest

LEMMA NoWritersStart ==
    ASSUME pc = StartPc, arg = StartArg
    PROVE  NoWriters
<1>1. \A t \in Thread : pc[t] = IF t = "main" THEN "rampRead" ELSE "idle"
  BY DEF StartPc
<1>2. arg["main"].goal = "config"
  BY DEF StartArg, Thread, NoArg
<1> QED
  BY <1>1, <1>2 DEF NoWriters, WriterPlace, RampPlace

LEMMA WrittenKept ==
    ASSUME Written, lamp'.hand = lamp.hand, lastSent' \in {lastSent, NoLevel},
           \/ UNCHANGED <<at, tick>>
           \/ at # "book" /\ at' \notin {"book", "rearm", "rearmSend"}
    PROVE  Written'
BY DEF Written, Believed

LEMMA HeldKept ==
    ASSUME Held, lamp'.sched = lamp.sched, UNCHANGED <<store, pc, arg>>,
           \/ UNCHANGED <<at, copy>>
           \/ at' \notin {"repush", "repushSend", "drift", "rearmSend"}
    PROVE  Held'
BY DEF Held

LEMMA BeliefLoop ==
    ASSUME Held, Written, UNCHANGED <<pc, arg>>
    PROVE  TickerFires \/ TakeTickNow \/ TakeReticker \/ DailyTimer \/ TakeMaintNow \/ Reconnected
             => Held' /\ Written'
<1>1. ASSUME TickerFires \/ TakeTickNow \/ DailyTimer \/ TakeMaintNow PROVE Held' /\ Written'
  <2>1. at = "idle" /\ at' \in {"step", "sync"} /\ UNCHANGED <<lamp, lastSent, store>>
    BY <1>1 DEF TickerFires, TakeTickNow, DailyTimer, TakeMaintNow, Loop, stepVars, lampVars,
       dataVars
  <2> QED
    BY <2>1, HeldKept, WrittenKept
<1>2. ASSUME TakeReticker \/ Reconnected PROVE Held' /\ Written'
  <2>1. UNCHANGED <<at, copy, tick, lamp, lastSent, store>>
    BY <1>2 DEF TakeReticker, Reconnected, stepVars, lampVars, dataVars
  <2> QED
    BY <2>1, HeldKept, WrittenKept
<1> QED
  BY <1>1, <1>2

LEMMA BeliefMaintenance ==
    ASSUME TypeOK, Held, Written, "loss" \notin Faults, UNCHANGED <<pc, arg>>
    PROVE  Maintenance => Held' /\ Written'
<1> USE DEF stepVars, dataVars
<1>0. ASSUME MaintenanceEnds PROVE at' \in {"idle", "step"}
  BY <1>0 DEF MaintenanceEnds
<1>1. ASSUME SyncClock PROVE Held' /\ Written'
  <2>1. PICK ok \in BOOLEAN : Do(SyncTime(clockSane), ok)
    BY <1>1 DEF SyncClock
  <2>2. lamp' \in {lamp, SyncTime(clockSane)}
    BY <2>1, DoHonest
  <2>3. lamp'.hand = lamp.hand /\ lamp'.sched = lamp.sched
    BY <2>2 DEF SyncTime, TypeOK, LampTypeOK, Lamp
  <2>4. at = "sync" /\ at' \in {"snap", "idle", "step"} /\ UNCHANGED <<lastSent, store>>
    BY <1>1, <1>0 DEF SyncClock
  <2> QED
    BY <2>3, <2>4, HeldKept, WrittenKept
<1>2. ASSUME DriftSnapshot PROVE Held' /\ Written'
  <2>1. UNCHANGED <<lamp, store, lastSent>> /\ at = "snap" /\ at' \in {"drift", "idle", "step"}
    BY <1>2, <1>0 DEF DriftSnapshot, lampVars
  <2>2. at' = "drift" => store.pushed /\ copy'.sched = store.sched
    BY <1>2, <1>0 DEF DriftSnapshot, Working
  <2> QED
    BY <2>1, <2>2, WrittenKept DEF Held
<1>3. ASSUME DriftCompare PROVE Held' /\ Written'
  <2>1. PICK ok \in BOOLEAN : Do(lamp, ok)
    BY <1>3 DEF DriftCompare
  <2>2. lamp' = lamp
    BY <2>1, DoHonest
  <2>3. lamp.sched = copy.sched
    BY <1>3 DEF DriftCompare, Held
  <2>4. at = "drift" /\ at' \in {"idle", "step"} /\ UNCHANGED <<lastSent, store>>
    BY <1>3, <1>0, <2>3 DEF DriftCompare
  <2> QED
    BY <2>2, <2>4, HeldKept, WrittenKept
<1>4. ~DriftRepushRead /\ ~DriftRepushSend
  BY DEF DriftRepushRead, DriftRepushSend, Held
<1> QED
  BY <1>1, <1>2, <1>3, <1>4 DEF Maintenance

LEMMA BeliefStep ==
    ASSUME TypeOK, Held, Written, "loss" \notin Faults, UNCHANGED <<pc, arg>>
    PROVE  Step => Held' /\ Written'
<1> USE DEF stepVars, lampVars, dataVars
<1>0. ASSUME StepEnds PROVE at' = "idle"
  BY <1>0 DEF StepEnds
<1>1. ASSUME StepSkipped \/ StepRead \/ StepCompute \/ StepDrives \/ StepUnchanged \/ StepDormant
      PROVE  Held' /\ Written'
  <2>1. UNCHANGED <<lamp, store>> /\ lastSent' \in {lastSent, NoLevel}
    BY <1>1 DEF StepSkipped, StepRead, StepCompute, StepDrives, StepUnchanged, StepDormant
  <2>2. at # "book" /\ at' \in {"idle", "compute", "decide", "hand"}
    BY <1>1, <1>0 DEF StepSkipped, StepRead, StepCompute, StepDrives, StepUnchanged, StepDormant
  <2> QED
    BY <2>1, <2>2, HeldKept, WrittenKept
<1>2. ASSUME StepRearms PROVE Held' /\ Written'
  <2>1. Held'
    BY <1>2, HeldKept DEF StepRearms
  <2>2. Written'
    BY <1>2 DEF StepRearms, Written, Believed
  <2> QED BY <2>1, <2>2
<1>3. ASSUME StepRearmRead PROVE Held' /\ Written'
  <2>1. Held'
    BY <1>3 DEF StepRearmRead, Working, Held
  <2>2. Written'
    BY <1>3 DEF StepRearmRead, Written, Believed
  <2> QED BY <2>1, <2>2
<1>4. ASSUME StepRearmSend PROVE Held' /\ Written'
  <2> DEFINE new == PushSchedule(copy.sched, copy.auto, copy.manual, clockSane)
  <2>1. PICK ok \in BOOLEAN : Direct(new, ok)
    BY <1>4 DEF StepRearmSend
  <2>2. lamp' \in {lamp, new}
    BY <2>1, DirectHonest
  <2>3. lamp'.sched \in {lamp.sched, copy.sched}
    BY <2>2 DEF PushSchedule
  <2>4. at = "rearmSend" /\ at' = "idle" /\ UNCHANGED <<store, lastSent>>
    BY <1>4, <1>0 DEF StepRearmSend
  <2>5. Held'
    BY <2>3, <2>4 DEF Held
  <2>6. Written'
    BY <2>4 DEF Written, Believed
  <2> QED BY <2>5, <2>6
<1>5. ASSUME StepHand PROVE Held' /\ Written'
  <2>1. PICK ok \in BOOLEAN : Do(Hand(tick.out), ok) /\ tick' = [tick EXCEPT !.ok = ok]
    BY <1>5 DEF StepHand
  <2>2. (ok /\ lamp' = Hand(tick.out)) \/ (~ok /\ lamp' = lamp)
    BY <2>1, DoHonest
  <2>3. tick'.ok = ok /\ tick'.out = tick.out
    BY <2>1 DEF TypeOK, EngineTypeOK, Tick
  <2>4. lamp'.sched = lamp.sched /\ (ok => lamp'.hand = tick.out)
    BY <2>2 DEF Hand, TypeOK, LampTypeOK, Lamp
  <2>5. at = "hand" /\ at' = "book" /\ UNCHANGED <<store, lastSent>>
    BY <1>5 DEF StepHand
  <2>6. Held'
    BY <2>4, <2>5, HeldKept
  <2>7. Written'
    BY <2>2, <2>3, <2>4, <2>5 DEF Written, Believed
  <2> QED BY <2>6, <2>7
<1>6. ASSUME StepBook PROVE Held' /\ Written'
  <2>1. at = "book" /\ at' = "idle" /\ UNCHANGED <<lamp, store>>
        /\ lastSent' = IF tick.ok THEN tick.out ELSE lastSent
    BY <1>6, <1>0 DEF StepBook
  <2>2. Held'
    BY <2>1, HeldKept
  <2>3. Written'
    BY <2>1 DEF Written, Believed
  <2> QED BY <2>2, <2>3
<1> QED
  BY <1>1, <1>2, <1>3, <1>4, <1>5, <1>6 DEF Step

LEMMA BeliefRequests ==
    ASSUME TypeOK, NoWriters, Held, Written, "loss" \notin Faults, NEW t \in Thread, RequestStep(t)
    PROVE  Held' /\ Written'
<1> USE DEF TypeOK, Move, Finish, engineVars, stepVars, dataVars
<1>a. pc \in [Thread -> ThreadPlace] /\ arg \in [Thread -> Arg]
  OBVIOUS
<1>1. ~(Republish(t) \/ RepublishSend(t) \/ PushSend(t) \/ PushSave(t) \/ HandSave(t))
  BY DEF NoWriters, Republish, RepublishSend, PushSend, PushSave, HandSave, WriterPlace
<1>2. UNCHANGED <<at, tick, copy>> /\ lastSent' \in {lastSent, NoLevel}
  BY DEF RequestStep, RampRead, SetLive, LiveKick, SetInterval, EngineElse, Retick, RampAfter,
     Republish, RepublishSend, Kick, ClearOverride, SetOverride, PushSend, PushSave, HandSave,
     ReadSave, SessionRead
<1>3. UNCHANGED lamp
  <2>1. CASE SessionRead(t)
    BY <2>1, DoHonest DEF SessionRead
  <2>2. CASE ~SessionRead(t)
    BY <1>1, <2>2 DEF RequestStep, RampRead, SetLive, LiveKick, SetInterval, Retick, RampAfter,
       Kick, ClearOverride, SetOverride, ReadSave, lampVars
  <2> QED BY <2>1, <2>2
<1>4. Written'
  BY <1>2, <1>3, WrittenKept
<1>5. CASE ReadSave(t)
  <2>1. pc[t] = "readSave" /\ pc' = [pc EXCEPT ![t] = "idle"]
        /\ \A u \in Thread \ {t} : arg'[u] = arg[u]
    BY <1>5, <1>a DEF ReadSave
  <2>2. store'.pushed = store.pushed /\ store'.sched = arg[t].work.sched
    BY <1>5 DEF ReadSave, EngineTypeOK, Store
  <2>3. store.pushed => store'.sched = store.sched
    BY <2>1, <2>2 DEF Held
  <2>4. \A u \in Thread : pc'[u] = "readSave" => pc[u] = "readSave" /\ arg'[u] = arg[u]
    BY <2>1, <1>a
  <2> QED
    BY <1>2, <1>3, <1>4, <2>2, <2>3, <2>4 DEF Held
<1>6. CASE ~ReadSave(t)
  <2>1. UNCHANGED store
    BY <1>1, <1>6 DEF RequestStep, RampRead, SetLive, LiveKick, SetInterval, Retick, RampAfter,
       Kick, ClearOverride, SetOverride, SessionRead
  <2>2. pc'[t] # "readSave" /\ \A u \in Thread \ {t} : pc'[u] = pc[u] /\ arg'[u] = arg[u]
    BY <1>1, <1>6, <1>a DEF RequestStep, RampRead, SetLive, LiveKick, SetInterval, Retick,
       RampAfter, Kick, ClearOverride, SetOverride, SessionRead
  <2> QED
    BY <1>2, <1>3, <1>4, <2>1, <2>2 DEF Held
<1> QED
  BY <1>5, <1>6

LEMMA BeliefNewRequest ==
    ASSUME TypeOK, Held, Written, Requests \cap {"rampStop", "push", "hand"} = {},
           NEW c \in Client, NewRequest(c)
    PROVE  Held' /\ Written'
<1> USE DEF TypeOK, engineVars, stepVars, dataVars
<1>a. pc \in [Thread -> ThreadPlace] /\ arg \in [Thread -> Arg] /\ c \in Thread
  BY DEF Thread
<1>1. ~RampStop(c) /\ ~Push(c) /\ ~HandRequest(c)
  BY DEF RampStop, Push, HandRequest, Accept
<1>2. UNCHANGED <<at, tick, copy, lastSent>>
  BY <1>1 DEF NewRequest, RampStart, RampConfig, RampSave, KickRequest, FeedStart, FeedStop,
     MaintenanceStart, MaintenanceStop, SetOverride, StopOverride, EngineElse, ReadLamp,
     SessionOpen, SessionClose
<1>3. UNCHANGED <<lamp, store>>
  BY <1>1 DEF NewRequest, RampStart, RampConfig, RampSave, KickRequest, FeedStart, FeedStop,
     MaintenanceStart, MaintenanceStop, SetOverride, StopOverride, ReadLamp, SessionOpen, Touch,
     SessionClose, Sleep, lampVars
<1>4. Written'
  BY <1>2, <1>3, WrittenKept
<1>5. \A u \in Thread \ {c} : pc'[u] = pc[u] /\ arg'[u] = arg[u]
  BY <1>1, <1>a DEF NewRequest, RampStart, RampConfig, RampSave, KickRequest, FeedStart, FeedStop,
     MaintenanceStart, MaintenanceStop, SetOverride, StopOverride, ReadLamp, SessionOpen,
     SessionClose, clientVars
<1>6. CASE ReadLamp(c)
  <2>1. arg'[c].work.sched = lamp.sched
    BY <1>6, <1>a DEF ReadLamp, Working, Arg
  <2> QED
    BY <1>2, <1>3, <1>4, <1>5, <2>1 DEF Held
<1>7. CASE ~ReadLamp(c)
  <2>1. pc'[c] # "readSave"
    BY <1>1, <1>7, <1>a DEF NewRequest, RampStart, RampConfig, RampSave, KickRequest, FeedStart,
       FeedStop, MaintenanceStart, MaintenanceStop, SetOverride, StopOverride, SessionOpen,
       SessionClose, clientVars, Accept
  <2> QED
    BY <1>2, <1>3, <1>4, <1>5, <2>1 DEF Held
<1> QED
  BY <1>6, <1>7

LEMMA BeliefEnvironment ==
    ASSUME Held, Written, Faults \subseteq {"outage"}, Environment
    PROVE  Held' /\ Written'
<1>1. UNCHANGED <<at, tick, copy, lastSent, store, pc, arg>>
  BY DEF Environment, TimePasses, ClockSet, OverrideExpires, engineVars, stepVars, dataVars,
     clientVars
<1>2. UNCHANGED lamp
  BY DEF Environment, TimePasses, ClockSet, OverrideExpires, DemandExpires, Sleep, LinkDown, LinkUp,
     PowerCycle, Fault, lampVars
<1> QED
  BY <1>1, <1>2, HeldKept, WrittenKept

(* The engine is right to skip a write that repeats the last one           *)
(* (engine.go:354) for as long as nobody else writes the lamp: no push, no *)
(* hand level, no rampStop with its republish; and the lamp neither loses  *)
(* a packet nor its power.  Restarts, outages of the link and any number   *)
(* of other requests do no harm.                                           *)
THEOREM BeliefCorrect ==
    ASSUME Requests \cap {"rampStop", "push", "hand"} = {}, Faults \subseteq {"outage"}
    PROVE  Spec => []BeliefMatchesLamp
<1> DEFINE Inv == NoWriters /\ Held /\ Written
<1>1. Init => Inv
  <2> SUFFICES ASSUME Init PROVE Inv
    OBVIOUS
  <2>1. pc = StartPc /\ arg = StartArg /\ at = "sync" /\ lastSent = NoLevel
    BY DEF Init, EngineInit, EngineStart
  <2>2. NoWriters /\ Written
    BY <2>1, NoWritersStart DEF Written, Believed
  <2>3. \A t \in Thread : pc[t] # "readSave"
    BY <2>1 DEF StartPc
  <2>4. store.pushed => lamp.sched = store.sched
    BY DEF Init, EngineInit
  <2> QED
    BY <2>1, <2>2, <2>3, <2>4 DEF Held
<1>2. TypeOK /\ Inv /\ [Next]_vars => Inv'
  <2> SUFFICES ASSUME TypeOK, NoWriters, Held, Written, [Next]_vars
               PROVE  NoWriters' /\ Held' /\ Written'
    OBVIOUS
  <2>0. "loss" \notin Faults
    OBVIOUS
  <2>a. ASSUME UNCHANGED <<pc, arg>> PROVE NoWriters'
    BY <2>a DEF NoWriters
  <2>1. CASE Engine
    <3>1. UNCHANGED <<pc, arg>>
      BY <2>1 DEF Engine, clientVars
    <3> QED
      BY <2>0, <2>1, <2>a, <3>1, BeliefLoop, BeliefStep, BeliefMaintenance DEF Engine, EngineNext
  <2>2. ASSUME NEW c \in Client, NewRequest(c) PROVE NoWriters' /\ Held' /\ Written'
    BY <2>2, NoWritersNewRequest, BeliefNewRequest
  <2>3. ASSUME NEW t \in Thread, RequestStep(t) PROVE NoWriters' /\ Held' /\ Written'
    BY <2>0, <2>3, NoWritersRequests, BeliefRequests
  <2>4. CASE Environment
    <3>1. UNCHANGED <<pc, arg>>
      BY <2>4 DEF Environment, clientVars
    <3> QED
      BY <2>4, <2>a, <3>1, BeliefEnvironment
  <2>5. CASE Restart
    <3>1. UNCHANGED <<lamp, store>> /\ at' = "sync" /\ lastSent' = NoLevel
          /\ pc' = StartPc /\ arg' = StartArg
      BY <2>5 DEF Restart, dataVars
    <3>2. \A t \in Thread : pc'[t] = IF t = "main" THEN "rampRead" ELSE "idle"
      BY <3>1 DEF StartPc
    <3>3. arg'["main"].goal = "config"
      BY <3>1 DEF StartArg, Thread, NoArg
    <3>4. NoWriters'
      BY <3>2, <3>3 DEF NoWriters, WriterPlace, RampPlace
    <3>5. Held' /\ Written'
      BY <3>1, <3>2 DEF Held, Written, Believed
    <3> QED
      BY <3>4, <3>5
  <2>6. CASE UNCHANGED vars
    <3>1. UNCHANGED <<at, tick, copy, lamp, lastSent>>
      BY <2>6 DEF vars, engineVars, stepVars, lampVars
    <3>2. UNCHANGED <<store, pc, arg>>
      BY <2>6 DEF vars, dataVars, clientVars
    <3> QED BY <3>1, <3>2, <2>a, HeldKept, WrittenKept
  <2> QED
    BY <2>1, <2>2, <2>3, <2>4, <2>5, <2>6 DEF Next
<1>3. Inv => BeliefMatchesLamp
  BY DEF Written, Believed, BeliefMatchesLamp
<1> QED
  BY <1>1, <1>2, <1>3, TypeCorrect, PTL DEF Spec
=============================================================================
