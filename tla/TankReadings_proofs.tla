-------------------------- MODULE TankReadings_proofs --------------------------
(***************************************************************************)
(* What holds of the mirror and of the temperature for every number of     *)
(* states, every back-off and any number of restarts.                      *)
(***************************************************************************)
EXTENDS TankReadings, TLAPS

(***************************************************************************)
(* The mirror.  Whatever is on its way to it is not older than it.         *)
(***************************************************************************)
InOrder(s) == \A i, j \in DOMAIN s : i <= j => s[i] <= s[j]

MirrorInv ==
    /\ ha.version \in Nat /\ mirror.version \in Nat /\ restarts \in Nat
    /\ mirror \in [version : Nat, ready : BOOLEAN]
    /\ sync \in [at : {"ask", "take", "dial", "listen"}, version : Nat]
    /\ events \in Seq(Nat) /\ InOrder(events)
    /\ \A i \in DOMAIN events : mirror.version <= events[i] /\ events[i] <= ha.version
    /\ mirror.version <= ha.version
    /\ sync.at # "listen" => events = <<>>
    /\ sync.at = "take" => mirror.version <= sync.version /\ sync.version <= ha.version

LEMMA EventAdded ==
    ASSUME NEW s \in Seq(Nat), InOrder(s), NEW v \in Nat, \A i \in DOMAIN s : s[i] <= v
    PROVE  /\ Append(s, v) \in Seq(Nat) /\ InOrder(Append(s, v))
           /\ \A i \in DOMAIN Append(s, v) :
                 Append(s, v)[i] = v \/ (i \in DOMAIN s /\ Append(s, v)[i] = s[i])
<1>1. /\ Len(s) \in Nat /\ DOMAIN s = 1..Len(s) /\ DOMAIN Append(s, v) = 1..(Len(s) + 1)
      /\ \A i \in 1..Len(s) : Append(s, v)[i] = s[i]
      /\ Append(s, v)[Len(s) + 1] = v
  OBVIOUS
<1>2. InOrder(Append(s, v))
  <2>1. SUFFICES ASSUME NEW i \in 1..(Len(s) + 1), NEW j \in 1..(Len(s) + 1), i <= j
                 PROVE  Append(s, v)[i] <= Append(s, v)[j]
    BY <1>1 DEF InOrder
  <2>2. CASE j = Len(s) + 1
    BY <1>1, <2>1, <2>2
  <2>3. CASE j # Len(s) + 1
    BY <1>1, <2>1, <2>3 DEF InOrder
  <2> QED BY <2>2, <2>3
<1> QED BY <1>1, <1>2

LEMMA EventTaken ==
    ASSUME NEW s \in Seq(Nat), InOrder(s), s # <<>>
    PROVE  /\ Head(s) \in Nat /\ 1 \in DOMAIN s /\ Head(s) = s[1]
           /\ Tail(s) \in Seq(Nat) /\ InOrder(Tail(s))
           /\ \A i \in DOMAIN Tail(s) :
                 i + 1 \in DOMAIN s /\ Tail(s)[i] = s[i + 1] /\ Head(s) <= Tail(s)[i]
<1>1. /\ Len(s) \in Nat /\ Len(s) >= 1 /\ DOMAIN s = 1..Len(s) /\ Head(s) = s[1]
      /\ DOMAIN Tail(s) = 1..(Len(s) - 1)
      /\ \A i \in 1..(Len(s) - 1) : Tail(s)[i] = s[i + 1]
  OBVIOUS
<1>2. \A i \in 1..(Len(s) - 1) : i + 1 \in DOMAIN s /\ Tail(s)[i] = s[i + 1] /\ s[1] <= s[i + 1]
  BY <1>1 DEF InOrder
<1>3. InOrder(Tail(s))
  BY SMTT(20), <1>1 DEF InOrder
<1> QED BY <1>1, <1>2, <1>3

LEMMA MirrorInit == ReadingsInit => MirrorInv
BY DEF ReadingsInit, MirrorInv, NotAsked, Empty, InOrder

LEMMA MirrorStep == MirrorInv /\ [ReadingsNext]_readingsVars => MirrorInv'
<1> SUFFICES ASSUME MirrorInv, [ReadingsNext]_readingsVars PROVE MirrorInv'
  OBVIOUS
<1>1. CASE HAChanges
  <2>1. ha'.version = ha.version + 1 /\ UNCHANGED <<sync, mirror, restarts>>
    BY <1>1 DEF HAChanges
  <2>2. /\ events' \in Seq(Nat) /\ InOrder(events')
        /\ \A i \in DOMAIN events' : mirror.version <= events'[i] /\ events'[i] <= ha'.version
    <3>1. CASE events' = events
      BY <2>1, <3>1 DEF MirrorInv
    <3>2. CASE events' = Append(events, ha'.version)
      <4>1. ha'.version \in Nat /\ \A i \in DOMAIN events : events[i] <= ha'.version
        BY <2>1 DEF MirrorInv
      <4> QED BY <2>1, <3>2, <4>1, EventAdded DEF MirrorInv
    <3> QED BY <1>1, <3>1, <3>2 DEF HAChanges
  <2>3. sync.at # "listen" => events' = <<>>
    BY <1>1 DEF HAChanges, MirrorInv
  <2> QED BY <2>1, <2>2, <2>3 DEF MirrorInv
<1>2. CASE SyncListens
  <2>1. events # <<>> /\ events' = Tail(events) /\ UNCHANGED <<ha, sync, restarts>>
        /\ mirror' = [mirror EXCEPT !.version = Head(events)] /\ sync.at = "listen"
    BY <1>2 DEF SyncListens, Accept
  <2>2. /\ events' \in Seq(Nat) /\ InOrder(events') /\ Head(events) \in Nat
        /\ Head(events) <= ha.version
        /\ \A i \in DOMAIN events' : Head(events) <= events'[i] /\ events'[i] <= ha.version
    BY <2>1, EventTaken DEF MirrorInv
  <2>3. mirror' \in [version : Nat, ready : BOOLEAN] /\ mirror'.version = Head(events)
    BY <2>1, <2>2 DEF MirrorInv
  <2> QED BY <2>1, <2>2, <2>3 DEF MirrorInv
<1>3. CASE SyncAsks
  <2>1. sync.at = "ask" /\ sync' = [at |-> "take", version |-> ha.version]
        /\ UNCHANGED <<ha, events, mirror, restarts>>
    BY <1>3 DEF SyncAsks
  <2> QED BY <2>1 DEF MirrorInv
<1>4. CASE SyncTakes
  <2>1. events' = events /\ ha' = ha /\ restarts' = restarts /\ sync.at = "take"
        /\ sync' = [at |-> "dial", version |-> 0]
        /\ mirror' = [version |-> sync.version, ready |-> TRUE]
    BY <1>4 DEF SyncTakes
  <2> QED BY <2>1 DEF MirrorInv
<1>5. CASE SyncSubscribes \/ SyncFails
  <2>1. /\ ha' = ha /\ restarts' = restarts /\ events' = <<>>
        /\ sync' \in [at : {"ask", "listen"}, version : Nat]
        /\ mirror' \in [version : Nat, ready : BOOLEAN] /\ mirror'.version = mirror.version
    <3>1. CASE SyncSubscribes
      BY <3>1 DEF SyncSubscribes, MirrorInv
    <3>2. CASE SyncFails
      BY <3>2 DEF SyncFails, MirrorInv
    <3> QED BY <1>5, <3>1, <3>2
  <2>2. InOrder(<<>>)
    BY DEF InOrder
  <2> QED BY <2>1, <2>2 DEF MirrorInv
<1>6. CASE ReadingsRestart
  BY <1>6 DEF ReadingsRestart, MirrorInv, InOrder, NotAsked, Empty
<1>7. CASE BackfillRecords \/ CleanupRetention \/ PutSource \/ PollerStep \/ MinutePasses
           \/ UNCHANGED readingsVars
  <2>1. UNCHANGED <<ha, sync, events, mirror, restarts>>
    BY <1>7 DEF BackfillRecords, CleanupRetention, PutSource, PollerStep, MinutePasses,
       PollerWakes, PollerTakesSample, PollerHasNoService, PollerBacksOff, PollAnswers,
       PollFails, PollerUnchangedBut, vars_sync, readingsVars
  <2> QED BY <2>1 DEF MirrorInv
<1> QED BY <1>1, <1>2, <1>3, <1>4, <1>5, <1>6, <1>7 DEF ReadingsNext

LEMMA MirrorForward ==
    MirrorInv /\ [ReadingsNext]_readingsVars
        => [mirror'.version >= mirror.version \/ restarts' # restarts]_readingsVars
<1> SUFFICES ASSUME MirrorInv, ReadingsNext, restarts' = restarts
             PROVE  mirror'.version >= mirror.version
  OBVIOUS
<1>a. mirror \in [version : Nat, ready : BOOLEAN] /\ mirror.version \in Nat
  BY DEF MirrorInv
<1>1. CASE SyncListens
  <2>1. /\ events # <<>> /\ mirror' = [mirror EXCEPT !.version = Head(events)]
        /\ Head(events) >= mirror.version
    BY <1>1, EventTaken DEF SyncListens, Accept, MirrorInv
  <2> QED BY <1>a, <2>1
<1>2. CASE SyncTakes
  BY <1>2 DEF SyncTakes, MirrorInv
<1>3. CASE SyncFails
  BY <1>a, <1>3 DEF SyncFails
<1>4. CASE ReadingsRestart
  BY <1>4 DEF ReadingsRestart, MirrorInv
<1>5. CASE mirror' = mirror
  BY <1>a, <1>5
<1>6. CASE HAChanges \/ SyncAsks \/ SyncSubscribes \/ BackfillRecords \/ CleanupRetention
           \/ PutSource \/ PollerStep \/ MinutePasses
  BY <1>5, <1>6 DEF HAChanges, SyncAsks, SyncSubscribes, BackfillRecords, CleanupRetention,
     PutSource, PollerStep, MinutePasses, PollerWakes, PollerTakesSample, PollerHasNoService,
     PollerBacksOff, PollAnswers, PollFails, PollerUnchangedBut, vars_sync
<1> QED BY <1>1, <1>2, <1>3, <1>4, <1>6 DEF ReadingsNext

\* The mirror follows Home Assistant forward only, whatever is lost with a
\* connection and whatever the backfill writes meanwhile (accept and Backfill).
THEOREM MirrorCorrect == ReadingsSpec => MirrorMonotone
BY MirrorInit, MirrorStep, MirrorForward, PTL DEF ReadingsSpec, MirrorMonotone

(***************************************************************************)
(* The temperature.                                                        *)
(***************************************************************************)
ReadingInv ==
    /\ reading \in [source : Source, from : Source \cup {"none"}, stale : BOOLEAN]
    /\ FreshFromItsSource

LEMMA ReadingStep == ReadingInv /\ [ReadingsNext]_readingsVars => ReadingInv'
<1> SUFFICES ASSUME ReadingInv, [ReadingsNext]_readingsVars PROVE ReadingInv'
  OBVIOUS
<1>1. CASE reading' = reading
  BY <1>1 DEF ReadingInv, FreshFromItsSource
<1>2. CASE PollerStep
  <2>1. CASE PollerTakesSample
    <3>1. PICK ok \in BOOLEAN, old \in BOOLEAN :
             reading' = [source |-> "ha", from |-> IF ok THEN "ha" ELSE "none",
                         stale |-> ~ok \/ old]
      BY <2>1 DEF PollerTakesSample
    <3>2. CASE ok
      BY <3>1, <3>2 DEF ReadingInv, FreshFromItsSource, Source
    <3>3. CASE ~ok
      BY <3>1, <3>3 DEF ReadingInv, FreshFromItsSource, Source
    <3> QED BY <3>2, <3>3
  <2>2. CASE PollerHasNoService
    BY <2>2 DEF PollerHasNoService, Nothing, ReadingInv, FreshFromItsSource, Source
  <2>3. CASE PollAnswers
    BY <2>3 DEF PollAnswers, ReadingInv, FreshFromItsSource, Source
  <2>4. CASE PollFails
    <3>1. reading' = [reading EXCEPT !.source = "direct", !.stale = TRUE]
      BY <2>4 DEF PollFails
    <3> QED BY <3>1 DEF ReadingInv, FreshFromItsSource, Source
  <2>5. CASE PollerWakes \/ PollerBacksOff
    BY <1>1, <2>5 DEF PollerWakes, PollerBacksOff
  <2> QED BY <1>2, <2>1, <2>2, <2>3, <2>4, <2>5 DEF PollerStep
<1>3. CASE ReadingsRestart
  BY <1>3 DEF ReadingsRestart, Nothing, ReadingInv, FreshFromItsSource, Source
<1>4. CASE ~PollerStep /\ ~ReadingsRestart
  BY <1>1, <1>4 DEF ReadingsNext, HAChanges, SyncAsks, SyncTakes, SyncSubscribes, SyncListens,
     SyncFails, BackfillRecords, CleanupRetention, PutSource, MinutePasses, vars_poller,
     readingsVars
<1> QED BY <1>2, <1>3, <1>4

\* A fresh temperature is one of the source it is labelled with, over any change of
\* the setting while a poll is under way (refresh and poll of temperature.go).
THEOREM ReadingCorrect == ReadingsSpec => []FreshFromItsSource
<1>1. ReadingsInit => ReadingInv
  BY DEF ReadingsInit, Nothing, ReadingInv, FreshFromItsSource, Source
<1>2. ReadingInv => FreshFromItsSource
  BY DEF ReadingInv
<1> QED BY <1>1, <1>2, ReadingStep, PTL DEF ReadingsSpec

(***************************************************************************)
(* The types.  They rest on the order of the mirror's events: what is on   *)
(* its way to the mirror is a state that Home Assistant has had.           *)
(***************************************************************************)
PollerOK ==
    /\ poller.at \in Source \cup {"sleep", "misread"}
    /\ poller.failures \in 0..Len(Delays) /\ poller.wait \in Nat
    /\ poller \in [at : Source \cup {"sleep", "misread"}, failures : Nat, wait : Nat]

StatesOK ==
    /\ ha \in [version : Version, numbers : SUBSET Version]
    /\ samples \subseteq Version
    /\ sync.version \in Version
    /\ setting \in [source : Source, configured : BOOLEAN]
    /\ restarts \in 0..MaxRestarts

LEMMA PollerTypes == PollerOK /\ StatesOK /\ [ReadingsNext]_readingsVars => PollerOK'
<1> SUFFICES ASSUME PollerOK, StatesOK, [ReadingsNext]_readingsVars PROVE PollerOK'
  OBVIOUS
<1>a. Len(Delays) \in Nat /\ Len(Delays) >= 1 /\ \A i \in 1..Len(Delays) : Delays[i] \in Nat
  BY ReadingsAssumption
<1>b. Asleep \in [at : Source \cup {"sleep", "misread"}, failures : Nat, wait : Nat]
  BY DEF Asleep
<1>1. CASE poller' = poller
  BY <1>1 DEF PollerOK
<1>2. ASSUME NEW at \in Source \cup {"sleep", "misread"}, poller' = [poller EXCEPT !.at = at]
      PROVE  PollerOK'
  BY <1>2 DEF PollerOK
<1>3. CASE PollerStep
  <2>1. CASE PollFails
    <3>1. poller' = BackedOff
      BY <2>1 DEF PollFails
    <3> DEFINE f == IF poller.failures < Len(Delays) THEN poller.failures + 1 ELSE Len(Delays)
    <3>2. f \in 1..Len(Delays) /\ f \in Nat
      BY <1>a DEF PollerOK
    <3>3. poller' = [at |-> "sleep", failures |-> f, wait |-> Delays[f]]
      BY <3>1 DEF BackedOff
    <3> HIDE DEF f
    <3> QED BY <1>a, <3>2, <3>3 DEF PollerOK
  <2>2. CASE PollAnswers
    BY <1>a, <2>2 DEF PollAnswers, PollerOK
  <2>3. CASE PollerWakes \/ PollerTakesSample \/ PollerHasNoService \/ PollerBacksOff
    <3>1. PICK at \in Source \cup {"sleep", "misread"} : poller' = [poller EXCEPT !.at = at]
      <4>1. CASE PollerWakes
        BY <4>1 DEF PollerWakes, StatesOK
      <4>2. CASE PollerTakesSample \/ PollerHasNoService \/ PollerBacksOff
        BY <4>2 DEF PollerTakesSample, PollerHasNoService, PollerBacksOff
      <4> QED BY <2>3, <4>1, <4>2
    <3> QED BY <1>2, <3>1
  <2> QED BY <1>3, <2>1, <2>2, <2>3 DEF PollerStep
<1>4. CASE MinutePasses
  BY <1>4 DEF MinutePasses, PollerOK
<1>5. CASE ReadingsRestart
  BY <1>a, <1>5 DEF ReadingsRestart, Asleep, PollerOK
<1>6. CASE ~PollerStep /\ ~MinutePasses /\ ~ReadingsRestart
  BY <1>1, <1>6 DEF ReadingsNext, HAChanges, SyncAsks, SyncTakes, SyncSubscribes, SyncListens,
     SyncFails, BackfillRecords, CleanupRetention, PutSource, vars_poller, readingsVars
<1> QED BY <1>3, <1>4, <1>5, <1>6

LEMMA StatesTypes ==
    MirrorInv /\ StatesOK /\ PollerOK /\ [ReadingsNext]_readingsVars => StatesOK'
<1> SUFFICES ASSUME MirrorInv, StatesOK, PollerOK, [ReadingsNext]_readingsVars PROVE StatesOK'
  OBVIOUS
<1>a. MaxVersion \in Nat /\ MaxRestarts \in Nat /\ ha.version \in Version
      /\ \A v \in Nat : v <= ha.version => v \in Version
  BY ReadingsAssumption DEF StatesOK, Version
<1>1. CASE HAChanges
  <2>1. PICK number \in {TRUE, FALSE} :
           ha' = [version |-> ha.version + 1,
                  numbers |-> ha.numbers \cup (IF number THEN {ha.version + 1} ELSE {})]
    BY <1>1 DEF HAChanges
  <2>2. ha.version + 1 \in Version
    BY <1>1, <1>a DEF HAChanges, Version
  <2>3. ha' \in [version : Version, numbers : SUBSET Version]
    BY <2>1, <2>2 DEF StatesOK
  <2> QED BY <1>1, <2>3 DEF HAChanges, StatesOK
<1>2. CASE SyncAsks
  BY <1>2, <1>a DEF SyncAsks, StatesOK
<1>3. CASE SyncTakes
  <2>1. sync' = [at |-> "dial", version |-> 0] /\ samples' \subseteq samples \cup {sync.version}
        /\ UNCHANGED <<ha, setting, restarts>>
    BY <1>3 DEF SyncTakes
  <2>2. 0 \in Version
    BY <1>a DEF Version
  <2> QED BY <2>1, <2>2 DEF StatesOK
<1>4. CASE SyncListens
  <2>1. /\ events # <<>> /\ samples' \subseteq samples \cup {Head(events)}
        /\ UNCHANGED <<ha, sync, setting, restarts>>
    BY <1>4 DEF SyncListens, Accept
  <2>2. Head(events) \in Nat /\ Head(events) <= ha.version
    BY <2>1, EventTaken DEF MirrorInv
  <2> QED BY <1>a, <2>1, <2>2 DEF StatesOK
<1>5. CASE SyncSubscribes \/ SyncFails
  <2>1. UNCHANGED <<ha, samples, setting, restarts>> /\ sync'.version \in {sync.version, 0}
    BY <1>5 DEF SyncSubscribes, SyncFails, MirrorInv
  <2>2. 0 \in Version
    BY <1>a DEF Version
  <2> QED BY <2>1, <2>2 DEF StatesOK
<1>6. CASE BackfillRecords
  <2>1. PICK v \in 1..ha.version : samples' = samples \cup {v}
    BY <1>6 DEF BackfillRecords
  <2>2. v \in Version
    BY <1>a DEF Version
  <2> QED BY <1>6, <2>1, <2>2 DEF BackfillRecords, vars_sync, StatesOK
<1>7. CASE CleanupRetention
  <2>1. samples' \subseteq samples
    BY <1>7 DEF CleanupRetention
  <2> QED BY <1>7, <2>1 DEF CleanupRetention, vars_sync, StatesOK
<1>8. CASE PutSource
  <2>1. (CHOOSE s \in Source : s # setting.source) \in Source
    BY DEF Source
  <2>2. setting' \in [source : Source, configured : BOOLEAN]
    BY <1>8, <2>1 DEF PutSource, StatesOK
  <2> QED BY <1>8, <2>2 DEF PutSource, vars_sync, StatesOK
<1>9. CASE ReadingsRestart
  <2>1. restarts' \in 0..MaxRestarts
    BY <1>9, <1>a DEF ReadingsRestart, StatesOK
  <2>2. sync'.version \in Version
    BY <1>9, <1>a DEF ReadingsRestart, NotAsked, Version
  <2> QED BY <1>9, <2>1, <2>2 DEF ReadingsRestart, StatesOK
<1>10. CASE PollerStep \/ MinutePasses \/ UNCHANGED readingsVars
  <2>1. UNCHANGED <<ha, sync, samples, setting, restarts>>
    BY <1>10 DEF PollerStep, MinutePasses, PollerWakes, PollerTakesSample, PollerHasNoService,
       PollerBacksOff, PollAnswers, PollFails, PollerUnchangedBut, vars_sync, readingsVars
  <2> QED BY <2>1 DEF StatesOK
<1> QED BY <1>1, <1>2, <1>3, <1>4, <1>5, <1>6, <1>7, <1>8, <1>9, <1>10 DEF ReadingsNext

\* The numbers of the states, the back-off's index and the labels of the reading are
\* within their types: no event, sample or backfill names a state that Home Assistant
\* never had, and the back-off never leaves its table (poll of temperature.go).
LEMMA ReadingsTypeCorrect == ReadingsSpec => []ReadingsTypeOK
<1>1. ReadingsInit => PollerOK
  BY ReadingsAssumption DEF ReadingsInit, Asleep, PollerOK
<1>2. ReadingsInit => StatesOK
  <2> SUFFICES ASSUME ReadingsInit PROVE StatesOK
    OBVIOUS
  <2>1. sync.version = 0 /\ 0 \in Version
    BY ReadingsAssumption DEF ReadingsInit, NotAsked, Version
  <2>2. 1 \in Version
    BY ReadingsAssumption DEF Version
  <2>3. ha \in [version : Version, numbers : SUBSET Version]
    BY <2>2 DEF ReadingsInit
  <2>4. setting \in [source : Source, configured : BOOLEAN]
    BY DEF ReadingsInit, Source
  <2>5. samples \subseteq Version /\ restarts \in 0..MaxRestarts
    BY ReadingsAssumption DEF ReadingsInit
  <2> QED BY <2>1, <2>3, <2>4, <2>5 DEF StatesOK
<1>3. ReadingsInit => ReadingInv
  BY DEF ReadingsInit, Nothing, ReadingInv, FreshFromItsSource, Source
<1>4. MirrorInv /\ StatesOK /\ PollerOK /\ ReadingInv => ReadingsTypeOK
  <2> SUFFICES ASSUME MirrorInv, StatesOK, PollerOK, ReadingInv PROVE ReadingsTypeOK
    OBVIOUS
  <2>1. \A v \in Nat : v <= ha.version => v \in Version
    BY ReadingsAssumption DEF StatesOK, Version
  <2>2. events \in Seq(Version)
    <3>1. events \in Seq(Nat) /\ \A i \in DOMAIN events : events[i] \in Version
      BY <2>1 DEF MirrorInv
    <3> QED BY <3>1
  <2>3. mirror \in [version : Version, ready : BOOLEAN]
    BY <2>1 DEF MirrorInv
  <2>4. sync \in [at : {"ask", "take", "dial", "listen"}, version : Version]
    BY DEF MirrorInv, StatesOK
  <2> QED BY <2>2, <2>3, <2>4 DEF StatesOK, PollerOK, ReadingInv, ReadingsTypeOK
<1> QED BY <1>1, <1>2, <1>3, <1>4, MirrorInit, MirrorStep, ReadingStep, PollerTypes, StatesTypes,
           PTL DEF ReadingsSpec
=============================================================================
