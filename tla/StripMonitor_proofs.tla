-------------------------- MODULE StripMonitor_proofs --------------------------
(***************************************************************************)
(* What holds of the equipment map for every set of devices and entities,  *)
(* under every interleaving of edits, polls and restarts.                  *)
(***************************************************************************)
EXTENDS StripMonitor, TLAPS

(***************************************************************************)
(* The exchange of Assign keeps a map injective: only the target and the   *)
(* former owner of the entity change, and they trade.                      *)
(***************************************************************************)
LEMMA SwapKeepsDistinct ==
    ASSUME NEW d \in Device, NEW e \in Entity, StoreTypeOK, Valid(map)
    PROVE  IsInjective(Swapped(d, e))
<1>1. map.entity \in [Device -> Entity]
  BY DEF StoreTypeOK, Map
<1> QED BY <1>1 DEF Valid, IsInjective, Swapped

\* One edit, whether its save succeeds or fails.
LEMMA EditKeepsDistinct ==
    ASSUME StoreTypeOK, BindingsDistinct, StoreNext
    PROVE  StoreTypeOK' /\ BindingsDistinct'
<1>0. ASSUME map' \in Map, Valid(map'), Saves(map') \/ SaveFails
      PROVE  StoreTypeOK' /\ BindingsDistinct'
  <2>1. failedSaves' \in 0..MaxFailedSaves
    BY <1>0, StoreAssumption DEF StoreTypeOK, Saves, SaveFails
  <2>2. file' \in Map /\ Valid(file')
    BY <1>0 DEF StoreTypeOK, BindingsDistinct, Saves, SaveFails, Valid
  <2> QED BY <1>0, <2>1, <2>2 DEF StoreTypeOK, BindingsDistinct, Valid
<1>1. ASSUME NEW d \in Device, NEW e \in Entity, Assign(d, e)
      PROVE  StoreTypeOK' /\ BindingsDistinct'
  <2>1. map.entity \in [Device -> Entity] /\ map \in Map
    BY DEF Map, StoreTypeOK
  <2>2. Swapped(d, e) \in [Device -> Entity]
    BY <2>1 DEF Swapped
  <2>3. map' \in Map /\ map'.entity = Swapped(d, e)
    BY <1>1, <2>1, <2>2 DEF Assign, Map
  <2>4. Valid(map')
    BY <2>3, SwapKeepsDistinct DEF Valid, BindingsDistinct
  <2> QED BY <1>0, <1>1, <2>3, <2>4 DEF Assign
<1>2. ASSUME NEW d \in Pollable, NEW on \in BOOLEAN, SetHighFrequency(d, on)
      PROVE  StoreTypeOK' /\ BindingsDistinct'
  <2>1. map' \in Map /\ map'.entity = map.entity
    BY <1>2 DEF SetHighFrequency, Map, StoreTypeOK
  <2>2. Valid(map')
    BY <2>1 DEF BindingsDistinct, Valid
  <2> QED BY <1>0, <1>2, <2>1, <2>2 DEF SetHighFrequency
<1>3. ASSUME NEW m \in Map, UpdateSettings(m)
      PROVE  StoreTypeOK' /\ BindingsDistinct'
  <2>1. CASE map' = m /\ Saves(m)
    BY <1>0, <1>3, <2>1 DEF UpdateSettings
  <2>2. CASE UNCHANGED map /\ SaveFails
    BY <1>0, <2>2 DEF StoreTypeOK, BindingsDistinct
  <2> QED BY <1>3, <2>1, <2>2 DEF UpdateSettings
<1>4. CASE SaveUnchanged
  <2>1. map' \in Map /\ Valid(map') /\ (Saves(map') \/ SaveFails)
    BY <1>4 DEF SaveUnchanged, StoreTypeOK, BindingsDistinct, Saves
  <2> QED BY <1>0, <2>1
<1> QED BY <1>1, <1>2, <1>3, <1>4 DEF StoreNext

(***************************************************************************)
(* The equipment map stays well typed and binds no entity twice, in memory *)
(* and in the file (EquipmentStore!BindingsDistinct): failed saves that are *)
(* not undone, edits in any order and restarts included.                   *)
(***************************************************************************)
THEOREM BindingsCorrect == Spec => [](StoreTypeOK /\ BindingsDistinct)
<1>1. Init => StoreTypeOK /\ BindingsDistinct
  BY StoreAssumption DEF Init, StoreInit, StoreTypeOK, BindingsDistinct, Map, Valid
<1>2. StoreTypeOK /\ BindingsDistinct /\ [Next]_vars => StoreTypeOK' /\ BindingsDistinct'
  <2> SUFFICES ASSUME StoreTypeOK, BindingsDistinct, [Next]_vars
               PROVE  StoreTypeOK' /\ BindingsDistinct'
    OBVIOUS
  <2>1. ASSUME UNCHANGED store
        PROVE  StoreTypeOK' /\ BindingsDistinct'
    BY <2>1 DEF store, StoreTypeOK, BindingsDistinct, Valid
  <2>2. CASE UserEdits
    BY <2>2, EditKeepsDistinct DEF UserEdits
  <2>3. ASSUME NEW s \in Strip, PollStrip(s)
        PROVE  UNCHANGED store
    BY <2>3 DEF PollStrip, StartPoll, Answer, NoAnswer, Check, Accept
  <2>4. ASSUME ReplaySample
        PROVE  UNCHANGED store
    BY <2>4 DEF ReplaySample
  <2>5. ASSUME NEW now \in Recorder!Time, Restart(now)
        PROVE  StoreTypeOK' /\ BindingsDistinct'
    BY <2>5 DEF Restart, Reopen, StoreTypeOK, BindingsDistinct, Valid
  <2>6. CASE UNCHANGED vars
    BY <2>6, <2>1 DEF vars
  <2> QED BY <2>1, <2>2, <2>3, <2>4, <2>5, <2>6 DEF Next
<1> QED BY <1>1, <1>2, PTL DEF Spec

(***************************************************************************)
(* The recorder's part.  A device without a checkpoint has neither log nor *)
(* events.  The log of the others ends at the checkpoint, which holds the  *)
(* outlet of the last reading, and an open event is the checkpoint's: so   *)
(* its readings came from that outlet.  The readings of a closed event lie *)
(* before the checkpoint, and no reading to come joins them.               *)
(***************************************************************************)
LogInv ==
    \A d \in Device :
        /\ Len(source[d]) = Len(log[d])
        /\ checkpoint[d] = NoCheckpoint => log[d] = <<>> /\ \A e \in events : e.device # d
        /\ checkpoint[d] # NoCheckpoint =>
              /\ checkpoint[d].binding \in Entity
              /\ checkpoint[d].event <= checkpoint[d].last
              /\ \A i \in 1..Len(log[d]) : log[d][i].at <= checkpoint[d].last

OpenOK(e) ==
    /\ e.start = checkpoint[e.device].event
    /\ \A i \in 1..Len(log[e.device]) :
          log[e.device][i].at >= e.start => source[e.device][i] = checkpoint[e.device].binding

ClosedOK(e) ==
    /\ e.end <= checkpoint[e.device].last
    /\ \E o \in Entity : \A i \in 1..Len(log[e.device]) :
          log[e.device][i].at >= e.start /\ log[e.device][i].at <= e.end =>
              source[e.device][i] = o

EventInv ==
    \A e \in events : (e.end = Open => OpenOK(e)) /\ (e.end # Open => ClosedOK(e))

\* Every sample was saved with a checkpoint as late as itself.
SampleInv ==
    \A x \in samples \cup replay :
        checkpoint[x.device] # NoCheckpoint /\ x.at <= checkpoint[x.device].last

RecorderInv ==
    /\ Recorder!TypeOK
    /\ source \in [Device -> Seq(Entity)]
    /\ LogInv /\ EventInv /\ SampleInv

LEMMA LoadedIs ==
    ASSUME RecorderInv, NEW d \in Device
    PROVE  /\ Recorder!Loaded(d) \in Recorder!State
           /\ checkpoint[d] # NoCheckpoint => Recorder!Loaded(d) = checkpoint[d]
           /\ checkpoint[d] = NoCheckpoint => Recorder!Loaded(d) = Recorder!Fresh
<1>1. CASE checkpoint[d] = NoCheckpoint
  <2>1. Recorder!EventsFor(d) = {}
    BY <1>1 DEF RecorderInv, LogInv, Recorder!EventsFor
  <2>2. Recorder!Loaded(d) = Recorder!Fresh
    BY <1>1, <2>1 DEF Recorder!Loaded, Recorder!Adopted
  <2>3. Recorder!Fresh \in Recorder!State
    BY MonitorAssumption DEF Recorder!Fresh, Recorder!State, Recorder!NoEvent, Recorder!Binding
  <2> QED BY <1>1, <2>2, <2>3
<1>2. CASE checkpoint[d] # NoCheckpoint
  BY <1>2 DEF Recorder!Loaded, RecorderInv, Recorder!TypeOK
<1> QED BY <1>1, <1>2

\* The checkpoint after a reading through an outlet.
LEMMA AfterIs ==
    ASSUME NEW s \in Recorder!State, NEW o \in Entity, NEW at \in Recorder!Time,
           NEW high \in BOOLEAN, s.last < at
    PROVE  LET t == Recorder!After(s, o, at, high)
           IN /\ t \in Recorder!State /\ t.last = at /\ t.binding = o
              /\ t.event \in {at, s.event, 0}
<1> DEFINE over == s.event # 0 /\ Recorder!OverBefore(s, o)
           run  == IF over THEN 0 ELSE s.event
           low  == IF over THEN 0 ELSE s.low
           t    == Recorder!After(s, o, at, high)
<1>1. /\ s.event \in 0..MaxTime /\ s.low \in 0..2 /\ at \in 0..MaxTime
      /\ o # NoOutlet /\ MaxTime \in Nat
  BY MonitorAssumption DEF Recorder!State, Recorder!Time
<1>2. run \in 0..MaxTime /\ low \in 0..2 /\ run \in {s.event, 0}
  BY <1>1
<1>3. t = [last |-> at, binding |-> o,
           event |-> IF high THEN (IF run = 0 THEN at ELSE run)
                     ELSE IF low + 1 >= 2 THEN 0 ELSE run,
           low |-> IF high \/ run = 0 \/ low + 1 >= 2 THEN 0 ELSE low + 1]
  BY <1>1 DEF Recorder!After, Recorder!NoEvent
<1>4. t.event \in 0..MaxTime /\ t.low \in 0..2 /\ t.event \in {at, s.event, 0}
  BY <1>1, <1>2, <1>3
<1>5. o \in Recorder!Binding
  BY DEF Recorder!Binding
<1> HIDE DEF run, low, over
<1>6. t \in Recorder!State
  BY <1>1, <1>3, <1>4, <1>5 DEF Recorder!State
<1> QED BY <1>3, <1>4, <1>6

Over(s, o) == s.event # 0 /\ Recorder!OverBefore(s, o)

IsOpen(e, d, s) == e.device = d /\ e.start = s.event /\ e.end = Open /\ s.event # 0

\* The events after a reading: the new one, and those of before, of which one is
\* closed when it was over or is over with this reading.
LEMMA EventsAre ==
    ASSUME events \subseteq Recorder!Event,
           NEW d \in Device, NEW s \in Recorder!State, NEW o \in Entity,
           NEW at \in Recorder!Time, NEW high \in BOOLEAN, s.last < at,
           NEW f \in Recorder!EventsAfter(d, s, o, at, high)
    PROVE  LET t == Recorder!After(s, o, at, high)
           IN \/ t.event = at /\ f = [device |-> d, start |-> at, end |-> Open]
              \/ f \in events /\ (~IsOpen(f, d, s) \/ (~Over(s, o) /\ t.event = s.event))
              \/ \E e \in events :
                    IsOpen(e, d, s) /\ f = [e EXCEPT !.end = IF Over(s, o) THEN s.last ELSE at]
<1> DEFINE t == Recorder!After(s, o, at, high)
           end == IF Over(s, o) THEN s.last ELSE at
           new == [device |-> d, start |-> at, end |-> Open]
<1>1. t.event \in {at, s.event, 0}
  BY AfterIs
<1>2. \A e \in events : e.start # 0
  BY DEF Recorder!Event, Recorder!Time
<1>3. t.event = at /\ ~Over(s, o) /\ high => s.event = 0 \/ s.event = at
  BY DEF Recorder!After, Recorder!NoEvent, Over
<1>4. ASSUME f \in Recorder!CloseEvent(events, d, s.event, end)
      PROVE  \/ f \in events /\ ~IsOpen(f, d, s)
             \/ \E e \in events : IsOpen(e, d, s) /\ f = [e EXCEPT !.end = end]
  BY <1>4, <1>2 DEF Recorder!CloseEvent, IsOpen
<1>5. CASE Over(s, o)
  <2>1. (f = new /\ t.event = at) \/ f \in Recorder!CloseEvent(events, d, s.event, end)
    BY <1>5 DEF Recorder!EventsAfter, Over, Recorder!NoEvent
  <2> QED BY <2>1, <1>4
<1>6. CASE ~Over(s, o)
  <2>1. CASE t.event = at
    <3>1. f = new \/ f \in events
      BY <1>6, <2>1 DEF Recorder!EventsAfter, Over, Recorder!NoEvent
    <3>2. t.event = s.event \/ s.event = 0
      BY <1>6, <2>1 DEF Recorder!After, Recorder!NoEvent, Over, Recorder!Time
    <3> QED BY <1>6, <2>1, <3>1, <3>2 DEF IsOpen
  <2>2. CASE t.event # at /\ t.event = 0 /\ s.event # 0
    <3>1. f \in Recorder!CloseEvent(events, d, s.event, end)
      BY <1>6, <2>2 DEF Recorder!EventsAfter, Over, Recorder!NoEvent
    <3> QED BY <3>1, <1>4
  <2>3. CASE t.event # at /\ ~(t.event = 0 /\ s.event # 0)
    <3>1. f \in events
      BY <1>6, <2>3 DEF Recorder!EventsAfter, Over, Recorder!NoEvent
    <3> QED BY <1>1, <1>6, <2>3, <3>1
  <2> QED BY <2>1, <2>2, <2>3
<1> QED BY <1>5, <1>6

(***************************************************************************)
(* A reading that is accepted.                                             *)
(***************************************************************************)
LEMMA AcceptedKeeps ==
    ASSUME RecorderInv, NEW d \in Device, NEW o \in Entity, NEW at \in Recorder!Time,
           NEW high \in BOOLEAN, ~Recorder!Stale(d, at),
           Recorder!Record(d, o, at, high),
           source' = [source EXCEPT ![d] = Append(@, o)], UNCHANGED <<replay, forgotten>>
    PROVE  RecorderInv'
<1> DEFINE s == Recorder!Loaded(d)
           t == Recorder!After(s, o, at, high)
           r == [at |-> at, outlet |-> t.binding, high |-> high]
           n == Len(log[d]) + 1
<1>a. /\ checkpoint \in [Device -> Recorder!State \cup {NoCheckpoint}]
      /\ events \subseteq Recorder!Event /\ samples \subseteq Recorder!Sample
      /\ replay \subseteq Recorder!Sample /\ log \in [Device -> Seq(Recorder!Log!Reading)]
      /\ forgotten \subseteq Device \X Recorder!Time
      /\ source \in [Device -> Seq(Entity)]
  BY DEF RecorderInv, Recorder!TypeOK
<1>b. /\ s \in Recorder!State /\ s.last < at /\ s.last \in Nat /\ at \in Nat
      /\ checkpoint[d] # NoCheckpoint => s = checkpoint[d]
      /\ checkpoint[d] = NoCheckpoint => s = Recorder!Fresh
      /\ s.event \in Nat /\ s.event <= s.last
  <2>1. s \in Recorder!State
    BY LoadedIs
  <2>2. s.last \in Nat /\ at \in Nat
    BY <2>1, MonitorAssumption DEF Recorder!State, Recorder!Time
  <2>3. ~(at <= s.last)
    BY DEF Recorder!Stale
  <2>4. s.event \in Nat /\ s.event <= s.last
    <3>1. CASE checkpoint[d] = NoCheckpoint
      <4>1. s = Recorder!Fresh
        BY <3>1, LoadedIs
      <4> QED BY <4>1 DEF Recorder!Fresh, Recorder!NoEvent
    <3>2. CASE checkpoint[d] # NoCheckpoint
      <4>1. s = checkpoint[d]
        BY <3>2, LoadedIs
      <4>2. checkpoint[d].event <= checkpoint[d].last
        BY <3>2 DEF RecorderInv, LogInv
      <4>3. s.event \in Nat
        BY <2>1, MonitorAssumption DEF Recorder!State
      <4> QED BY <4>1, <4>2, <4>3
    <3> QED BY <3>1, <3>2
  <2> QED BY <2>1, <2>2, <2>3, <2>4, LoadedIs
<1>c. t \in Recorder!State /\ t.last = at /\ t.binding = o /\ t.event \in {at, s.event, 0}
  BY <1>b, AfterIs
<1>d. /\ checkpoint' = [checkpoint EXCEPT ![d] = t]
      /\ events' = Recorder!EventsAfter(d, s, o, at, high)
      /\ samples' \subseteq samples \cup {[device |-> d, at |-> at, high |-> high]}
      /\ log' = [log EXCEPT ![d] = Append(@, r)]
  BY DEF Recorder!Record
<1> HIDE DEF s, t
<1>e. /\ checkpoint'[d] = t /\ t # NoCheckpoint
      /\ \A x \in Device \ {d} : /\ checkpoint'[x] = checkpoint[x]
                                /\ log'[x] = log[x] /\ source'[x] = source[x]
  BY <1>a, <1>c, <1>d, NoneAssumption
<1>f. r \in Recorder!Log!Reading
  BY <1>c DEF Recorder!Log!Reading
<1>g. /\ log'[d] = Append(log[d], r) /\ source'[d] = Append(source[d], o)
      /\ Len(source[d]) = Len(log[d]) /\ Len(log[d]) \in Nat
      /\ Len(log'[d]) = n /\ Len(source'[d]) = n
      /\ log'[d][n].at = at /\ source'[d][n] = o
      /\ \A i \in 1..Len(log[d]) : log'[d][i] = log[d][i] /\ source'[d][i] = source[d][i]
  <2>1. log'[d] = Append(log[d], r) /\ source'[d] = Append(source[d], o)
    BY <1>a, <1>d
  <2>2. /\ log[d] \in Seq(Recorder!Log!Reading) /\ source[d] \in Seq(Entity)
        /\ Len(source[d]) = Len(log[d])
    BY <1>a DEF RecorderInv, LogInv
  <2> QED BY <2>1, <2>2, <1>f
<1>h. /\ \A i \in 1..Len(log[d]) :
            log[d][i].at \in Nat /\ log[d][i].at <= s.last /\ log[d][i].at < at
      /\ \A i \in 1..n : i \in 1..Len(log[d]) \/ i = n
  <2>1. \A i \in 1..Len(log[d]) : log[d][i] \in Recorder!Log!Reading
    BY <1>a
  <2>2. \A i \in 1..Len(log[d]) : log[d][i].at \in Nat
    BY <2>1, MonitorAssumption DEF Recorder!Log!Reading, Recorder!Time
  <2>3. \A i \in 1..Len(log[d]) : log[d][i].at <= s.last
    BY <1>b, <1>g DEF RecorderInv, LogInv
  <2> QED BY <1>b, <1>g, <2>2, <2>3
<1>z. ASSUME NEW f \in events'
      PROVE  \/ t.event = at /\ f = [device |-> d, start |-> at, end |-> Open]
             \/ f \in events /\ (~IsOpen(f, d, s) \/ (~Over(s, o) /\ t.event = s.event))
             \/ \E e \in events :
                   IsOpen(e, d, s) /\ f = [e EXCEPT !.end = IF Over(s, o) THEN s.last ELSE at]
  BY <1>a, <1>b, <1>d, EventsAre DEF t
<1>1. Recorder!TypeOK'
  <2>1. checkpoint' \in [Device -> Recorder!State \cup {NoCheckpoint}]
    BY <1>a, <1>c, <1>d
  <2>2. events' \subseteq Recorder!Event
    <3> SUFFICES ASSUME NEW f \in events' PROVE f \in Recorder!Event
      OBVIOUS
    <3>1. [device |-> d, start |-> at, end |-> Open] \in Recorder!Event
      BY DEF Recorder!Event
    <3>2. Over(s, o) => s.last \in Recorder!Time
      BY <1>b, MonitorAssumption DEF Over, Recorder!Time, Recorder!State
    <3>3. CASE f \in events
      BY <1>a, <3>3
    <3>4. ASSUME NEW e \in events, f = [e EXCEPT !.end = IF Over(s, o) THEN s.last ELSE at]
          PROVE  f \in Recorder!Event
      BY <1>a, <3>2, <3>4 DEF Recorder!Event
    <3> QED BY <1>z, <3>1, <3>3, <3>4
  <2>3. samples' \subseteq Recorder!Sample
    BY <1>a, <1>d DEF Recorder!Sample
  <2>4. log' \in [Device -> Seq(Recorder!Log!Reading)]
    BY <1>a, <1>d, <1>f
  <2> QED BY <1>a, <2>1, <2>2, <2>3, <2>4 DEF Recorder!TypeOK
<1>2. source' \in [Device -> Seq(Entity)]
  BY <1>a
<1>3. LogInv'
  <2> SUFFICES ASSUME NEW x \in Device
               PROVE  /\ Len(source'[x]) = Len(log'[x])
                      /\ checkpoint'[x] = NoCheckpoint =>
                            log'[x] = <<>> /\ \A e \in events' : e.device # x
                      /\ checkpoint'[x] # NoCheckpoint =>
                            /\ checkpoint'[x].binding \in Entity
                            /\ checkpoint'[x].event <= checkpoint'[x].last
                            /\ \A i \in 1..Len(log'[x]) : log'[x][i].at <= checkpoint'[x].last
    BY DEF LogInv
  <2>1. CASE x = d
    <3>1. \A i \in 1..n : log'[d][i].at <= at
      BY <1>b, <1>g, <1>h
    <3>2. t.event <= at
      BY <1>b, <1>c
    <3> QED BY <1>c, <1>e, <1>g, <2>1, <3>1, <3>2
  <2>2. CASE x # d
    <3>1. \A f \in events' : f.device = x => f \in events
      <4> SUFFICES ASSUME NEW f \in events', f.device = x PROVE f \in events
        OBVIOUS
      <4>1. ASSUME NEW e \in events, IsOpen(e, d, s),
                   f = [e EXCEPT !.end = IF Over(s, o) THEN s.last ELSE at]
            PROVE  FALSE
        BY <1>a, <2>2, <4>1 DEF IsOpen, Recorder!Event
      <4> QED BY <1>z, <2>2, <4>1
    <3> QED BY <1>e, <2>2, <3>1 DEF RecorderInv, LogInv
  <2> QED BY <2>1, <2>2
<1>4. EventInv'
  <2> SUFFICES ASSUME NEW f \in events'
               PROVE  (f.end = Open => OpenOK(f)') /\ (f.end # Open => ClosedOK(f)')
    BY DEF EventInv
  <2>1. CASE t.event = at /\ f = [device |-> d, start |-> at, end |-> Open]
    <3>1. \A i \in 1..n : log'[d][i].at >= at => source'[d][i] = o
      BY <1>b, <1>g, <1>h
    <3> QED BY <1>c, <1>e, <1>g, <2>1, <3>1 DEF OpenOK
  <2>2. CASE f \in events /\ f.device # d
    <3>1. f.device \in Device
      BY <1>a, <2>2 DEF Recorder!Event
    <3>2. /\ checkpoint'[f.device] = checkpoint[f.device]
          /\ log'[f.device] = log[f.device] /\ source'[f.device] = source[f.device]
      BY <1>e, <2>2, <3>1
    <3>3. (f.end = Open => OpenOK(f)) /\ (f.end # Open => ClosedOK(f))
      BY <2>2 DEF RecorderInv, EventInv
    <3> QED BY <3>2, <3>3 DEF OpenOK, ClosedOK
  <2>3. ASSUME NEW e \in events, e.device = d
        PROVE  /\ s = checkpoint[d] /\ s.binding \in Entity
               /\ e.start \in Nat /\ (e.end # Open => e.end \in Nat)
               /\ e.end = Open => IsOpen(e, d, s) /\ OpenOK(e)
               /\ e.end # Open => ClosedOK(e)
    <3>1. checkpoint[d] # NoCheckpoint
      BY <2>3 DEF RecorderInv, LogInv
    <3>2. e.start \in Nat /\ e.start # 0 /\ (e.end # Open => e.end \in Nat)
      BY <1>a, MonitorAssumption DEF Recorder!Event, Recorder!Time
    <3>3. (e.end = Open => OpenOK(e)) /\ (e.end # Open => ClosedOK(e))
      BY DEF RecorderInv, EventInv
    <3>4. e.end = Open => IsOpen(e, d, s)
      BY <1>b, <2>3, <3>1, <3>2, <3>3 DEF OpenOK, IsOpen
    <3> QED BY <1>b, <3>1, <3>2, <3>3, <3>4 DEF RecorderInv, LogInv
  <2>4. CASE f \in events /\ f.device = d /\ f.end # Open
    <3>1. PICK q \in Entity : \A i \in 1..Len(log[d]) :
             log[d][i].at >= f.start /\ log[d][i].at <= f.end => source[d][i] = q
      BY <2>3, <2>4 DEF ClosedOK
    <3>2. f.end \in Nat /\ f.end <= s.last
      BY <2>3, <2>4 DEF ClosedOK
    <3>3. \A i \in 1..n :
             log'[d][i].at >= f.start /\ log'[d][i].at <= f.end => source'[d][i] = q
      BY <1>b, <1>g, <3>1, <3>2
    <3>4. f.end <= t.last
      BY <1>b, <1>c, <3>2
    <3> QED BY SMTT(20), <1>e, <1>g, <2>4, <3>3, <3>4 DEF ClosedOK
  <2>5. CASE f \in events /\ IsOpen(f, d, s) /\ ~Over(s, o) /\ t.event = s.event
    <3>1. \A i \in 1..Len(log[d]) : log[d][i].at >= f.start => source[d][i] = s.binding
      BY <2>3, <2>5 DEF IsOpen, OpenOK
    <3>2. s.binding = o
      BY <2>3, <2>5, MonitorAssumption DEF Over, IsOpen, Recorder!OverBefore
    <3>3. \A i \in 1..n : log'[d][i].at >= f.start => source'[d][i] = o
      BY <1>g, <3>1, <3>2
    <3> QED BY SMTT(20), <1>c, <1>e, <1>g, <2>5, <3>3 DEF OpenOK, IsOpen
  <2>6. ASSUME NEW e \in events, IsOpen(e, d, s),
               f = [e EXCEPT !.end = IF Over(s, o) THEN s.last ELSE at]
        PROVE  f.end # Open /\ ClosedOK(f)'
    <3>1. \A i \in 1..Len(log[d]) : log[d][i].at >= e.start => source[d][i] = s.binding
      BY <2>3, <2>6 DEF IsOpen, OpenOK
    <3>2. /\ f.device = d /\ f.start = e.start
          /\ f.end = IF Over(s, o) THEN s.last ELSE at
      BY <1>a, <2>6 DEF IsOpen, Recorder!Event
    <3>3. f.end # Open /\ f.end <= t.last
      BY <1>b, <1>c, <3>2, MonitorAssumption
    <3>4. s.binding \in Entity
      BY <2>3, <2>6 DEF IsOpen
    <3>5. CASE Over(s, o)
      <4>1. \A i \in 1..n :
               log'[d][i].at >= f.start /\ log'[d][i].at <= f.end => source'[d][i] = s.binding
        BY <1>b, <1>g, <1>h, <3>1, <3>2, <3>5
      <4>2. \E q \in Entity : \A i \in 1..Len(log'[f.device]) :
               log'[f.device][i].at >= f.start /\ log'[f.device][i].at <= f.end =>
                  source'[f.device][i] = q
        <5>1. f.device = d /\ Len(log'[d]) = n
          BY <1>g, <3>2
        <5> HIDE DEF n
        <5> QED BY <3>4, <4>1, <5>1
      <4>3. f.end <= checkpoint'[f.device].last
        BY <1>e, <3>2, <3>3
      <4> QED BY <3>3, <4>2, <4>3 DEF ClosedOK
    <3>6. CASE ~Over(s, o)
      <4>1. s.binding = o
        BY <2>3, <2>6, <3>6, MonitorAssumption DEF Over, IsOpen, Recorder!OverBefore
      <4>2. \A i \in 1..n :
               log'[d][i].at >= f.start /\ log'[d][i].at <= f.end => source'[d][i] = o
        BY <1>g, <1>h, <3>1, <3>2, <4>1
      <4>3. \E q \in Entity : \A i \in 1..Len(log'[f.device]) :
               log'[f.device][i].at >= f.start /\ log'[f.device][i].at <= f.end =>
                  source'[f.device][i] = q
        <5>1. f.device = d /\ Len(log'[d]) = n
          BY <1>g, <3>2
        <5> HIDE DEF n
        <5> QED BY <4>2, <5>1
      <4>4. f.end <= checkpoint'[f.device].last
        BY <1>e, <3>2, <3>3
      <4> QED BY <3>3, <4>3, <4>4 DEF ClosedOK
    <3> QED BY <3>5, <3>6
  <2>7. ASSUME f \in events, ~IsOpen(f, d, s) \/ (~Over(s, o) /\ t.event = s.event)
        PROVE  (f.end = Open => OpenOK(f)') /\ (f.end # Open => ClosedOK(f)')
    <3>1. CASE f.device # d
      BY <2>2, <2>7, <3>1
    <3>2. CASE f.device = d /\ f.end # Open
      BY <2>4, <2>7, <3>2
    <3>3. CASE f.device = d /\ f.end = Open
      BY <2>3, <2>5, <2>7, <3>3
    <3> QED BY <3>1, <3>2, <3>3
  <2> QED BY <1>z, <2>1, <2>6, <2>7
<1>5. SampleInv'
  <2> SUFFICES ASSUME NEW x \in samples' \cup replay'
               PROVE  checkpoint'[x.device] # NoCheckpoint /\ x.at <= checkpoint'[x.device].last
    BY DEF SampleInv
  <2>1. CASE x = [device |-> d, at |-> at, high |-> high]
    BY <1>b, <1>c, <1>e, <2>1
  <2>2. CASE x \in samples \cup replay
    <3>1. /\ checkpoint[x.device] # NoCheckpoint /\ x.at <= checkpoint[x.device].last
          /\ x.device \in Device /\ x.at \in Nat
      BY <1>a, <2>2 DEF RecorderInv, SampleInv, Recorder!Sample, Recorder!Time
    <3>2. CASE x.device = d
      BY <1>b, <1>c, <1>e, <3>1, <3>2
    <3>3. CASE x.device # d
      BY <1>e, <3>1, <3>3
    <3> QED BY <3>2, <3>3
  <2> QED BY <1>d, <2>1, <2>2
<1> QED BY <1>1, <1>2, <1>3, <1>4, <1>5 DEF RecorderInv

\* No reading is accepted; samples may be put up for a replay, or taken from it.
LEMMA QuietKeeps ==
    ASSUME RecorderInv, UNCHANGED <<checkpoint, events, samples, log, forgotten, source>>,
           replay' \subseteq samples \cup replay
    PROVE  RecorderInv'
<1>1. replay' \subseteq Recorder!Sample
  BY DEF RecorderInv, Recorder!TypeOK
<1>2. Recorder!TypeOK'
  BY <1>1 DEF RecorderInv, Recorder!TypeOK
<1>3. LogInv' /\ EventInv' /\ SampleInv'
  BY DEF RecorderInv, LogInv, EventInv, OpenOK, ClosedOK, SampleInv
<1> QED BY <1>2, <1>3 DEF RecorderInv

\* Samples that were saved with a checkpoint are nothing new to the recorder.
LEMMA ReplayQuiet ==
    ASSUME RecorderInv, ReplaySample
    PROVE  /\ UNCHANGED <<checkpoint, events, samples, log, forgotten, source>>
           /\ replay' \subseteq replay
<1>1. ASSUME NEW x \in replay, Recorder!Replay(x)
      PROVE  UNCHANGED <<checkpoint, events, samples, log, forgotten>> /\ replay' \subseteq replay
  <2>1. /\ x.device \in Device /\ checkpoint[x.device] # NoCheckpoint
        /\ x.at <= checkpoint[x.device].last
    BY <1>1 DEF RecorderInv, SampleInv, Recorder!TypeOK, Recorder!Sample
  <2>2. Recorder!Stale(x.device, x.at)
    BY <2>1 DEF Recorder!Stale, Recorder!Loaded
  <2>3. UNCHANGED <<checkpoint, events, samples, log>>
    BY <1>1, <2>2 DEF Recorder!Replay, Recorder!Record
  <2> QED BY <1>1, <2>3 DEF Recorder!Replay
<1>2. ASSUME NEW x \in replay, Recorder!ReplayFails(x.device)
      PROVE  UNCHANGED <<checkpoint, events, samples, log, forgotten>> /\ replay' \subseteq replay
  BY <1>2 DEF Recorder!ReplayFails
<1>3. UNCHANGED <<checkpoint, events, samples, log, forgotten>> /\ replay' \subseteq replay
  BY <1>1, <1>2 DEF ReplaySample
<1>4. source' = source
  BY <1>3 DEF ReplaySample
<1> QED BY <1>3, <1>4

JobsOK == job \in [Strip -> [Device -> Job \cup {NoJob}]] /\ restarts \in 0..MaxRestarts

MonitorInv == StoreTypeOK /\ BindingsDistinct /\ RecorderInv /\ JobsOK

LEMMA SetKeeps ==
    ASSUME JobsOK, NEW s \in Strip, NEW d \in Device, NEW j \in Job \cup {NoJob}, Set(s, d, j),
           UNCHANGED restarts
    PROVE  JobsOK'
<1>1. job[s] \in [Device -> Job \cup {NoJob}]
  BY DEF JobsOK
<1>2. job' = [job EXCEPT ![s] = [job[s] EXCEPT ![d] = j]]
  BY DEF Set
<1>3. [job[s] EXCEPT ![d] = j] \in [Device -> Job \cup {NoJob}]
  BY <1>1
<1> QED BY <1>2, <1>3 DEF JobsOK

LEMMA PollKeeps ==
    ASSUME MonitorInv, NEW s \in Strip, PollStrip(s)
    PROVE  RecorderInv' /\ JobsOK'
<1>a. job \in [Strip -> [Device -> Job \cup {NoJob}]] /\ map \in Map
  BY DEF MonitorInv, JobsOK, StoreTypeOK
<1>b. ASSUME UNCHANGED <<recorder, source>> PROVE RecorderInv'
  BY <1>b, QuietKeeps DEF MonitorInv, recorder
<1>1. CASE StartPoll(s)
  <2>1. [d \in Device |-> IF d \in Enabled(s)
                          THEN [phase |-> "asked", entity |-> map.entity[d]]
                          ELSE NoJob] \in [Device -> Job \cup {NoJob}]
    BY <1>a DEF Map, Job
  <2>2. JobsOK'
    BY <1>1, <2>1 DEF StartPoll, JobsOK, MonitorInv
  <2> QED BY <1>1, <1>b, <2>2 DEF StartPoll
<1>2. ASSUME NEW d \in Device, Answer(s, d) PROVE RecorderInv' /\ JobsOK'
  <2>1. [job[s][d] EXCEPT !.phase = "answered"] \in Job
    BY <1>2, <1>a DEF Answer, At, Job
  <2> QED BY <1>2, <1>b, <2>1, SetKeeps DEF Answer, MonitorInv
<1>3. ASSUME NEW d \in Device, NoAnswer(s, d) PROVE RecorderInv' /\ JobsOK'
  BY <1>3, <1>b, SetKeeps DEF NoAnswer, MonitorInv
<1>4. ASSUME NEW d \in Device, Check(s, d) PROVE RecorderInv' /\ JobsOK'
  <2>1. [job[s][d] EXCEPT !.phase = "current"] \in Job
    BY <1>4, <1>a DEF Check, At, Job
  <2> QED BY <1>4, <1>b, <2>1, SetKeeps DEF Check, MonitorInv
<1>5. ASSUME NEW d \in Device, Accept(s, d) PROVE RecorderInv' /\ JobsOK'
  <2>1. JobsOK'
    BY <1>5, SetKeeps DEF Accept, MonitorInv
  <2>2. job[s][d].entity \in Entity
    BY <1>5, <1>a DEF Accept, At, Job
  <2>3. /\ source' = IF log' = log THEN source
                     ELSE [source EXCEPT ![d] = Append(@, job[s][d].entity)]
    BY <1>5 DEF Accept
  <2>4. CASE UNCHANGED recorder
    BY <1>b, <2>1, <2>3, <2>4 DEF recorder
  <2>5. ASSUME NEW at \in Recorder!Time, NEW high \in BOOLEAN,
               Recorder!Live(d, job[s][d].entity, at, high)
        PROVE  RecorderInv'
    <3>1. UNCHANGED <<replay, forgotten>> /\ Recorder!Record(d, job[s][d].entity, at, high)
      BY <2>5 DEF Recorder!Live
    <3>2. CASE Recorder!Stale(d, at)
      <4>1. UNCHANGED <<checkpoint, events, samples, log>>
        BY <3>1, <3>2 DEF Recorder!Record
      <4> QED BY <2>3, <3>1, <4>1, QuietKeeps DEF MonitorInv
    <3>3. CASE ~Recorder!Stale(d, at)
      <4>1. PICK r : log' = [log EXCEPT ![d] = Append(@, r)]
        BY <3>1, <3>3 DEF Recorder!Record
      <4>2. log \in [Device -> Seq(Recorder!Log!Reading)]
        BY DEF MonitorInv, RecorderInv, Recorder!TypeOK
      <4>3. log' # log
        BY <4>1, <4>2
      <4> QED BY <2>2, <2>3, <3>1, <3>3, <4>3, AcceptedKeeps DEF MonitorInv
    <3> QED BY <3>2, <3>3
  <2> QED BY <1>5, <2>1, <2>4, <2>5 DEF Accept, BindingOf
<1> QED BY <1>1, <1>2, <1>3, <1>4, <1>5 DEF PollStrip

LEMMA MonitorInitially == Init => MonitorInv
<1> SUFFICES ASSUME Init PROVE MonitorInv
  OBVIOUS
<1>1. StoreTypeOK /\ BindingsDistinct
  BY StoreAssumption DEF Init, StoreInit, StoreTypeOK, BindingsDistinct, Map, Valid
<1>2. RecorderInv
  <2>1. Recorder!TypeOK
    BY DEF Init, Recorder!NoHistory, Recorder!TypeOK
  <2>2. source \in [Device -> Seq(Entity)]
    BY DEF Init, MonitorInit
  <2>3. LogInv /\ EventInv /\ SampleInv
    BY DEF Init, Recorder!NoHistory, MonitorInit, LogInv, EventInv, SampleInv
  <2> QED BY <2>1, <2>2, <2>3 DEF RecorderInv
<1>3. JobsOK
  BY MonitorAssumption DEF Init, MonitorInit, NoJobs, JobsOK
<1> QED BY <1>1, <1>2, <1>3 DEF MonitorInv

LEMMA MonitorStep == MonitorInv /\ [Next]_vars => MonitorInv'
<1> SUFFICES ASSUME MonitorInv, [Next]_vars PROVE MonitorInv'
  OBVIOUS
<1>a. ASSUME UNCHANGED store PROVE StoreTypeOK' /\ BindingsDistinct'
  BY <1>a DEF store, MonitorInv, StoreTypeOK, BindingsDistinct, Valid
<1>b. ASSUME UNCHANGED <<job, restarts>> PROVE JobsOK'
  BY <1>b DEF JobsOK, MonitorInv
<1>c. ASSUME UNCHANGED <<recorder, source>> PROVE RecorderInv'
  BY <1>c, QuietKeeps DEF MonitorInv, recorder
<1>1. CASE UserEdits
  BY <1>1, <1>b, <1>c, EditKeepsDistinct DEF UserEdits, MonitorInv
<1>2. ASSUME NEW s \in Strip, PollStrip(s) PROVE MonitorInv'
  <2>1. UNCHANGED store
    BY <1>2 DEF PollStrip, StartPoll, Answer, NoAnswer, Check, Accept
  <2> QED BY <1>2, <1>a, <2>1, PollKeeps DEF MonitorInv
<1>3. CASE ReplaySample
  <2>1. RecorderInv'
    BY <1>3, ReplayQuiet, QuietKeeps DEF MonitorInv
  <2> QED BY <1>3, <1>a, <1>b, <2>1 DEF ReplaySample, MonitorInv
<1>4. ASSUME NEW now \in Recorder!Time, Restart(now) PROVE MonitorInv'
  <2>1. StoreTypeOK' /\ BindingsDistinct'
    BY <1>4 DEF Restart, Reopen, StoreTypeOK, BindingsDistinct, Valid, MonitorInv
  <2>2. RecorderInv'
    BY <1>4, QuietKeeps DEF Restart, Recorder!Boot, MonitorInv
  <2>3. JobsOK'
    BY <1>4, MonitorAssumption DEF Restart, NoJobs, JobsOK, MonitorInv
  <2> QED BY <2>1, <2>2, <2>3 DEF MonitorInv
<1>5. CASE UNCHANGED vars
  BY <1>5, <1>a, <1>b, <1>c DEF vars, MonitorInv
<1> QED BY <1>1, <1>2, <1>3, <1>4, <1>5 DEF Next

LEMMA MonitorHolds == Spec => []MonitorInv
<1> QED BY MonitorInitially, MonitorStep, PTL DEF Spec

(***************************************************************************)
(* Every variable of the map, the recorder and the monitor has its type.   *)
(***************************************************************************)
THEOREM MonitorTypeCorrect == Spec => []TypeOK
<1>1. MonitorInv => TypeOK
  BY DEF MonitorInv, RecorderInv, JobsOK, TypeOK
<1> QED BY MonitorHolds, <1>1, PTL

(***************************************************************************)
(* However the plugs are moved while their strips are asked, and whatever  *)
(* the clock does, the readings of an event came from one outlet.          *)
(***************************************************************************)
THEOREM OneOutletCorrect == Spec => []EventOfOneOutlet
<1>1. ASSUME MonitorInv PROVE EventOfOneOutlet
  <2>1. /\ log \in [Device -> Seq(Recorder!Log!Reading)] /\ events \subseteq Recorder!Event
        /\ EventInv
    BY <1>1 DEF MonitorInv, RecorderInv, Recorder!TypeOK
  <2>2. \A e \in events : e.device \in Device /\ DOMAIN log[e.device] = 1..Len(log[e.device])
    BY <2>1 DEF Recorder!Event
  <2> QED BY <2>1, <2>2 DEF EventInv, OpenOK, ClosedOK, EventOfOneOutlet
<1> QED BY MonitorHolds, <1>1, PTL

(***************************************************************************)
(* The replay at a start, wherever the process before died, accepts no     *)
(* reading and touches no event: all it finds was recorded live.           *)
(***************************************************************************)
THEOREM QuietCorrect == Spec => ReplayIsQuiet
<1>1. ASSUME MonitorInv, [Next]_vars, replay # {} PROVE UNCHANGED <<log, events>>
  <2>1. CASE UserEdits
    BY <2>1 DEF UserEdits, recorder
  <2>2. ASSUME NEW s \in Strip, PollStrip(s) PROVE UNCHANGED <<log, events>>
    BY <1>1, <2>2 DEF PollStrip, StartPoll, Answer, NoAnswer, Check, Accept, Recorder!Live, recorder
  <2>3. CASE ReplaySample
    BY <1>1, <2>3, ReplayQuiet DEF MonitorInv
  <2>4. ASSUME NEW now \in Recorder!Time, Restart(now) PROVE UNCHANGED <<log, events>>
    BY <2>4 DEF Restart, Recorder!Boot
  <2>5. CASE UNCHANGED vars
    BY <2>5 DEF vars, recorder
  <2> QED BY <1>1, <2>1, <2>2, <2>3, <2>4, <2>5 DEF Next
<1>2. MonitorInv /\ [Next]_vars => [replay # {} => UNCHANGED <<log, events>>]_vars
  BY <1>1
<1> QED BY MonitorHolds, <1>2, PTL DEF Spec, ReplayIsQuiet

(***************************************************************************)
(* The theorems of the recorder, at the instance that the monitor drives.  *)
(***************************************************************************)
RP == INSTANCE ActivityRecorder_proofs WITH Outlet <- Entity

LEMMA RecorderFacts ==
    /\ RP!IsFiniteSet(Device) /\ NoOutlet \notin Entity
    /\ MaxTime \in Nat /\ SampleAge \in Nat /\ Open \notin Nat
    /\ NoCheckpoint \notin RP!State
BY StoreAssumption, MonitorAssumption, NoneAssumption
   DEF RP!State, RP!Binding, Recorder!State, Recorder!Binding, RP!IsFiniteSet, IsFiniteSet

LEMMA SameLoaded ==
    /\ \A d : Recorder!Loaded(d) = RP!Loaded(d) /\ Recorder!EventsFor(d) = RP!EventsFor(d)
    /\ Recorder!Settled = RP!Settled
<1>1. \A d : Recorder!Loaded(d) = RP!Loaded(d) /\ Recorder!EventsFor(d) = RP!EventsFor(d)
  BY DEF Recorder!Loaded, RP!Loaded, Recorder!Adopted, RP!Adopted, Recorder!AdoptOpen,
         RP!AdoptOpen, Recorder!EventsFor, RP!EventsFor, Recorder!SamplesFor,
         RP!SamplesFor, Recorder!Fresh, RP!Fresh, Recorder!Newest, RP!Newest,
         Recorder!TrailingLow, RP!TrailingLow, Recorder!NoEvent, RP!NoEvent
<1> QED BY <1>1 DEF Recorder!Settled, RP!Settled

LEMMA SameRecord ==
    ASSUME NEW d, NEW o, NEW at, NEW high, Recorder!Record(d, o, at, high)
    PROVE  RP!Record(d, o, at, high)
<1>1. Recorder!Loaded(d) = RP!Loaded(d)
  BY SameLoaded
<1> QED BY <1>1
        DEF Recorder!Record, RP!Record, Recorder!Stale, RP!Stale, Recorder!After, RP!After,
            Recorder!EventsAfter, RP!EventsAfter, Recorder!CloseEvent,
            RP!CloseEvent, Recorder!OverBefore, RP!OverBefore, Recorder!NoEvent,
            RP!NoEvent

LEMMA SameRemembered ==
    \A lg, gone : Recorder!Promise!Remembered(lg, gone) = RP!Promise!Remembered(lg, gone)
<1>1. \A d, l : Recorder!Promise!EventsOf(d, l) = RP!Promise!EventsOf(d, l)
  BY DEF Recorder!Promise!EventsOf, RP!Promise!EventsOf, Recorder!Promise!Begins,
         RP!Promise!Begins, Recorder!Promise!EndOf, RP!Promise!EndOf,
         Recorder!Promise!LastOf, RP!Promise!LastOf, Recorder!Promise!Max,
         RP!Promise!Max, Recorder!Promise!Continues, RP!Promise!Continues,
         Recorder!Promise!Active, RP!Promise!Active, Recorder!Promise!SameOutlet,
         RP!Promise!SameOutlet
<1> QED BY <1>1 DEF Recorder!Promise!Remembered, RP!Promise!Remembered

LEMMA SamePromise ==
    /\ RP!Promise!Init => Recorder!Promise!Init
    /\ [RP!Promise!Next]_<<log, forgotten, RP!Settled>>
       => [Recorder!Promise!Next]_<<log, forgotten, Recorder!Settled>>
<1>1. Recorder!Settled = RP!Settled
  BY SameLoaded
<1>2. (Recorder!Settled = RP!Settled)'
  BY SameLoaded, PTL
<1>3. Recorder!Promise!Reading = RP!Promise!Reading /\ Recorder!Time = RP!Time
  BY DEF Recorder!Promise!Reading, RP!Promise!Reading, Recorder!Time, RP!Time
<1>4. RP!Promise!Init => Recorder!Promise!Init
  BY <1>1, <1>3, SameRemembered DEF Recorder!Promise!Init, RP!Promise!Init
<1>5. ASSUME NEW d, NEW r, RP!Promise!Accept(d, r) PROVE Recorder!Promise!Accept(d, r)
  BY <1>2, <1>5, SameRemembered DEF Recorder!Promise!Accept, RP!Promise!Accept
<1>6. ASSUME NEW cutoff, RP!Promise!Forget(cutoff) PROVE Recorder!Promise!Forget(cutoff)
  BY <1>1, <1>2, <1>6, SameRemembered DEF Recorder!Promise!Forget, RP!Promise!Forget
<1>7. RP!Promise!Next => Recorder!Promise!Next
  BY <1>3, <1>5, <1>6 DEF Recorder!Promise!Next, RP!Promise!Next
<1> QED BY <1>1, <1>2, <1>4, <1>7

LEMMA MonitorDrives ==
    ASSUME MonitorInv, [Next]_vars
    PROVE  \/ UNCHANGED <<checkpoint, events, samples, log, forgotten>>
           \/ /\ UNCHANGED forgotten
              /\ \E d \in Device, o \in RP!Binding, at \in RP!Time, high \in BOOLEAN :
                     RP!Record(d, o, at, high)
<1>1. /\ Recorder!Time = RP!Time /\ Entity \subseteq RP!Binding /\ NoOutlet \in RP!Binding
      /\ replay \subseteq Recorder!Sample
  BY DEF Recorder!Time, RP!Time, RP!Binding, MonitorInv, RecorderInv, Recorder!TypeOK
<1>2. ASSUME NEW s \in Strip, NEW d \in Device, Accept(s, d)
      PROVE  \/ UNCHANGED recorder
             \/ /\ UNCHANGED forgotten
                /\ \E o \in RP!Binding, at \in RP!Time, high \in BOOLEAN :
                       RP!Record(d, o, at, high)
  <2>1. job[s][d] \in Job
    BY <1>2 DEF Accept, At, MonitorInv, JobsOK
  <2>2. BindingOf(s, d) \in RP!Binding
    BY <1>1, <2>1 DEF BindingOf, Job
  <2> QED BY <1>1, <1>2, <2>2, SameRecord DEF Accept, Recorder!Live
<1>3. ASSUME NEW x \in replay, Recorder!Replay(x)
      PROVE  /\ UNCHANGED forgotten
             /\ \E d \in Device, o \in RP!Binding, at \in RP!Time, high \in BOOLEAN :
                    RP!Record(d, o, at, high)
  <2>1. x.device \in Device /\ x.at \in RP!Time /\ x.high \in BOOLEAN
    BY <1>1 DEF Recorder!Sample
  <2> QED BY <1>1, <1>3, <2>1, SameRecord DEF Recorder!Replay
<1>4. ASSUME ReplaySample, ~\E x \in replay : Recorder!Replay(x)
      PROVE  UNCHANGED <<checkpoint, events, samples, log, forgotten>>
  BY <1>4 DEF ReplaySample, Recorder!ReplayFails
<1>5. ASSUME NEW s \in Strip, PollStrip(s), ~\E d \in Device : Accept(s, d)
      PROVE  UNCHANGED recorder
  BY <1>5 DEF PollStrip, StartPoll, Answer, NoAnswer, Check
<1>6. ASSUME NEW now \in Recorder!Time, Restart(now)
      PROVE  UNCHANGED <<checkpoint, events, samples, log, forgotten>>
  BY <1>6 DEF Restart, Recorder!Boot
<1>7. CASE UserEdits
  BY <1>7 DEF UserEdits, recorder
<1>8. CASE UNCHANGED vars
  BY <1>8 DEF vars, recorder
<1> QED BY <1>2, <1>3, <1>4, <1>5, <1>6, <1>7, <1>8 DEF Next, recorder

(***************************************************************************)
(* However its strips are polled at once, the plugs moved, the clock set   *)
(* and the process restarted, the events that the monitor writes are those *)
(* that follow from the readings it had accepted (ActivityLog).            *)
(***************************************************************************)
THEOREM MonitorKeepsPromise == Spec => Recorder!KeepsPromise
<1>1. Init => RP!PromiseInv /\ RP!NoneWaits /\ RP!Promise!Init
  <2>1. Init => RP!NoHistory
    BY DEF Init, Recorder!NoHistory, RP!NoHistory
  <2> QED BY <2>1, RecorderFacts, RP!FreshStarts
<1>2. MonitorInv /\ MonitorInv' /\ RP!PromiseInv /\ RP!NoneWaits /\ [Next]_vars
      => /\ RP!PromiseInv' /\ RP!NoneWaits'
         /\ [RP!Promise!Next]_<<log, forgotten, RP!Settled>>
  <2> SUFFICES ASSUME MonitorInv, MonitorInv', RP!PromiseInv, RP!NoneWaits, [Next]_vars
               PROVE  /\ RP!PromiseInv' /\ RP!NoneWaits'
                      /\ [RP!Promise!Next]_<<log, forgotten, RP!Settled>>
    OBVIOUS
  <2>1. replay' \subseteq RP!Sample
    BY DEF MonitorInv, RecorderInv, Recorder!TypeOK, Recorder!Sample, RP!Sample,
           Recorder!Time, RP!Time
  <2>2. /\ UNCHANGED forgotten
        /\ \/ UNCHANGED <<checkpoint, events, samples, log>>
           \/ \E d \in Device, o \in RP!Binding, at \in RP!Time, high \in BOOLEAN :
                  RP!Record(d, o, at, high)
    BY MonitorDrives
  <2> QED BY <2>1, <2>2, RecorderFacts, RP!DrivenStep
<1>3. Init => Recorder!Promise!Init
  BY <1>1, SamePromise
<1>4. MonitorInv /\ MonitorInv' /\ RP!PromiseInv /\ RP!NoneWaits /\ [Next]_vars
      => /\ RP!PromiseInv' /\ RP!NoneWaits'
         /\ [Recorder!Promise!Next]_<<log, forgotten, Recorder!Settled>>
  BY <1>2, SamePromise
<1> QED BY <1>1, <1>3, <1>4, MonitorHolds, PTL
        DEF Spec, Recorder!KeepsPromise, Recorder!Promise!Spec
=============================================================================
