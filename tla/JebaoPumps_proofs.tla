--------------------------- MODULE JebaoPumps_proofs ---------------------------
(***************************************************************************)
(* What holds of the pumps for every set of pumps and levels, any number   *)
(* of requests, and any order of frames, App changes and restarts.         *)
(***************************************************************************)
EXTENDS JebaoPumps, FiniteSetTheorems, TLAPS

(***************************************************************************)
(* The types that the proofs need: those of the conversation.              *)
(***************************************************************************)
WriteType == [n : 1..MaxRequests, pump : Pump, flags : SUBSET Attribute, values : Status]
QueueType == [kind : {"read"}] \cup [kind : {"write"}, write : WriteType]
FrameType ==
    [kind : {"status"}, status : Status, seen : SUBSET Nat] \cup [kind : {"ack"}, n : Nat]

PumpType == [kind : Kind, key : Key, status : Status]
ViewType == [address : Address, key : Key \cup {"none"}, attrs : Key \cup {"none"},
             labels : Key \cup {"none"}, connected : BOOLEAN,
             success : {"never", "refresh", "write"}]
PollType == [phase : {"idle", "cast", "each"}, at : [Pump -> {"find", "read", "done"}]]
Busyness == {"find", "dial", "before", "ack", "after"}

ControlType ==
    [at : Busyness \cup {"idle"}, n : Nat, request : Request \cup {NoRequest},
     host : Address, before : Status \cup {NoStatus}]

RequestType ==
    [request : Request, result : {"pending", "ok", "error"}, seen : SUBSET Nat]

ControlOK ==
    /\ control \in ControlType
    /\ IF control.at = "idle" THEN control = NoControl
       ELSE control.n \in 1..Len(requests) /\ control.request \in Request
    /\ control.at \in {"ack", "after"} => control.before \in Status
    /\ requests \in Seq(RequestType) /\ Len(requests) <= MaxRequests

WireOK ==
    /\ queue \in Seq(QueueType)
    /\ frames \in Seq(FrameType)
    /\ late \subseteq WriteType
    /\ taken \in [1..MaxRequests -> Nat]
    /\ control.at \in {"idle", "find", "dial"} => queue = <<>> /\ frames = <<>>

HubOK ==
    /\ pump \in [Pump -> PumpType]
    /\ hosts \in [Pump -> Address]
    /\ view \in [Pump -> ViewType]
    /\ busy \in BOOLEAN
    /\ poll \in PollType

Types == HubOK /\ ControlOK /\ WireOK

(***************************************************************************)
(* Facts about the records.                                                *)
(***************************************************************************)
LEMMA RequestFacts ==
    ASSUME NEW r \in Request
    PROVE  /\ r.pump \in Pump /\ r.attr \in {"level", "feed"}
           /\ r.attr = "level" => r.value \in Level
           /\ r.attr = "feed" => r.value \in BOOLEAN
           /\ r = RequestOf(r.pump, r.attr, r.value)
BY DEF Request, LevelRequest, FeedRequest, RequestOf

LEMMA TakenType ==
    ASSUME NEW s \in Status, NEW w \in WriteType
    PROVE  Taken(s, w) \in Status
<1>1. \A a \in Attribute : Taken(s, w)[a] = (IF a \in w.flags THEN w.values[a] ELSE s[a])
  BY DEF Taken
<1> QED BY <1>1 DEF Taken, Status, WriteType, Attribute

LEMMA PayloadType ==
    ASSUME NEW n \in 1..MaxRequests, NEW r \in Request, NEW s \in Status
    PROVE  /\ Payload(n, r, s) \in WriteType
           /\ Payload(n, r, s).n = n
           /\ Payload(n, r, s).pump = r.pump
           /\ Payload(n, r, s).flags = {r.attr}
           /\ Payload(n, r, s).values[r.attr] = r.value
<1>1. CASE r.attr = "level"
  BY <1>1, RequestFacts DEF Payload, WriteType, Status, Attribute
<1>2. CASE r.attr = "feed"
  BY <1>2, RequestFacts DEF Payload, WriteType, Status, Attribute
<1> QED BY <1>1, <1>2, RequestFacts

LEMMA WritesInType ==
    ASSUME NEW q \in Seq(QueueType)
    PROVE  WritesIn(q) \subseteq WriteType
BY DEF WritesIn, QueueType

LEMMA SeenType == taken \in [1..MaxRequests -> Nat] => Seen \subseteq Nat
BY DEF Seen

LEMMA ViewFacts ==
    ASSUME NEW v \in ViewType, NEW k \in Key
    PROVE  /\ Accepted(v, k) \in ViewType
           /\ Failed(v) \in ViewType
           /\ Read(v, k) \in ViewType
           /\ \A h \in Address : Written(v, h) \in ViewType
BY DEF ViewType, Accepted, Failed, Read, Written, Address, Key

LEMMA HostFacts ==
    /\ \A x \in Address : Moved(x) \in Address
    /\ HubOK => \A d \in Pump : HostOf(d) \in Address
BY DEF Moved, Address, HubOK, HostOf, ViewType

(***************************************************************************)
(* Initially.                                                              *)
(***************************************************************************)
LEMMA TypesInit == JebaoInit => Types
<1> SUFFICES ASSUME JebaoInit PROVE Types
  OBVIOUS
<1>1. Running(AnyLevel) \in Status
  BY PumpAssumption DEF Running, AnyLevel, Status
<1>2. HubOK
  <2>1. pump \in [Pump -> PumpType]
    BY <1>1 DEF JebaoInit, PumpType, Key
  <2>2. view \in [Pump -> ViewType]
    BY DEF JebaoInit, ViewType, Unseen, Address
  <2>3. hosts \in [Pump -> Address] /\ busy \in BOOLEAN /\ poll \in PollType
    BY DEF JebaoInit, PollType, NoPoll, Address
  <2> QED BY <2>1, <2>2, <2>3 DEF HubOK
<1>3. ControlOK
  BY PumpAssumption DEF JebaoInit, ControlOK, ControlType, NoControl, NoRequest, NoStatus, Address
<1>4. WireOK
  BY DEF JebaoInit, WireOK
<1> QED BY <1>2, <1>3, <1>4 DEF Types

(***************************************************************************)
(* Each step keeps the types.  First those of a refresh.                   *)
(***************************************************************************)
LEMMA RefreshTypes ==
    ASSUME Types, RefreshStep \/ \E b \in BOOLEAN : StartRefresh(b)
    PROVE  Types'
<1>0. ASSUME UNCHANGED <<control, wire, requests>>, HubOK'
      PROVE  Types'
  BY <1>0 DEF Types, ControlOK, WireOK, wire
<1>a. HubOK
  BY DEF Types
<1>1. ASSUME NEW b \in BOOLEAN, StartRefresh(b) PROVE Types'
  <2>1. poll' \in PollType
    BY <1>1 DEF StartRefresh, PollType, NoPoll, AskEach
  <2> QED BY <1>a, <1>0, <1>1, <2>1 DEF StartRefresh, HubOK
<1>2. CASE Broadcast
  <2>1. poll' \in PollType
    BY <1>2 DEF Broadcast, PollType, AskEach
  <2>2. \A d \in Pump : /\ view[d] \in ViewType
                        /\ Accepted(view[d], pump[d].key) \in ViewType
    BY <1>a, ViewFacts DEF HubOK, PumpType
  <2>3. view' \in [Pump -> ViewType]
    BY <1>2, <2>2 DEF Broadcast
  <2> QED BY <1>0, <1>2, <1>a, <2>1, <2>3 DEF Broadcast, HubOK
<1>3. ASSUME NEW d \in Pump, NEW at, NEW next \in {"read", "done"},
             NEW v \in ViewType, PollStep(d, at, next, v)
      PROVE  Types'
  <2>1. poll' \in PollType
    BY <1>a, <1>3 DEF PollStep, PollType, HubOK
  <2>2. view' \in [Pump -> ViewType]
    BY <1>a, <1>3 DEF PollStep, HubOK
  <2> QED BY <1>a, <1>0, <1>3, <2>1, <2>2 DEF PollStep, HubOK
<1>4. ASSUME NEW d \in Pump,
             PollFinds(d) \/ PollFindsNothing(d) \/ PollReads(d) \/ PollReadFails(d)
      PROVE  Types'
  <2>1. view[d] \in ViewType /\ pump[d].key \in Key
    BY <1>a DEF HubOK, PumpType
  <2>2. /\ Accepted(view[d], pump[d].key) \in ViewType
        /\ Failed(view[d]) \in ViewType
        /\ Read(view[d], pump[d].key) \in ViewType
    BY <2>1, ViewFacts
  <2> QED BY <1>3, <1>4, <2>2 DEF PollFinds, PollFindsNothing, PollReads, PollReadFails
<1>5. CASE EndRefresh
  <2>1. poll' \in PollType
    BY <1>5 DEF EndRefresh, PollType, NoPoll
  <2> QED BY <1>a, <1>0, <1>5, <2>1 DEF EndRefresh, HubOK
<1> QED BY <1>1, <1>2, <1>4, <1>5 DEF RefreshStep

(***************************************************************************)
(* The steps of a write.                                                   *)
(***************************************************************************)
\* The connection is closed: nothing is left in it, and the hub is free.
LEMMA AnswerTypes ==
    ASSUME Types, control.at \in Busyness, taken' = taken,
           NEW result \in {"ok", "error"}, NEW seen \in SUBSET Nat,
           Answer(result, seen)
    PROVE  ControlOK' /\ WireOK' /\ busy' \in BOOLEAN
<1>1. control.n \in 1..Len(requests)
  BY DEF Types, ControlOK, Busyness
<1>2. requests' \in Seq(RequestType) /\ Len(requests') = Len(requests)
  <2>1. requests \in Seq(RequestType) /\ requests[control.n] \in RequestType
    BY <1>1 DEF Types, ControlOK
  <2>2. [requests[control.n] EXCEPT !.result = result, !.seen = seen] \in RequestType
    BY <2>1 DEF RequestType
  <2>3. requests' = [requests EXCEPT ![control.n] =
                       [requests[control.n] EXCEPT !.result = result, !.seen = seen]]
    BY <2>1 DEF Answer, RequestType
  <2> QED BY <1>1, <2>1, <2>2, <2>3
<1>3. ControlOK'
  BY <1>2 DEF Answer, Types, ControlOK, ControlType, NoControl, NoRequest, NoStatus, Address
<1>4. late' \subseteq WriteType
  BY WritesInType DEF Answer, Types, WireOK
<1>5. WireOK'
  BY <1>4 DEF Answer, Types, WireOK
<1> QED BY <1>3, <1>5 DEF Answer

LEMMA FrameFacts ==
    ASSUME NEW f \in FrameType
    PROVE  /\ f.kind \in {"status", "ack"}
           /\ f.kind = "status" => f.status \in Status /\ f.seen \in SUBSET Nat
           /\ f.kind = "ack" => f.n \in Nat
BY DEF FrameType

\* What arrives is read off the front of the connection.
LEMMA HeadFacts ==
    ASSUME Types, frames # <<>>
    PROVE  /\ Head(frames) \in FrameType
           /\ Tail(frames) \in Seq(FrameType)
BY DEF Types, WireOK

\* A step that only goes on keeps the status read before.
LEMMA GoesOn ==
    ASSUME NEW c \in ControlType, NEW at
    PROVE  /\ [c EXCEPT !.at = at] = [c EXCEPT !.at = at, !.before = c.before]
           /\ [c EXCEPT !.at = at].at = at
BY DEF ControlType

LEMMA ControlTypes ==
    ASSUME Types, OneConversation, ControlStep \/ \E r \in Request : ControlRequest(r)
    PROVE  Types'
<1>a. HubOK /\ ControlOK /\ WireOK
  BY DEF Types
<1>1. ASSUME NEW r \in Request, ControlRequest(r) PROVE Types'
  <2>1. HostOf(r.pump) \in Address
    BY <1>a, RequestFacts, HostFacts
  <2>2. requests' \in Seq(RequestType) /\ Len(requests') = Len(requests) + 1
        /\ Len(requests') <= MaxRequests
    <3>1. Pending(r) \in RequestType
      BY DEF Pending, RequestType
    <3> QED BY <1>a, <1>1, <3>1, PumpAssumption DEF ControlRequest, ControlOK
  <2>3. control' \in ControlType /\ control'.at = "find"
        /\ control'.n \in 1..Len(requests') /\ control'.request \in Request
    BY <1>a, <1>1, <2>1, <2>2 DEF ControlRequest, ControlType, Busyness, ControlOK
  <2>4. ControlOK'
    BY <2>2, <2>3 DEF ControlOK
  <2>5. control.at = "idle"
    BY <1>1 DEF ControlRequest, Free, OneConversation
  <2>6. WireOK'
    BY <1>a, <1>1, <2>3, <2>5 DEF ControlRequest, WireOK, wire
  <2> QED BY <1>a, <1>1, <2>4, <2>6 DEF ControlRequest, HubOK, Types
<1>2. CASE ControlRefused
  <2>1. ControlOK' /\ WireOK' /\ busy' \in BOOLEAN
    BY <1>2, AnswerTypes DEF ControlRefused, Busyness
  <2> QED BY <1>a, <1>2, <2>1 DEF ControlRefused, HubOK, Types
<1>3. CASE ControlSucceeds
  <2>1. Head(frames).seen \in SUBSET Nat /\ control.at = "after"
    BY <1>3, HeadFacts, FrameFacts DEF ControlSucceeds, Arrives, Wanted
  <2>2. ControlOK' /\ WireOK' /\ busy' \in BOOLEAN
    BY <1>3, <2>1, AnswerTypes DEF ControlSucceeds, Busyness
  <2>3. control.request.pump \in Pump /\ control.host \in Address
    BY <1>a, <2>1, RequestFacts DEF ControlOK, ControlType
  <2>4. view[control.request.pump] \in ViewType /\ "own" \in Key
    BY <1>a, <2>3 DEF HubOK, Key
  <2>5. Written(view[control.request.pump], control.host) \in ViewType
    BY <2>3, <2>4, ViewFacts
  <2>6. view' \in [Pump -> ViewType]
    BY <1>a, <1>3, <2>5 DEF ControlSucceeds, HubOK
  <2> QED BY <1>a, <1>3, <2>2, <2>6 DEF ControlSucceeds, HubOK, Types
<1>4. CASE ControlFails
  <2>1. ControlOK' /\ WireOK' /\ busy' \in BOOLEAN
    BY <1>4, AnswerTypes DEF ControlFails, Busyness
  <2>2. control.request.pump \in Pump
    BY <1>a, <1>4, RequestFacts DEF ControlOK, ControlFails
  <2>3. Failed(view[control.request.pump]) \in ViewType
    BY <1>a, <2>2, ViewFacts DEF HubOK, Key
  <2>4. view' \in [Pump -> ViewType]
    BY <1>a, <1>4, <2>3 DEF ControlFails, HubOK
  <2> QED BY <1>a, <1>4, <2>1, <2>4 DEF ControlFails, HubOK, Types
<1>5. ASSUME NEW at \in Busyness, NEW b \in Status \cup {NoStatus},
             control' = [control EXCEPT !.at = at, !.before = b],
             at \in {"ack", "after"} => b \in Status, control.at # "idle",
             UNCHANGED <<vars_hub, pump, requests>>, WireOK'
      PROVE  Types'
  <2>1. control' \in ControlType /\ control'.n = control.n /\ control'.at = at
        /\ control'.request = control.request /\ control'.before = b
    BY <1>a, <1>5 DEF ControlOK, ControlType
  <2>2. ControlOK'
    BY <1>a, <1>5, <2>1 DEF ControlOK, Busyness
  <2>3. HubOK'
    BY <1>a, <1>5 DEF HubOK, vars_hub
  <2> QED BY <1>5, <2>2, <2>3 DEF Types
<1>6. /\ control \in ControlType
      /\ control.at \in Busyness \cup {"idle"}
      /\ control.before \in Status \cup {NoStatus}
  BY <1>a DEF ControlOK, ControlType
<1>7. \A q \in QueueType : Append(queue, q) \in Seq(QueueType)
  BY <1>a DEF WireOK
<1>8. CASE ControlFinds
  <2>1. control' = [control EXCEPT !.at = "dial", !.before = control.before]
    BY <1>6, <1>8, GoesOn DEF ControlFinds
  <2>2. WireOK'
    BY <1>a, <1>8, <2>1, <1>6 DEF ControlFinds, WireOK, wire, ControlType
  <2> QED BY <1>5, <1>6, <1>8, <2>1, <2>2 DEF ControlFinds, Busyness
<1>9. CASE ControlDials
  <2>1. control' = [control EXCEPT !.at = "before", !.before = control.before]
        /\ control'.at = "before"
    BY <1>6, <1>9, GoesOn DEF ControlDials
  <2>2. ReadRequest \in QueueType
    BY DEF ReadRequest, QueueType
  <2>3. WireOK'
    BY <1>a, <1>7, <1>9, <2>1, <2>2 DEF ControlDials, Sends, WireOK
  <2> QED BY <1>5, <1>6, <1>9, <2>1, <2>3 DEF ControlDials, Busyness
<1>10. CASE SkipFrame
  <2>1. WireOK'
    BY <1>a, <1>10, HeadFacts DEF SkipFrame, WireOK
  <2> QED BY <1>a, <1>10, <2>1 DEF SkipFrame, Types, HubOK, ControlOK, vars_hub
<1>11. CASE ControlWrites
  <2> DEFINE st == Head(frames).status
             q == [kind |-> "write", write |-> Payload(control.n, control.request, st)]
  <2>1. st \in Status /\ control.at = "before" /\ frames # <<>>
    BY <1>11, HeadFacts, FrameFacts DEF ControlWrites, Arrives, Wanted
  <2>2. control.n \in 1..MaxRequests /\ control.request \in Request
    BY <1>a, <2>1, PumpAssumption DEF ControlOK, ControlType
  <2>3. q \in QueueType
    BY <2>1, <2>2, PayloadType DEF QueueType
  <2>4. control' = [control EXCEPT !.at = "ack", !.before = st] /\ control'.at = "ack"
    BY <1>6, <1>11, <2>1 DEF ControlWrites, ControlType
  <2>5. WireOK'
    BY <1>a, <1>7, <1>11, <2>1, <2>3, <2>4, HeadFacts DEF ControlWrites, Sends, WireOK
  <2> QED BY <1>5, <1>11, <2>1, <2>4, <2>5 DEF ControlWrites, Busyness
<1>12. CASE ControlAcknowledged
  <2>1. control.at = "ack" /\ frames # <<>>
    BY <1>12 DEF ControlAcknowledged, Arrives
  <2>2. control' = [control EXCEPT !.at = "after", !.before = control.before]
        /\ control'.at = "after"
    BY <1>6, <1>12, GoesOn DEF ControlAcknowledged
  <2>3. control.before \in Status
    BY <1>a, <2>1 DEF ControlOK
  <2>4. ReadRequest \in QueueType
    BY DEF ReadRequest, QueueType
  <2>5. WireOK'
    BY <1>a, <1>7, <1>12, <2>1, <2>2, <2>4, HeadFacts DEF ControlAcknowledged, Sends, WireOK
  <2> QED BY <1>5, <1>12, <2>1, <2>2, <2>3, <2>5 DEF ControlAcknowledged, Busyness
<1> QED BY <1>1, <1>2, <1>3, <1>4, <1>8, <1>9, <1>10, <1>11, <1>12 DEF ControlStep

(***************************************************************************)
(* The steps of the pump, of the App, of the network and of the user.      *)
(***************************************************************************)
LEMMA TakeTypes ==
    ASSUME HubOK, WireOK, NEW w \in WriteType, Take(w)
    PROVE  pump' \in [Pump -> PumpType] /\ taken' \in [1..MaxRequests -> Nat]
<1>1. w.pump \in Pump /\ w.n \in 1..MaxRequests
  BY DEF WriteType
<1>2. pump[w.pump] \in PumpType /\ Taken(pump[w.pump].status, w) \in Status
  BY <1>1, TakenType DEF HubOK, PumpType
<1>3. [pump[w.pump] EXCEPT !.status = Taken(pump[w.pump].status, w)] \in PumpType
  BY <1>2 DEF PumpType
<1>4. pump' = [pump EXCEPT ![w.pump] =
                 [pump[w.pump] EXCEPT !.status = Taken(pump[w.pump].status, w)]]
  BY <1>1 DEF Take, HubOK
<1>5. pump' \in [Pump -> PumpType]
  BY <1>1, <1>3, <1>4 DEF HubOK
<1>6. taken' \in [1..MaxRequests -> Nat]
  BY <1>1 DEF Take, WireOK
<1> QED BY <1>5, <1>6

LEMMA QueueHead ==
    ASSUME WireOK, queue # <<>>
    PROVE  /\ Head(queue) \in QueueType
           /\ Tail(queue) \in Seq(QueueType)
           /\ Head(queue).kind # "read" => Head(queue).write \in WriteType
<1>1. Head(queue) \in QueueType /\ Tail(queue) \in Seq(QueueType)
  BY DEF WireOK
<1> QED BY <1>1 DEF QueueType

LEMMA FrameTypes ==
    ASSUME HubOK, WireOK
    PROVE  /\ \A d \in Pump : Append(frames, StatusFrame(d)) \in Seq(FrameType)
           /\ \A n \in Nat : Append(frames, AckFrame(n)) \in Seq(FrameType)
<1>1. \A d \in Pump : StatusFrame(d) \in FrameType
  BY SeenType DEF StatusFrame, FrameType, HubOK, PumpType, WireOK
<1>2. \A n \in Nat : AckFrame(n) \in FrameType
  BY DEF AckFrame, FrameType
<1> QED BY <1>1, <1>2 DEF WireOK

WorldStep ==
    \/ PumpServes \/ LateWrite
    \/ AppChanges \/ NewFirmware \/ NewAddress \/ PumpReports
    \/ SaveHosts \/ JebaoRestart

LEMMA WorldTypes ==
    ASSUME Types, WorldStep
    PROVE  Types'
<1>a. HubOK /\ ControlOK /\ WireOK
  BY DEF Types
<1>b. control.at # "idle" => control.request.pump \in Pump /\ control.at \in Busyness
  BY <1>a, RequestFacts DEF ControlOK, ControlType
<1>1. CASE PumpServes
  <2>1. control.at # "idle" /\ queue # <<>> /\ control.request.pump \in Pump
        /\ control.at \notin {"idle", "find", "dial"}
    BY <1>a, <1>b, <1>1 DEF PumpServes, WireOK
  <2>2. CASE Head(queue).kind = "read"
    <3>1. WireOK'
      BY <1>a, <1>1, <2>1, <2>2, QueueHead, FrameTypes DEF PumpServes, WireOK
    <3> QED BY <1>a, <1>1, <2>2, <3>1 DEF PumpServes, Types, HubOK, ControlOK, vars_hub
  <2>3. CASE Head(queue).kind # "read"
    <3>1. Head(queue).write \in WriteType /\ Head(queue).write.n \in Nat
      BY <1>a, <2>1, <2>3, QueueHead DEF WriteType
    <3>2. pump' \in [Pump -> PumpType] /\ taken' \in [1..MaxRequests -> Nat]
      BY <1>a, <1>1, <2>3, <3>1, TakeTypes DEF PumpServes
    <3>3. WireOK'
      BY <1>a, <1>1, <2>1, <2>3, <3>1, <3>2, QueueHead, FrameTypes DEF PumpServes, WireOK
    <3> QED BY <1>a, <1>1, <3>2, <3>3 DEF PumpServes, Types, HubOK, ControlOK, vars_hub
  <2> QED BY <2>2, <2>3
<1>2. CASE LateWrite
  <2>1. PICK w \in late : late' = late \ {w} /\ (Take(w) \/ UNCHANGED <<pump, taken>>)
    BY <1>2 DEF LateWrite
  <2>2. w \in WriteType
    BY <1>a, <2>1 DEF WireOK
  <2>3. pump' \in [Pump -> PumpType] /\ taken' \in [1..MaxRequests -> Nat]
    BY <1>a, <2>1, <2>2, TakeTypes DEF HubOK, WireOK
  <2> QED BY <1>a, <1>2, <2>1, <2>3 DEF LateWrite, Types, HubOK, ControlOK, WireOK, vars_hub
<1>3. ASSUME pump' \in [Pump -> PumpType], UNCHANGED <<vars_hub, control, wire, requests>>
      PROVE  Types'
  BY <1>a, <1>3 DEF Types, HubOK, ControlOK, WireOK, vars_hub, wire
<1>4. CASE AppChanges
  <2>1. PICK d \in Pump, a \in Attribute :
           \E v \in (IF a = "level" THEN Level ELSE BOOLEAN) \ {pump[d].status[a]} :
              pump' = [pump EXCEPT ![d].status[a] = v]
    BY <1>4 DEF AppChanges
  <2>2. PICK v \in (IF a = "level" THEN Level ELSE BOOLEAN) :
           pump' = [pump EXCEPT ![d].status[a] = v]
    BY <2>1
  <2>3. pump[d] \in PumpType /\ pump[d].status \in Status
    BY <1>a DEF HubOK, PumpType
  <2>4. [pump[d].status EXCEPT ![a] = v] \in Status
    BY <2>2, <2>3 DEF Status, Attribute
  <2>5. pump' = [pump EXCEPT ![d] = [pump[d] EXCEPT !.status =
                                       [pump[d].status EXCEPT ![a] = v]]]
    BY <1>a, <2>2, <2>3 DEF HubOK, PumpType
  <2>6. [pump[d] EXCEPT !.status = [pump[d].status EXCEPT ![a] = v]] \in PumpType
    BY <2>3, <2>4 DEF PumpType
  <2>7. pump' \in [Pump -> PumpType]
    BY <1>a, <2>5, <2>6 DEF HubOK
  <2> QED BY <1>3, <1>4, <2>7 DEF AppChanges
<1>5. CASE NewFirmware
  <2>1. PICK d \in Pump, k \in Key : pump' = [pump EXCEPT ![d].key = k]
    BY <1>5 DEF NewFirmware
  <2>2. pump[d] \in PumpType
    BY <1>a DEF HubOK
  <2>3. pump' = [pump EXCEPT ![d] = [pump[d] EXCEPT !.key = k]]
    BY <1>a, <2>1, <2>2 DEF HubOK, PumpType
  <2>4. [pump[d] EXCEPT !.key = k] \in PumpType
    BY <2>2 DEF PumpType
  <2>5. pump' \in [Pump -> PumpType]
    BY <1>a, <2>3, <2>4 DEF HubOK
  <2> QED BY <1>3, <1>5, <2>5 DEF NewFirmware
<1>6. CASE NewAddress
  <2>1. PICK d \in Pump :
           /\ hosts' = [hosts EXCEPT ![d] = Moved(@)]
           /\ view' = [view EXCEPT ![d].address = Moved(@)]
           /\ control' = IF control.request.pump = d
                         THEN [control EXCEPT !.host = Moved(@)] ELSE control
    BY <1>6 DEF NewAddress
  <2>2. hosts' \in [Pump -> Address] /\ view[d] \in ViewType
    BY <1>a, <2>1, HostFacts DEF HubOK
  <2>3. [view[d] EXCEPT !.address = Moved(@)] \in ViewType
    BY <2>2, HostFacts DEF ViewType
  <2>4. view' \in [Pump -> ViewType]
    <3>1. view' = [view EXCEPT ![d] = [view[d] EXCEPT !.address = Moved(@)]]
      BY <1>a, <2>1, <2>2 DEF HubOK, ViewType
    <3> QED BY <1>a, <2>3, <3>1 DEF HubOK
  <2>5. control' = control \/ control' = [control EXCEPT !.host = Moved(control.host)]
    BY <2>1
  <2>6. control \in ControlType /\ Moved(control.host) \in Address
    BY <1>a, HostFacts DEF ControlOK, ControlType
  <2>7. /\ control' \in ControlType
        /\ control'.at = control.at /\ control'.n = control.n
        /\ control'.request = control.request /\ control'.before = control.before
    BY <2>5, <2>6 DEF ControlType
  <2>8. control.at = "idle" => control' = control
    <3>1. SUFFICES ASSUME control.at = "idle" PROVE control' = control
      OBVIOUS
    <3>2. control = NoControl
      BY <1>a, <3>1 DEF ControlOK
    <3> QED BY <2>5, <3>2 DEF NoControl, Moved
  <2>9. ControlOK'
    BY <1>a, <1>6, <2>7, <2>8 DEF ControlOK, NewAddress, NoControl
  <2>10. HubOK'
    BY <1>a, <1>6, <2>2, <2>4 DEF HubOK, NewAddress
  <2>11. WireOK'
    BY <1>a, <1>6, <2>7 DEF WireOK, NewAddress, wire
  <2> QED BY <2>9, <2>10, <2>11 DEF Types
<1>7. CASE PumpReports
  <2>1. control.request.pump \in Pump /\ control.at \notin {"idle", "find", "dial"}
    BY <1>b, <1>7 DEF PumpReports
  <2>2. frames' \in Seq(FrameType)
    BY <1>a, <1>7, <2>1, FrameTypes DEF PumpReports
  <2>3. WireOK'
    BY <1>a, <1>7, <2>1, <2>2 DEF PumpReports, WireOK
  <2> QED BY <1>a, <1>7, <2>3 DEF PumpReports, Types, HubOK, ControlOK, vars_hub
<1>8. CASE SaveHosts
  <2>1. view' \in [Pump -> ViewType]
    BY <1>a, <1>8 DEF SaveHosts, HubOK, ViewType
  <2> QED BY <1>a, <1>8, <2>1 DEF SaveHosts, Types, HubOK, ControlOK, WireOK, wire
<1>9. CASE JebaoRestart
  <2>1. HubOK'
    BY <1>a, <1>9 DEF JebaoRestart, HubOK, Unseen, ViewType, Address, NoPoll, PollType
  <2>2. requests' \in Seq(RequestType) /\ Len(requests') = Len(requests)
    <3>1. ASSUME NEW n \in DOMAIN requests
          PROVE  requests'[n] \in RequestType
      <4>1. requests \in Seq(RequestType)
        BY <1>a DEF ControlOK
      <4>2. requests[n] \in RequestType
        BY <4>1
      <4>3. [requests[n] EXCEPT !.result = "error"] \in RequestType
        BY <4>2 DEF RequestType
      <4> QED BY <1>9, <4>2, <4>3 DEF JebaoRestart
    <3>2. DOMAIN requests = 1..Len(requests) /\ Len(requests) \in Nat
      <4>1. requests \in Seq(RequestType)
        BY <1>a DEF ControlOK
      <4> QED BY <4>1
    <3>3. requests' = [n \in 1..Len(requests) |-> requests'[n]]
      BY <1>9, <3>2 DEF JebaoRestart
    <3>4. \A n \in 1..Len(requests) : requests'[n] \in RequestType
      BY <3>1, <3>2
    <3> QED BY <3>2, <3>3, <3>4
  <2>3. ControlOK'
    BY <1>a, <1>9, <2>2 DEF JebaoRestart, ControlOK, ControlType, NoControl, NoRequest,
       NoStatus, Address
  <2>4. WireOK'
    BY <1>a, <1>9, WritesInType DEF JebaoRestart, WireOK
  <2> QED BY <2>1, <2>3, <2>4 DEF Types
<1> QED BY <1>1, <1>2, <1>4, <1>5, <1>6, <1>7, <1>8, <1>9 DEF WorldStep

(***************************************************************************)
(* One conversation at a time.                                             *)
(***************************************************************************)
Core == Types /\ OneConversation

LEMMA CoreInit == JebaoInit => Core
<1> SUFFICES ASSUME JebaoInit PROVE Core
  OBVIOUS
<1>1. Types
  BY TypesInit
<1>2. poll.phase = "idle" /\ control.at = "idle" /\ busy = FALSE
  BY DEF JebaoInit, NoPoll, NoControl
<1> QED BY <1>1, <1>2 DEF Core, OneConversation

LEMMA RefreshAlone ==
    ASSUME Core, RefreshStep \/ \E b \in BOOLEAN : StartRefresh(b)
    PROVE  OneConversation'
<1>1. ASSUME NEW b \in BOOLEAN, StartRefresh(b) PROVE OneConversation'
  BY <1>1 DEF Core, StartRefresh, OneConversation, NoPoll, AskEach
<1>2. CASE Broadcast
  BY <1>2 DEF Core, Broadcast, OneConversation, AskEach
<1>3. ASSUME NEW d \in Pump, NEW at, NEW next, NEW v, PollStep(d, at, next, v)
      PROVE  OneConversation'
  <2>1. poll'.phase = "each"
    BY <1>3 DEF Core, Types, HubOK, PollStep, PollType
  <2> QED BY <1>3, <2>1 DEF Core, PollStep, OneConversation
<1>4. ASSUME NEW d \in Pump,
             PollFinds(d) \/ PollFindsNothing(d) \/ PollReads(d) \/ PollReadFails(d)
      PROVE  OneConversation'
  BY <1>3, <1>4 DEF PollFinds, PollFindsNothing, PollReads, PollReadFails
<1>5. CASE EndRefresh
  BY <1>5 DEF Core, EndRefresh, OneConversation, NoPoll
<1> QED BY <1>1, <1>2, <1>4, <1>5 DEF RefreshStep

LEMMA ControlAlone ==
    ASSUME Core, ControlStep \/ \E r \in Request : ControlRequest(r)
    PROVE  OneConversation'
<1>a. OneConversation /\ control \in ControlType
  BY DEF Core, Types, ControlOK
<1>1. ASSUME NEW r \in Request, ControlRequest(r) PROVE OneConversation'
  BY <1>a, <1>1 DEF ControlRequest, Free, OneConversation
<1>2. ASSUME NEW result, NEW seen, Answer(result, seen), control.at # "idle", poll' = poll
      PROVE  OneConversation'
  BY <1>a, <1>2 DEF Answer, OneConversation, NoControl
<1>3. CASE ControlRefused \/ ControlSucceeds \/ ControlFails
  BY <1>2, <1>3 DEF ControlRefused, ControlSucceeds, ControlFails, Arrives
<1>4. CASE ControlFinds \/ ControlDials \/ SkipFrame \/ ControlWrites \/ ControlAcknowledged
  <2>1. (control.at # "idle" /\ control'.at # "idle") \/ control' = control
    BY <1>a, <1>4 DEF ControlFinds, ControlDials, SkipFrame, ControlWrites,
       ControlAcknowledged, Arrives, ControlType
  <2>2. UNCHANGED <<busy, poll>>
    BY <1>4 DEF ControlFinds, ControlDials, SkipFrame, ControlWrites,
       ControlAcknowledged, vars_hub
  <2> QED BY <1>a, <2>1, <2>2 DEF OneConversation
<1> QED BY <1>1, <1>3, <1>4 DEF ControlStep

LEMMA WorldAlone ==
    ASSUME Core, WorldStep
    PROVE  OneConversation'
<1>a. OneConversation /\ control \in ControlType
  BY DEF Core, Types, ControlOK
<1>1. CASE JebaoRestart
  BY <1>1 DEF JebaoRestart, OneConversation, NoPoll, NoControl
<1>2. CASE NewAddress
  <2>1. control'.at = control.at
    BY <1>a, <1>2 DEF NewAddress, ControlType
  <2> QED BY <1>a, <1>2, <2>1 DEF NewAddress, OneConversation
<1>3. CASE PumpServes \/ LateWrite \/ AppChanges \/ NewFirmware \/ PumpReports \/ SaveHosts
  <2>1. UNCHANGED <<busy, poll, control>>
    BY <1>3 DEF PumpServes, LateWrite, AppChanges, NewFirmware, PumpReports, SaveHosts, vars_hub
  <2> QED BY <1>a, <2>1 DEF OneConversation
<1> QED BY <1>1, <1>2, <1>3 DEF WorldStep

LEMMA NextCases ==
    JebaoNext <=>
      \/ RefreshStep \/ \E b \in BOOLEAN : StartRefresh(b)
      \/ ControlStep \/ \E r \in Request : ControlRequest(r)
      \/ WorldStep
BY DEF JebaoNext, WorldStep

LEMMA CoreStep == Core /\ [JebaoNext]_jebaoVars => Core'
<1> SUFFICES ASSUME Core, [JebaoNext]_jebaoVars PROVE Core'
  OBVIOUS
<1>a. Types /\ OneConversation
  BY DEF Core
<1>1. CASE RefreshStep \/ \E b \in BOOLEAN : StartRefresh(b)
  BY <1>a, <1>1, RefreshTypes, RefreshAlone DEF Core
<1>2. CASE ControlStep \/ \E r \in Request : ControlRequest(r)
  BY <1>a, <1>2, ControlTypes, ControlAlone DEF Core
<1>3. CASE WorldStep
  BY <1>a, <1>3, WorldTypes, WorldAlone DEF Core
<1>4. CASE UNCHANGED jebaoVars
  BY <1>a, <1>4 DEF Core, Types, HubOK, ControlOK, WireOK, OneConversation, jebaoVars,
     vars_hub, wire
<1> QED BY <1>1, <1>2, <1>3, <1>4, NextCases

LEMMA CoreHolds == JebaoSpec => []Core
BY CoreInit, CoreStep, PTL DEF JebaoSpec

\* A refresh and a write never overlap, whatever the user, the App, the pumps
\* and the network do (m.busy of monitor.go and control.go).
THEOREM OneConversationCorrect == JebaoSpec => []OneConversation
<1>1. Core => OneConversation
  BY DEF Core
<1> QED BY <1>1, CoreHolds, PTL

(***************************************************************************)
(* What the page shows as current.                                         *)
(***************************************************************************)
OfOneModel(v) ==
    v.success # "never" =>
        /\ v.attrs = v.key /\ v.key # "none"
        /\ v.success = "refresh" => v.labels = v.key

AllOfOneModel == \A d \in Pump : OfOneModel(view[d])

LEMMA ModelFacts ==
    ASSUME NEW v \in ViewType, OfOneModel(v), NEW k \in Key
    PROVE  /\ OfOneModel(Accepted(v, k)) /\ OfOneModel(Failed(v))
           /\ OfOneModel([v EXCEPT !.address = Moved(@)])
           /\ OfOneModel([v EXCEPT !.connected = FALSE])
           /\ v.key = k => OfOneModel(Read(v, v.key))
           /\ \A h : OfOneModel(Written(v, h))
<1>1. v.key \in Key \cup {"none"} /\ "none" \notin Key
  BY DEF ViewType, Key
<1>2. OfOneModel(Accepted(v, k))
  BY <1>1 DEF ViewType, OfOneModel, Accepted
<1>3. OfOneModel(Failed(v)) /\ OfOneModel([v EXCEPT !.connected = FALSE])
  BY DEF ViewType, OfOneModel, Failed
<1>4. OfOneModel([v EXCEPT !.address = Moved(@)])
  BY DEF ViewType, OfOneModel
<1>5. v.key = k => OfOneModel(Read(v, v.key))
  BY <1>1 DEF ViewType, OfOneModel, Read
<1>6. \A h : OfOneModel(Written(v, h))
  BY DEF ViewType, OfOneModel, Written
<1> QED BY <1>2, <1>3, <1>4, <1>5, <1>6

LEMMA ModelStep == Core /\ AllOfOneModel /\ [JebaoNext]_jebaoVars => AllOfOneModel'
<1> SUFFICES ASSUME Core, AllOfOneModel, [JebaoNext]_jebaoVars PROVE AllOfOneModel'
  OBVIOUS
<1>a. HubOK /\ ControlOK
  BY DEF Core, Types
<1>b. \A d \in Pump : view[d] \in ViewType /\ pump[d].key \in Key /\ OfOneModel(view[d])
  BY <1>a DEF HubOK, PumpType, AllOfOneModel
<1>0. CASE view' = view
  BY <1>0 DEF AllOfOneModel
<1>1. ASSUME NEW d \in Pump, NEW v, OfOneModel(v), view' = [view EXCEPT ![d] = v]
      PROVE  AllOfOneModel'
  BY <1>a, <1>b, <1>1 DEF HubOK, AllOfOneModel
<1>2. CASE RefreshStep \/ \E b \in BOOLEAN : StartRefresh(b)
  <2>1. CASE Broadcast
    BY <1>b, <2>1, ModelFacts DEF Broadcast, AllOfOneModel
  <2>2. ASSUME NEW d \in Pump,
               PollFinds(d) \/ PollFindsNothing(d) \/ PollReads(d) \/ PollReadFails(d)
        PROVE  AllOfOneModel'
    <3>1. PICK v : view' = [view EXCEPT ![d] = v] /\ OfOneModel(v)
      <4>1. "own" \in Key
        BY DEF Key
      <4>2. CASE PollFinds(d)
        BY <1>b, <4>2, ModelFacts DEF PollFinds, PollStep
      <4>3. CASE PollFindsNothing(d) \/ PollReadFails(d)
        BY <1>b, <4>1, <4>3, ModelFacts DEF PollFindsNothing, PollReadFails, PollStep
      <4>4. CASE PollReads(d)
        BY <1>b, <4>4, ModelFacts DEF PollReads, PollStep
      <4> QED BY <2>2, <4>2, <4>3, <4>4
    <3> QED BY <1>1, <3>1
  <2>3. CASE EndRefresh \/ \E b \in BOOLEAN : StartRefresh(b)
    BY <1>0, <2>3 DEF EndRefresh, StartRefresh
  <2> QED BY <1>2, <2>1, <2>2, <2>3 DEF RefreshStep
<1>3. CASE ControlStep \/ \E r \in Request : ControlRequest(r)
  <2>1. CASE ControlSucceeds
    <3>1. control.request.pump \in Pump
      BY <1>a, <2>1, RequestFacts DEF ControlSucceeds, Arrives, ControlOK
    <3>2. OfOneModel(Written(view[control.request.pump], control.host))
      <4>1. "own" \in Key
        BY DEF Key
      <4> QED BY <1>b, <3>1, <4>1, ModelFacts
    <3> QED BY <1>1, <2>1, <3>1, <3>2 DEF ControlSucceeds
  <2>2. CASE ControlFails
    <3>1. control.request.pump \in Pump
      BY <1>a, <2>2, RequestFacts DEF ControlFails, ControlOK
    <3>2. "own" \in Key
      BY DEF Key
    <3>3. OfOneModel(Failed(view[control.request.pump]))
      BY <1>b, <3>1, <3>2, ModelFacts
    <3> QED BY <1>1, <2>2, <3>1, <3>3 DEF ControlFails
  <2>3. CASE ~ControlSucceeds /\ ~ControlFails
    BY <1>0, <1>3, <2>3 DEF ControlStep, ControlRefused, ControlFinds, ControlDials, SkipFrame,
       ControlWrites, ControlAcknowledged, ControlRequest, vars_hub
  <2> QED BY <2>1, <2>2, <2>3
<1>4. CASE WorldStep
  <2>1. CASE NewAddress
    <3>1. PICK d \in Pump : view' = [view EXCEPT ![d].address = Moved(@)]
      BY <2>1 DEF NewAddress
    <3>2. view' = [view EXCEPT ![d] = [view[d] EXCEPT !.address = Moved(@)]]
      BY <1>a, <1>b, <3>1 DEF HubOK, ViewType
    <3>3. OfOneModel([view[d] EXCEPT !.address = Moved(@)])
      BY <1>b, ModelFacts
    <3> QED BY <1>1, <3>2, <3>3
  <2>2. CASE SaveHosts
    BY <1>b, <2>2, ModelFacts DEF SaveHosts, AllOfOneModel
  <2>3. CASE JebaoRestart
    BY <2>3 DEF JebaoRestart, AllOfOneModel, OfOneModel, Unseen
  <2>4. CASE PumpServes \/ LateWrite \/ AppChanges \/ NewFirmware \/ PumpReports
    BY <1>0, <2>4 DEF PumpServes, LateWrite, AppChanges, NewFirmware, PumpReports, vars_hub
  <2> QED BY <1>4, <2>1, <2>2, <2>3, <2>4 DEF WorldStep
<1>5. CASE UNCHANGED jebaoVars
  BY <1>0, <1>5 DEF jebaoVars, vars_hub
<1> QED BY <1>2, <1>3, <1>4, <1>5, NextCases

\* Attributes that the page shows as current were decoded with the model that the
\* pump last named, over any change of firmware, address, settings or process, and so
\* were the labels when a refresh read them (accept of monitor.go, controlDevice of
\* control.go).
THEOREM FreshCorrect == JebaoSpec => []FreshIsOfThisModel
<1>1. JebaoInit => AllOfOneModel
  BY DEF JebaoInit, AllOfOneModel, OfOneModel, Unseen
<1>2. AllOfOneModel => FreshIsOfThisModel
  BY DEF AllOfOneModel, OfOneModel, FreshIsOfThisModel
<1> QED BY <1>1, <1>2, ModelStep, CoreHolds, PTL DEF JebaoSpec

(***************************************************************************)
(* A reported success.  An acknowledgement of a request in the connection  *)
(* means that the pump took its write, and so do the status reports after  *)
(* it.                                                                     *)
(***************************************************************************)
IsAckOf(f, n) == f.kind = "ack" /\ f.n = n
Saw(f, n) == f.kind = "status" => n \in f.seen

Backed(n, F, S) ==
    \A i \in DOMAIN F : IsAckOf(F[i], n) =>
        n \in S /\ \A j \in DOMAIN F : j > i => Saw(F[j], n)

AllSaw(n, F) == \A j \in DOMAIN F : Saw(F[j], n)

LEMMA BackedAppend ==
    ASSUME NEW F \in Seq(FrameType), NEW f \in FrameType, NEW n, NEW S, NEW T, S \subseteq T,
           Backed(n, F, S), n \in S => Saw(f, n), IsAckOf(f, n) => n \in T
    PROVE  /\ Backed(n, Append(F, f), T)
           /\ n \in S /\ AllSaw(n, F) => AllSaw(n, Append(F, f))
<1> DEFINE G == Append(F, f)
<1>1. /\ Len(F) \in Nat /\ DOMAIN F = 1..Len(F)
      /\ DOMAIN G = 1..Len(F) + 1 /\ G[Len(F) + 1] = f
      /\ \A i \in 1..Len(F) : G[i] = F[i]
  OBVIOUS
<1>2. Backed(n, G, T)
  BY <1>1 DEF Backed, IsAckOf, Saw
<1>3. n \in S /\ AllSaw(n, F) => AllSaw(n, G)
  BY <1>1 DEF AllSaw
<1> QED BY <1>2, <1>3

LEMMA BackedTail ==
    ASSUME NEW F \in Seq(FrameType), F # <<>>, NEW n, NEW S
    PROVE  /\ Backed(n, F, S) => Backed(n, Tail(F), S)
           /\ AllSaw(n, F) => AllSaw(n, Tail(F)) /\ Saw(Head(F), n)
           /\ Backed(n, F, S) /\ IsAckOf(Head(F), n) => n \in S /\ AllSaw(n, Tail(F))
<1>1. /\ Len(F) \in Nat /\ Len(F) >= 1 /\ DOMAIN F = 1..Len(F) /\ Head(F) = F[1]
      /\ DOMAIN Tail(F) = 1..(Len(F) - 1)
      /\ \A i \in 1..(Len(F) - 1) : Tail(F)[i] = F[i + 1]
  OBVIOUS
<1>2. ASSUME Backed(n, F, S) PROVE Backed(n, Tail(F), S)
  <2>1. SUFFICES ASSUME NEW i \in DOMAIN Tail(F), IsAckOf(Tail(F)[i], n)
                 PROVE  n \in S /\ \A j \in DOMAIN Tail(F) : j > i => Saw(Tail(F)[j], n)
    BY DEF Backed
  <2>2. i + 1 \in DOMAIN F /\ IsAckOf(F[i + 1], n)
    BY <1>1, <2>1
  <2>3. n \in S /\ \A j \in DOMAIN F : j > i + 1 => Saw(F[j], n)
    BY <1>2, <2>2 DEF Backed
  <2>4. ASSUME NEW j \in DOMAIN Tail(F), j > i PROVE Saw(Tail(F)[j], n)
    BY <1>1, <2>3, <2>4
  <2> QED BY <2>3, <2>4
<1>3. AllSaw(n, F) => AllSaw(n, Tail(F)) /\ Saw(Head(F), n)
  BY <1>1 DEF AllSaw
<1>4. ASSUME Backed(n, F, S), IsAckOf(Head(F), n) PROVE n \in S /\ AllSaw(n, Tail(F))
  <2>1. n \in S /\ \A j \in DOMAIN F : j > 1 => Saw(F[j], n)
    BY <1>1, <1>4 DEF Backed
  <2> QED BY <1>1, <2>1 DEF AllSaw
<1> QED BY <1>2, <1>3, <1>4

LEMMA BackedNone == \A n, S : Backed(n, <<>>, S) /\ AllSaw(n, <<>>)
BY DEF Backed, AllSaw

Confirmable ==
    control.at # "idle" =>
        /\ Backed(control.n, frames, Seen)
        /\ control.at = "after" => control.n \in Seen /\ AllSaw(control.n, frames)

\* Steps that change neither the connection nor the request being written.
LEMMA ConfirmableKept ==
    ASSUME Confirmable, Seen \subseteq Seen', UNCHANGED frames,
           control'.n = control.n, control'.at = control.at
    PROVE  Confirmable'
<1>1. \A n : Backed(n, frames, Seen) => Backed(n, frames', Seen')
  BY DEF Backed
<1> QED BY <1>1 DEF Confirmable

LEMMA TakeSeen ==
    ASSUME WireOK, NEW w \in WriteType, Take(w)
    PROVE  Seen \subseteq Seen' /\ w.n \in Seen'
<1>1. w.n \in 1..MaxRequests /\ taken \in [1..MaxRequests -> Nat]
  BY DEF WriteType, WireOK
<1>2. taken' = [taken EXCEPT ![w.n] = taken[w.n] + 1]
  BY DEF Take
<1>3. taken' \in [1..MaxRequests -> Nat] /\ \A n \in 1..MaxRequests : taken'[n] >= taken[n]
  BY <1>1, <1>2
<1>4. taken'[w.n] > 0
  BY <1>1, <1>2
<1> QED BY <1>1, <1>3, <1>4 DEF Seen

LEMMA ConfirmableWorld == ASSUME Core, Confirmable, WorldStep PROVE Confirmable'
<1>a. HubOK /\ ControlOK /\ WireOK /\ frames \in Seq(FrameType)
  BY DEF Core, Types, WireOK
<1>b. control.at # "idle" => control.request.pump \in Pump /\ control.n \in 1..Len(requests)
  BY <1>a, RequestFacts DEF ControlOK, ControlType
<1>1. CASE PumpServes
  <2>1. SUFFICES ASSUME control.at # "idle" PROVE Confirmable'
    BY <1>1 DEF PumpServes, Confirmable
  <2>2. ASSUME NEW f \in FrameType, frames' = Append(frames, f), Seen \subseteq Seen',
               control.n \in Seen => Saw(f, control.n), IsAckOf(f, control.n) => control.n \in Seen'
        PROVE  Confirmable'
    <3>1. Backed(control.n, frames', Seen')
      BY <1>a, <2>1, <2>2, BackedAppend DEF Confirmable
    <3>2. control.at = "after" => control.n \in Seen' /\ AllSaw(control.n, frames')
      BY <1>a, <2>1, <2>2, BackedAppend DEF Confirmable
    <3> QED BY <1>1, <3>1, <3>2 DEF Confirmable, PumpServes
  <2>3. CASE Head(queue).kind = "read"
    <3>1. StatusFrame(control.request.pump) \in FrameType
      BY <1>a, <1>b, <2>1, SeenType DEF StatusFrame, FrameType, HubOK, PumpType, WireOK
    <3>2. control.n \in Seen => Saw(StatusFrame(control.request.pump), control.n)
      BY DEF Saw, StatusFrame
    <3>3. ~IsAckOf(StatusFrame(control.request.pump), control.n)
      BY DEF StatusFrame, IsAckOf
    <3>4. frames' = Append(frames, StatusFrame(control.request.pump)) /\ Seen' = Seen
      BY <1>1, <2>3 DEF PumpServes, Seen
    <3> QED BY <2>2, <3>1, <3>2, <3>3, <3>4
  <2>4. CASE Head(queue).kind # "read"
    <3> DEFINE w == Head(queue).write
    <3>1. w \in WriteType /\ w.n \in Nat /\ Take(w) /\ frames' = Append(frames, AckFrame(w.n))
      BY <1>a, <1>1, <2>4, QueueHead DEF PumpServes, WriteType
    <3>2. Seen \subseteq Seen' /\ w.n \in Seen'
      BY <1>a, <3>1, TakeSeen
    <3>3. AckFrame(w.n) \in FrameType /\ Saw(AckFrame(w.n), control.n)
      BY <3>1 DEF AckFrame, FrameType, Saw
    <3>4. IsAckOf(AckFrame(w.n), control.n) => control.n \in Seen'
      BY <3>2 DEF IsAckOf, AckFrame
    <3> QED BY <2>2, <3>1, <3>2, <3>3, <3>4
  <2> QED BY <2>3, <2>4
<1>2. CASE LateWrite
  <2>1. PICK w \in late : Take(w) \/ UNCHANGED <<pump, taken>>
    BY <1>2 DEF LateWrite
  <2>2. Seen \subseteq Seen'
    BY <1>a, <2>1, TakeSeen DEF WireOK, Seen
  <2> QED BY <1>2, <2>2, ConfirmableKept DEF LateWrite
<1>3. CASE PumpReports
  <2>1. PICK f \in {StatusFrame(control.request.pump), AckFrame(0)} : frames' = Append(frames, f)
    BY <1>3 DEF PumpReports
  <2>2. control.at # "idle"
    BY <1>3 DEF PumpReports
  <2>3. f \in FrameType
    BY <1>a, <1>b, <2>1, <2>2, SeenType
       DEF StatusFrame, AckFrame, FrameType, HubOK, PumpType, WireOK
  <2>4. (control.n \in Seen => Saw(f, control.n)) /\ ~IsAckOf(f, control.n)
    BY <1>a, <1>b, <2>1, <2>2 DEF Saw, IsAckOf, StatusFrame, AckFrame
  <2>5. Backed(control.n, frames', Seen)
    BY <1>a, <2>1, <2>2, <2>3, <2>4, BackedAppend DEF Confirmable
  <2>6. control.at = "after" => control.n \in Seen /\ AllSaw(control.n, frames')
    BY <1>a, <2>1, <2>2, <2>3, <2>4, BackedAppend DEF Confirmable
  <2>7. control' = control /\ Seen' = Seen
    BY <1>3 DEF PumpReports, Seen
  <2> QED BY <2>5, <2>6, <2>7 DEF Confirmable
<1>4. CASE AppChanges \/ NewFirmware \/ SaveHosts \/ NewAddress
  <2>1. Seen' = Seen /\ frames' = frames
    BY <1>4 DEF AppChanges, NewFirmware, SaveHosts, NewAddress, wire, Seen
  <2>2. control'.n = control.n /\ control'.at = control.at
    BY <1>a, <1>4 DEF AppChanges, NewFirmware, SaveHosts, NewAddress, ControlOK, ControlType
  <2> QED BY <2>1, <2>2, ConfirmableKept
<1>5. CASE JebaoRestart
  BY <1>5 DEF JebaoRestart, Confirmable, NoControl
<1> QED BY <1>1, <1>2, <1>3, <1>4, <1>5 DEF WorldStep

LEMMA ConfirmableControl ==
    ASSUME Core, Confirmable, ControlStep \/ \E r \in Request : ControlRequest(r)
    PROVE  Confirmable'
<1>a. /\ ControlOK /\ WireOK /\ OneConversation
      /\ control \in ControlType /\ frames \in Seq(FrameType)
  BY DEF Core, Types, WireOK, ControlOK
<1>1. ASSUME NEW r \in Request, ControlRequest(r) PROVE Confirmable'
  <2>1. frames' = <<>> /\ control'.at = "find"
    BY <1>a, <1>1 DEF ControlRequest, Free, OneConversation, WireOK, wire
  <2> QED BY <2>1, BackedNone DEF Confirmable
<1>2. CASE ControlRefused \/ ControlSucceeds \/ ControlFails
  BY <1>2 DEF ControlRefused, ControlSucceeds, ControlFails, Answer, Confirmable, NoControl
<1>3. CASE ControlFinds \/ ControlDials
  <2>1. /\ Seen' = Seen /\ frames' = frames /\ control'.n = control.n
        /\ control.at # "idle" /\ control'.at # "after"
    BY <1>a, <1>3 DEF ControlFinds, ControlDials, ControlType, wire, Seen
  <2> QED BY <2>1 DEF Confirmable
<1>4. CASE SkipFrame
  <2>1. control' = control /\ Seen' = Seen /\ frames # <<>> /\ frames' = Tail(frames)
    BY <1>4 DEF SkipFrame, Seen
  <2> QED BY <1>a, <2>1, BackedTail DEF Confirmable
<1>5. CASE ControlWrites
  <2>1. /\ control'.at = "ack" /\ control'.n = control.n /\ control.at # "idle"
        /\ Seen' = Seen /\ frames # <<>> /\ frames' = Tail(frames)
    BY <1>a, <1>5 DEF ControlWrites, Arrives, ControlType, Seen
  <2> QED BY <1>a, <2>1, BackedTail DEF Confirmable
<1>6. CASE ControlAcknowledged
  <2>1. /\ control'.at = "after" /\ control'.n = control.n /\ control.at = "ack"
        /\ Seen' = Seen /\ frames # <<>> /\ frames' = Tail(frames)
        /\ IsAckOf(Head(frames), control.n)
    BY <1>a, <1>6 DEF ControlAcknowledged, Arrives, Wanted, ControlType, Seen, IsAckOf
  <2>2. Backed(control.n, frames, Seen)
    BY <2>1 DEF Confirmable
  <2>3. Backed(control.n, frames', Seen') /\ control.n \in Seen' /\ AllSaw(control.n, frames')
    BY <1>a, <2>1, <2>2, BackedTail
  <2> QED BY <2>1, <2>3 DEF Confirmable
<1> QED BY <1>1, <1>2, <1>3, <1>4, <1>5, <1>6 DEF ControlStep

\* How a request may end.
LEMMA AnswerConfirmed ==
    ASSUME ControlOK, SuccessConfirmed, control.at # "idle", NEW result, NEW seen,
           Answer(result, seen), result = "ok" => control.n \in seen
    PROVE  SuccessConfirmed'
<1>1. control.n \in DOMAIN requests /\ requests \in Seq(RequestType)
  BY DEF ControlOK
<1>2. requests' = [requests EXCEPT ![control.n] =
                     [requests[control.n] EXCEPT !.result = result, !.seen = seen]]
  BY <1>1 DEF Answer
<1>3. requests[control.n] \in RequestType
  BY <1>1
<1>4. /\ requests'[control.n].result = result /\ requests'[control.n].seen = seen
      /\ DOMAIN requests' = DOMAIN requests
      /\ \A n \in DOMAIN requests : n # control.n => requests'[n] = requests[n]
  BY <1>1, <1>2, <1>3 DEF RequestType
<1> QED BY <1>4 DEF SuccessConfirmed

LEMMA ConfirmedStep ==
    Core /\ Confirmable /\ SuccessConfirmed /\ [JebaoNext]_jebaoVars => SuccessConfirmed'
<1> SUFFICES ASSUME Core, Confirmable, SuccessConfirmed, [JebaoNext]_jebaoVars
             PROVE  SuccessConfirmed'
  OBVIOUS
<1>a. ControlOK /\ requests \in Seq(RequestType) /\ frames \in Seq(FrameType)
  BY DEF Core, Types, ControlOK, WireOK
<1>0. CASE requests' = requests
  BY <1>0 DEF SuccessConfirmed
<1>1. CASE RefreshStep \/ \E b \in BOOLEAN : StartRefresh(b)
  BY <1>0, <1>1 DEF RefreshStep, StartRefresh, Broadcast, PollFinds, PollFindsNothing,
     PollReads, PollReadFails, PollStep, EndRefresh
<1>2. ASSUME NEW r \in Request, ControlRequest(r) PROVE SuccessConfirmed'
  <2>1. requests' = Append(requests, Pending(r)) /\ Pending(r).result = "pending"
    BY <1>2 DEF ControlRequest, Pending
  <2> QED BY <1>a, <2>1 DEF SuccessConfirmed
<1>3. CASE ControlStep
  <2>1. CASE ControlRefused \/ ControlFails
    BY <1>a, <2>1, AnswerConfirmed DEF ControlRefused, ControlFails
  <2>2. CASE ControlSucceeds
    <3>1. control.at = "after" /\ frames # <<>> /\ Head(frames).kind = "status"
      BY <2>2 DEF ControlSucceeds, Arrives, Wanted
    <3>2. control.n \in Head(frames).seen
      BY <1>a, <3>1, BackedTail DEF Confirmable, Saw
    <3> QED BY <1>a, <2>2, <3>1, <3>2, AnswerConfirmed DEF ControlSucceeds
  <2>3. CASE ControlFinds \/ ControlDials \/ SkipFrame \/ ControlWrites \/ ControlAcknowledged
    BY <1>0, <2>3 DEF ControlFinds, ControlDials, SkipFrame, ControlWrites, ControlAcknowledged
  <2> QED BY <1>3, <2>1, <2>2, <2>3 DEF ControlStep
<1>4. CASE WorldStep
  <2>1. CASE JebaoRestart
    <3>1. DOMAIN requests' = DOMAIN requests
      BY <2>1 DEF JebaoRestart
    <3>2. ASSUME NEW n \in DOMAIN requests, requests'[n].result = "ok"
          PROVE  requests'[n] = requests[n]
      <4>1. requests[n] \in RequestType
        BY <1>a
      <4>2. [requests[n] EXCEPT !.result = "error"].result = "error"
        BY <4>1 DEF RequestType
      <4> QED BY <2>1, <3>2, <4>2 DEF JebaoRestart
    <3> QED BY <3>1, <3>2 DEF SuccessConfirmed
  <2>2. CASE ~JebaoRestart
    BY <1>0, <1>4, <2>2 DEF WorldStep, PumpServes, LateWrite, AppChanges, NewFirmware,
       NewAddress, PumpReports, SaveHosts
  <2> QED BY <2>1, <2>2
<1>5. CASE UNCHANGED jebaoVars
  BY <1>0, <1>5 DEF jebaoVars
<1> QED BY <1>1, <1>2, <1>3, <1>4, <1>5, NextCases

LEMMA ConfirmableStep == Core /\ Confirmable /\ [JebaoNext]_jebaoVars => Confirmable'
<1> SUFFICES ASSUME Core, Confirmable, [JebaoNext]_jebaoVars PROVE Confirmable'
  OBVIOUS
<1>1. CASE (RefreshStep \/ \E b \in BOOLEAN : StartRefresh(b)) \/ UNCHANGED jebaoVars
  <2>1. UNCHANGED <<control, frames, taken>>
    BY <1>1 DEF RefreshStep, StartRefresh, Broadcast, PollFinds, PollFindsNothing, PollReads,
       PollReadFails, PollStep, EndRefresh, jebaoVars, wire
  <2> QED BY <2>1 DEF Confirmable, Seen
<1> QED BY <1>1, NextCases, ConfirmableControl, ConfirmableWorld

\* Success means that this request's write was taken and that the status read
\* back is younger, for any frames sent unasked and whatever became of earlier
\* requests (writeModelConnection of control.go).
THEOREM SuccessCorrect == JebaoSpec => []SuccessConfirmed
<1>1. JebaoInit => Confirmable /\ SuccessConfirmed
  BY DEF JebaoInit, NoControl, Confirmable, SuccessConfirmed
<1>2. Core /\ Confirmable /\ SuccessConfirmed /\ [JebaoNext]_jebaoVars
         => Confirmable' /\ SuccessConfirmed'
  BY ConfirmableStep, ConfirmedStep
<1> QED BY <1>1, <1>2, CoreHolds, PTL DEF JebaoSpec

(***************************************************************************)
(* What a write may change.  Every write on its way was asked for, and it  *)
(* has one flag.                                                           *)
(***************************************************************************)
AskedWrite(w) ==
    \E n \in DOMAIN requests :
        LET r == requests[n].request
        IN w.pump = r.pump /\ w.flags = {r.attr} /\ w.values[r.attr] = r.value

WritesAsked ==
    /\ \A i \in DOMAIN queue : queue[i].kind = "write" => AskedWrite(queue[i].write)
    /\ \A w \in late : AskedWrite(w)
    /\ control.at # "idle" => requests[control.n].request = control.request
    /\ surprises \in Nat

RequestsStay ==
    \A n \in DOMAIN requests :
        n \in DOMAIN requests' /\ requests'[n].request = requests[n].request

LEMMA AnswerKeepsRequests ==
    ASSUME ControlOK, control.at # "idle", NEW result, NEW seen, Answer(result, seen)
    PROVE  RequestsStay
<1>1. control.n \in DOMAIN requests /\ requests \in Seq(RequestType)
  BY DEF ControlOK
<1>2. requests' = [requests EXCEPT ![control.n] =
                     [requests[control.n] EXCEPT !.result = result, !.seen = seen]]
  BY <1>1 DEF Answer
<1>3. requests[control.n] \in RequestType
  BY <1>1
<1> QED BY <1>1, <1>2, <1>3 DEF RequestType, RequestsStay

LEMMA RequestsAreKept == Core /\ [JebaoNext]_jebaoVars => RequestsStay
<1> SUFFICES ASSUME Core, [JebaoNext]_jebaoVars PROVE RequestsStay
  OBVIOUS
<1>a. ControlOK /\ requests \in Seq(RequestType)
  BY DEF Core, Types, ControlOK
<1>0. CASE requests' = requests
  BY <1>0 DEF RequestsStay
<1>1. CASE (RefreshStep \/ \E b \in BOOLEAN : StartRefresh(b)) \/ UNCHANGED jebaoVars
  BY <1>0, <1>1 DEF RefreshStep, StartRefresh, Broadcast, PollFinds, PollFindsNothing,
     PollReads, PollReadFails, PollStep, EndRefresh, jebaoVars
<1>2. ASSUME NEW r \in Request, ControlRequest(r) PROVE RequestsStay
  BY <1>a, <1>2 DEF ControlRequest, RequestsStay
<1>3. CASE ControlStep
  <2>1. CASE ControlRefused \/ ControlSucceeds \/ ControlFails
    BY <1>a, <2>1, AnswerKeepsRequests DEF ControlRefused, ControlSucceeds, ControlFails, Arrives
  <2>2. CASE ControlFinds \/ ControlDials \/ SkipFrame \/ ControlWrites \/ ControlAcknowledged
    BY <1>0, <2>2 DEF ControlFinds, ControlDials, SkipFrame, ControlWrites, ControlAcknowledged
  <2> QED BY <1>3, <2>1, <2>2 DEF ControlStep
<1>4. CASE WorldStep
  <2>1. CASE JebaoRestart
    <3>1. ASSUME NEW n \in DOMAIN requests PROVE requests'[n].request = requests[n].request
      <4>1. requests[n] \in RequestType
        BY <1>a
      <4>2. [requests[n] EXCEPT !.result = "error"].request = requests[n].request
        BY <4>1 DEF RequestType
      <4> QED BY <2>1, <4>2 DEF JebaoRestart
    <3> QED BY <2>1, <3>1 DEF JebaoRestart, RequestsStay
  <2>2. CASE ~JebaoRestart
    BY <1>0, <1>4, <2>2 DEF WorldStep, PumpServes, LateWrite, AppChanges, NewFirmware,
       NewAddress, PumpReports, SaveHosts
  <2> QED BY <2>1, <2>2
<1> QED BY <1>1, <1>2, <1>3, <1>4, NextCases

LEMMA AskedStays == RequestsStay => \A w : AskedWrite(w) => AskedWrite(w)'
BY DEF RequestsStay, AskedWrite

LEMMA WrittenWasAsked ==
    ASSUME WritesAsked, NEW w \in WritesIn(queue) PROVE AskedWrite(w)
BY DEF WritesIn, WritesAsked

LEMMA AskedAppend ==
    ASSUME NEW q \in Seq(QueueType), NEW x \in QueueType, NEW P,
           \A i \in DOMAIN q : q[i].kind = "write" => q[i].write \in P,
           x.kind = "write" => x.write \in P
    PROVE  \A i \in DOMAIN Append(q, x) :
               Append(q, x)[i].kind = "write" => Append(q, x)[i].write \in P
OBVIOUS

LEMMA AskedTail ==
    ASSUME NEW q \in Seq(QueueType), q # <<>>, NEW P,
           \A i \in DOMAIN q : q[i].kind = "write" => q[i].write \in P
    PROVE  \A i \in DOMAIN Tail(q) : Tail(q)[i].kind = "write" => Tail(q)[i].write \in P
<1>1. /\ Len(q) \in Nat /\ DOMAIN q = 1..Len(q) /\ DOMAIN Tail(q) = 1..(Len(q) - 1)
      /\ \A i \in 1..(Len(q) - 1) : Tail(q)[i] = q[i + 1] /\ i + 1 \in 1..Len(q)
  OBVIOUS
<1> QED BY <1>1

LEMMA AskedInit == JebaoInit => WritesAsked
BY DEF JebaoInit, WritesAsked, NoControl

LEMMA AskedStep == Core /\ WritesAsked /\ [JebaoNext]_jebaoVars => WritesAsked'
<1> SUFFICES ASSUME Core, WritesAsked, [JebaoNext]_jebaoVars PROVE WritesAsked'
  OBVIOUS
<1> DEFINE P == {w \in WriteType : AskedWrite(w)'}
<1>a. /\ ControlOK /\ WireOK /\ OneConversation /\ control \in ControlType
      /\ requests \in Seq(RequestType) /\ queue \in Seq(QueueType)
  BY DEF Core, Types, ControlOK, WireOK
<1>b. RequestsStay /\ \A w : AskedWrite(w) => AskedWrite(w)'
  BY RequestsAreKept, AskedStays
<1>c. \A i \in DOMAIN queue : queue[i].kind = "write" => queue[i].write \in P
  <2>1. ASSUME NEW i \in DOMAIN queue, queue[i].kind = "write" PROVE queue[i].write \in P
    <3>1. queue[i] \in QueueType
      BY <1>a
    <3>2. queue[i].write \in WriteType
      BY <2>1, <3>1 DEF QueueType
    <3> QED BY <1>b, <2>1, <3>2 DEF WritesAsked
  <2> QED BY <2>1
<1>d. \A w \in late \cup WritesIn(queue) : AskedWrite(w)'
  BY <1>b, WrittenWasAsked DEF WritesAsked
<1>e. control.at # "idle" =>
        control.n \in DOMAIN requests /\ requests'[control.n].request = control.request
  BY <1>a, <1>b DEF WritesAsked, ControlOK, RequestsStay
<1>f. surprises' \in Nat
  BY NextCases DEF WritesAsked, WorldStep, Surprise, RefreshStep, StartRefresh, Broadcast,
     PollFinds, PollFindsNothing, PollReads, PollReadFails, PollStep, EndRefresh, ControlStep,
     ControlRequest, ControlRefused, ControlFinds, ControlDials, SkipFrame, ControlWrites,
     ControlAcknowledged, ControlSucceeds, ControlFails, PumpServes, LateWrite, AppChanges,
     NewFirmware, NewAddress, PumpReports, SaveHosts, JebaoRestart, jebaoVars
\* Nothing is sent.
<1>0. ASSUME queue' \in {queue, <<>>} \/ (queue # <<>> /\ queue' = Tail(queue)),
             late' \subseteq late \cup WritesIn(queue),
             control'.at # "idle" =>
                control.at # "idle" /\ control'.n = control.n /\ control'.request = control.request
      PROVE  WritesAsked'
  <2>1. \A i \in DOMAIN queue' : queue'[i].kind = "write" => queue'[i].write \in P
    <3>1. CASE queue' \in {queue, <<>>}
      BY <1>c, <3>1
    <3>2. CASE queue # <<>> /\ queue' = Tail(queue)
      <4> HIDE DEF P
      <4> QED BY <1>a, <1>c, <3>2, AskedTail
    <3> QED BY <1>0, <3>1, <3>2
  <2>2. \A w \in late' : AskedWrite(w)'
    BY <1>0, <1>d
  <2>3. control'.at # "idle" => requests'[control'.n].request = control'.request
    BY <1>0, <1>e
  <2> QED BY <1>f, <2>1, <2>2, <2>3 DEF WritesAsked
\* One thing is sent.
<1>1. ASSUME NEW x \in QueueType, queue' = Append(queue, x), x.kind = "write" => x.write \in P,
             late' = late, control.at # "idle",
             control'.n = control.n, control'.request = control.request
      PROVE  WritesAsked'
  <2>1. \A i \in DOMAIN queue' : queue'[i].kind = "write" => queue'[i].write \in P
    <3> HIDE DEF P
    <3> QED BY <1>a, <1>c, <1>1, AskedAppend
  <2> QED BY <1>d, <1>e, <1>f, <1>1, <2>1 DEF WritesAsked
<1>2. CASE (RefreshStep \/ \E b \in BOOLEAN : StartRefresh(b)) \/ UNCHANGED jebaoVars
  BY <1>0, <1>2 DEF RefreshStep, StartRefresh, Broadcast, PollFinds, PollFindsNothing,
     PollReads, PollReadFails, PollStep, EndRefresh, jebaoVars, wire
<1>3. ASSUME NEW r \in Request, ControlRequest(r) PROVE WritesAsked'
  <2>1. /\ requests' = Append(requests, Pending(r)) /\ control'.n = Len(requests) + 1
        /\ control'.request = r /\ UNCHANGED wire
    BY <1>3 DEF ControlRequest
  <2>2. requests'[control'.n].request = control'.request
    BY <1>a, <2>1 DEF Pending
  <2> QED BY <1>c, <1>d, <1>f, <2>1, <2>2 DEF WritesAsked, wire
<1>4. CASE ControlStep
  <2>1. CASE ControlRefused \/ ControlSucceeds \/ ControlFails
    BY <1>0, <2>1 DEF ControlRefused, ControlSucceeds, ControlFails, Answer, NoControl
  <2>2. CASE ControlFinds \/ SkipFrame
    <3>1. /\ queue' = queue /\ late' = late
          /\ control'.n = control.n /\ control'.request = control.request
          /\ control'.at # "idle" => control.at # "idle"
      BY <1>a, <2>2 DEF ControlFinds, SkipFrame, wire, ControlType
    <3> QED BY <1>0, <3>1
  <2>3. CASE ControlDials \/ ControlAcknowledged
    <3>1. /\ queue' = Append(queue, ReadRequest) /\ late' = late /\ control.at # "idle"
          /\ control'.n = control.n /\ control'.request = control.request
      BY <1>a, <2>3 DEF ControlDials, ControlAcknowledged, Arrives, Sends, ControlType
    <3>2. ReadRequest \in QueueType /\ ReadRequest.kind # "write"
      BY DEF ReadRequest, QueueType
    <3> QED BY <1>1, <3>1, <3>2
  <2>4. CASE ControlWrites
    <3> DEFINE st == Head(frames).status
               w == Payload(control.n, control.request, st)
               x == [kind |-> "write", write |-> w]
    <3>1. st \in Status /\ control.at = "before"
      BY <2>4, HeadFacts, FrameFacts DEF ControlWrites, Arrives, Wanted, Core
    <3>2. control.n \in 1..MaxRequests /\ control.request \in Request
      BY <1>a, <3>1, PumpAssumption DEF ControlOK, ControlType
    <3>3. w \in WriteType /\ AskedWrite(w)
      <4>1. /\ w \in WriteType /\ w.pump = control.request.pump
            /\ w.flags = {control.request.attr}
            /\ w.values[control.request.attr] = control.request.value
        BY <3>1, <3>2, PayloadType
      <4>2. control.n \in DOMAIN requests /\ requests[control.n].request = control.request
        BY <1>a, <3>1 DEF WritesAsked, ControlOK
      <4> QED BY <4>1, <4>2 DEF AskedWrite
    <3>4. x \in QueueType /\ x.write \in P
      BY <1>b, <3>3 DEF QueueType
    <3>5. /\ queue' = Append(queue, x) /\ late' = late
          /\ control'.n = control.n /\ control'.request = control.request
      BY <1>a, <2>4 DEF ControlWrites, Sends, ControlType
    <3> HIDE DEF x, P
    <3> QED BY <1>1, <3>1, <3>4, <3>5
  <2> QED BY <1>4, <2>1, <2>2, <2>3, <2>4 DEF ControlStep
<1>5. CASE WorldStep
  <2>1. CASE JebaoRestart
    BY <1>0, <2>1 DEF JebaoRestart, NoControl
  <2>2. CASE NewAddress
    <3>1. /\ control'.at = control.at /\ control'.n = control.n
          /\ control'.request = control.request /\ queue' = queue /\ late' = late
      BY <1>a, <2>2 DEF NewAddress, ControlType, wire
    <3> QED BY <1>0, <3>1
  <2>3. CASE PumpServes \/ LateWrite \/ AppChanges \/ NewFirmware \/ PumpReports \/ SaveHosts
    BY <1>0, <2>3 DEF PumpServes, LateWrite, AppChanges, NewFirmware, PumpReports, SaveHosts,
       wire
  <2> QED BY <1>5, <2>1, <2>2, <2>3 DEF WorldStep
<1> QED BY <1>2, <1>3, <1>4, <1>5, NextCases

\* A pump takes no more of a write than what its request asked for.
LEMMA TakesAsked ==
    ASSUME HubOK, ControlOK, NEW w \in WriteType, AskedWrite(w), Take(w)
    PROVE  \A d \in Pump, a \in Attribute :
               pump'[d].status[a] # pump[d].status[a] => Asked(d, a, pump'[d].status[a])
<1> SUFFICES ASSUME NEW d \in Pump, NEW a \in Attribute,
                    pump'[d].status[a] # pump[d].status[a]
             PROVE  Asked(d, a, pump'[d].status[a])
  OBVIOUS
<1>1. w.pump \in Pump /\ pump[w.pump] \in PumpType
  BY DEF WriteType, HubOK
<1>2. pump' = [pump EXCEPT ![w.pump] =
                 [pump[w.pump] EXCEPT !.status = Taken(pump[w.pump].status, w)]]
  BY <1>1 DEF Take, HubOK
<1>3. d = w.pump
  BY <1>2 DEF HubOK
<1>4. pump'[d].status = Taken(pump[d].status, w)
  BY <1>1, <1>2, <1>3 DEF HubOK, PumpType
<1>5. pump'[d].status[a] = IF a \in w.flags THEN w.values[a] ELSE pump[d].status[a]
  BY <1>4 DEF Taken
<1>6. PICK n \in DOMAIN requests :
         LET r == requests[n].request
         IN w.pump = r.pump /\ w.flags = {r.attr} /\ w.values[r.attr] = r.value
  BY DEF AskedWrite
<1>7. requests[n].request = RequestOf(d, a, pump'[d].status[a])
  <2>1. n \in DOMAIN requests /\ requests[n].request \in Request
    <3>1. requests \in Seq(RequestType)
      BY DEF ControlOK
    <3>2. requests[n] \in RequestType
      BY <1>6, <3>1
    <3> QED BY <1>6, <3>2 DEF RequestType
  <2> QED BY <1>3, <1>5, <1>6, <2>1, RequestFacts
<1> QED BY <1>6, <1>7 DEF Asked

LEMMA OnlyAskedStep ==
    Core /\ WritesAsked /\ [JebaoNext]_jebaoVars => [OnlyTheAskedAttribute]_jebaoVars
<1> SUFFICES ASSUME Core, WritesAsked, JebaoNext, surprises' = surprises
             PROVE  \A d \in Pump, a \in Attribute :
                       pump'[d].status[a] # pump[d].status[a] => Asked(d, a, pump'[d].status[a])
  BY DEF OnlyTheAskedAttribute
<1>a. HubOK /\ ControlOK /\ WireOK /\ queue \in Seq(QueueType)
  BY DEF Core, Types, WireOK
<1>1. CASE pump' = pump
  BY <1>1
<1>2. CASE RefreshStep \/ \E b \in BOOLEAN : StartRefresh(b)
  BY <1>1, <1>2 DEF RefreshStep, StartRefresh, Broadcast, PollFinds, PollFindsNothing,
     PollReads, PollReadFails, PollStep, EndRefresh
<1>3. CASE ControlStep \/ \E r \in Request : ControlRequest(r)
  BY <1>1, <1>3 DEF ControlStep, ControlRequest, ControlRefused, ControlFinds, ControlDials,
     SkipFrame, ControlWrites, ControlAcknowledged, ControlSucceeds, ControlFails
<1>4. CASE PumpServes
  <2>1. CASE Head(queue).kind = "read"
    BY <1>1, <1>4, <2>1 DEF PumpServes
  <2>2. CASE Head(queue).kind # "read"
    <3>1. Head(queue).write \in WriteType /\ Take(Head(queue).write) /\ queue # <<>>
      BY <1>a, <1>4, <2>2, QueueHead DEF PumpServes
    <3>2. 1 \in DOMAIN queue /\ Head(queue) = queue[1] /\ queue[1] \in QueueType
      BY <1>a, <3>1
    <3>3. AskedWrite(Head(queue).write)
      BY <2>2, <3>2 DEF WritesAsked, QueueType
    <3> QED BY <1>a, <3>1, <3>3, TakesAsked
  <2> QED BY <2>1, <2>2
<1>5. CASE LateWrite
  <2>1. PICK w \in late : Take(w) \/ pump' = pump
    BY <1>5 DEF LateWrite
  <2>2. w \in WriteType /\ AskedWrite(w)
    BY <1>a, <2>1 DEF WireOK, WritesAsked
  <2> QED BY <1>a, <1>1, <2>1, <2>2, TakesAsked
<1>6. CASE AppChanges \/ NewAddress \/ PumpReports \/ SaveHosts \/ JebaoRestart
  BY <1>6 DEF AppChanges, NewAddress, PumpReports, SaveHosts, JebaoRestart, Surprise,
     WritesAsked
<1>7. CASE NewFirmware
  <2>1. PICK d \in Pump, k \in Key : pump' = [pump EXCEPT ![d].key = k]
    BY <1>7 DEF NewFirmware
  <2>2. \A e \in Pump : pump'[e].status = pump[e].status
    BY <1>a, <2>1 DEF HubOK, PumpType
  <2> QED BY <2>2
<1> QED BY <1>2, <1>3, <1>4, <1>5, <1>6, <1>7, NextCases DEF WorldStep

\* Whatever the App changed after the status that a write was made from, and
\* however late the write arrives, it changes nothing that was not asked for
\* (the one flag of speedPayload, flowPayload and feedingPayload).
THEOREM OnlyAskedCorrect == JebaoSpec => HubTouchesOnlyAsked
BY AskedInit, AskedStep, OnlyAskedStep, CoreHolds, PTL DEF JebaoSpec, HubTouchesOnlyAsked

(***************************************************************************)
(* No write is sent twice.  A request's write is in one place: not sent    *)
(* yet, in the connection, left in a closed one, or taken.                 *)
(***************************************************************************)
IsWriteOf(q, i, n) == q[i].kind = "write" /\ q[i].write.n = n
PlacesOf(q, n) == {i \in DOMAIN q : IsWriteOf(q, i, n)}
LateOf(n) == {w \in late : w.n = n}
AtMostOne(S) == \A x, y \in S : x = y

Unsent(n) ==
    \/ n \notin DOMAIN requests
    \/ n = control.n /\ control.at \in {"find", "dial", "before"}

Once(n) ==
    /\ AtMostOne(PlacesOf(queue, n)) /\ AtMostOne(LateOf(n)) /\ taken[n] \in {0, 1}
    /\ PlacesOf(queue, n) # {} => LateOf(n) = {} /\ taken[n] = 0
    /\ LateOf(n) # {} => taken[n] = 0
    /\ Unsent(n) => PlacesOf(queue, n) = {} /\ LateOf(n) = {} /\ taken[n] = 0

AllOnce == \A n \in 1..MaxRequests : Once(n)

LEMMA PlacesAppend ==
    ASSUME NEW q \in Seq(QueueType), NEW x \in QueueType, NEW n
    PROVE  /\ x.kind = "write" /\ x.write.n = n
              => PlacesOf(Append(q, x), n) = PlacesOf(q, n) \cup {Len(q) + 1}
           /\ ~(x.kind = "write" /\ x.write.n = n)
              => PlacesOf(Append(q, x), n) = PlacesOf(q, n)
<1>1. /\ Len(q) \in Nat /\ DOMAIN q = 1..Len(q) /\ DOMAIN Append(q, x) = 1..(Len(q) + 1)
      /\ \A i \in 1..Len(q) : Append(q, x)[i] = q[i]
      /\ Append(q, x)[Len(q) + 1] = x
  OBVIOUS
<1>2. \A i \in 1..(Len(q) + 1) : i \in 1..Len(q) \/ i = Len(q) + 1
  BY <1>1
<1>3. \A i \in 1..Len(q) : IsWriteOf(Append(q, x), i, n) <=> IsWriteOf(q, i, n)
  BY <1>1 DEF IsWriteOf
<1>4. IsWriteOf(Append(q, x), Len(q) + 1, n) <=> x.kind = "write" /\ x.write.n = n
  BY <1>1 DEF IsWriteOf
<1> QED BY <1>1, <1>2, <1>3, <1>4 DEF PlacesOf

LEMMA PlacesTail ==
    ASSUME NEW q \in Seq(QueueType), q # <<>>, NEW n
    PROVE  /\ PlacesOf(q, n) = {} => PlacesOf(Tail(q), n) = {}
           /\ AtMostOne(PlacesOf(q, n)) => AtMostOne(PlacesOf(Tail(q), n))
           /\ /\ AtMostOne(PlacesOf(q, n)) /\ Head(q).kind = "write" /\ Head(q).write.n = n
              => PlacesOf(q, n) # {} /\ PlacesOf(Tail(q), n) = {}
<1>1. /\ Len(q) \in Nat /\ Len(q) >= 1 /\ DOMAIN q = 1..Len(q) /\ Head(q) = q[1]
      /\ DOMAIN Tail(q) = 1..(Len(q) - 1)
      /\ \A i \in 1..(Len(q) - 1) : Tail(q)[i] = q[i + 1]
  OBVIOUS
<1>2. \A i \in PlacesOf(Tail(q), n) : i \in Nat /\ i >= 1 /\ i + 1 \in PlacesOf(q, n)
  BY <1>1 DEF PlacesOf, IsWriteOf
<1>3. Head(q).kind = "write" /\ Head(q).write.n = n => 1 \in PlacesOf(q, n)
  BY <1>1 DEF PlacesOf, IsWriteOf
<1>4. AtMostOne(PlacesOf(q, n)) => AtMostOne(PlacesOf(Tail(q), n))
  BY <1>2 DEF AtMostOne
<1>5. ASSUME AtMostOne(PlacesOf(q, n)), 1 \in PlacesOf(q, n)
      PROVE  PlacesOf(Tail(q), n) = {}
  BY <1>2, <1>5 DEF AtMostOne
<1> QED BY <1>2, <1>3, <1>4, <1>5

LEMMA PlacesNone == \A n : PlacesOf(<<>>, n) = {}
BY DEF PlacesOf

\* Steps that leave the writes where they are.
LEMMA OnceKept ==
    ASSUME NEW n, Once(n), PlacesOf(queue', n) = PlacesOf(queue, n), late' = late,
           taken'[n] = taken[n], Unsent(n)' => Unsent(n)
    PROVE  Once(n)'
<1>1. LateOf(n)' = LateOf(n)
  BY DEF LateOf
<1> QED BY <1>1 DEF Once

\* The connection is closed: what is in it is late.
LEMMA OnceClosed ==
    ASSUME NEW n, Once(n), queue' = <<>>, late' = late \cup WritesIn(queue), taken' = taken,
           Unsent(n)' => Unsent(n)
    PROVE  Once(n)'
<1>1. PlacesOf(queue', n) = {}
  BY PlacesNone
<1>2. LateOf(n)' = LateOf(n) \cup {queue[i].write : i \in PlacesOf(queue, n)}
  BY DEF LateOf, WritesIn, PlacesOf, IsWriteOf
<1>3. CASE PlacesOf(queue, n) = {}
  <2>1. LateOf(n)' = LateOf(n)
    BY <1>2, <1>3
  <2> QED BY <1>1, <1>3, <2>1 DEF Once, AtMostOne
<1>4. CASE PlacesOf(queue, n) # {}
  <2>1. LateOf(n) = {} /\ taken[n] = 0 /\ ~Unsent(n)
    BY <1>4 DEF Once
  <2>2. AtMostOne(LateOf(n)')
    BY <1>2, <2>1 DEF Once, AtMostOne
  <2>3. taken'[n] = 0 /\ ~Unsent(n)'
    BY <2>1
  <2> QED BY <1>1, <2>2, <2>3 DEF Once, AtMostOne
<1> QED BY <1>3, <1>4

LEMMA TakeOnce ==
    ASSUME WireOK, NEW w \in WriteType, Take(w)
    PROVE  /\ w.n \in 1..MaxRequests /\ taken'[w.n] = taken[w.n] + 1
           /\ \A n \in 1..MaxRequests : n # w.n => taken'[n] = taken[n]
BY DEF WireOK, WriteType, Take

LEMMA OnceControl ==
    ASSUME Core, AllOnce, ControlStep \/ \E r \in Request : ControlRequest(r)
    PROVE  AllOnce'
<1>a. /\ ControlOK /\ WireOK /\ OneConversation /\ control \in ControlType
      /\ requests \in Seq(RequestType) /\ queue \in Seq(QueueType)
  BY DEF Core, Types, ControlOK, WireOK
<1>b. RequestsStay
  BY RequestsAreKept, NextCases
<1>c. SUFFICES ASSUME NEW n \in 1..MaxRequests, Once(n) PROVE Once(n)'
  BY DEF AllOnce
<1>1. ASSUME NEW r \in Request, ControlRequest(r) PROVE Once(n)'
  <2>1. requests' = Append(requests, Pending(r)) /\ control'.n = Len(requests) + 1
    BY <1>1 DEF ControlRequest
  <2>2. Len(requests) + 1 \notin DOMAIN requests
    BY <1>a
  <2>3. Unsent(n)' => Unsent(n)
    BY <1>b, <2>1, <2>2 DEF RequestsStay, Unsent
  <2> QED BY <1>1, <1>c, <2>3, OnceKept DEF ControlRequest, wire
<1>2. CASE ControlRefused \/ ControlSucceeds \/ ControlFails
  <2>1. /\ queue' = <<>> /\ late' = late \cup WritesIn(queue) /\ taken' = taken
        /\ control' = NoControl
    BY <1>2 DEF ControlRefused, ControlSucceeds, ControlFails, Answer
  <2>2. Unsent(n)' => Unsent(n)
    BY <1>b, <2>1 DEF RequestsStay, Unsent, NoControl
  <2> QED BY <1>c, <2>1, <2>2, OnceClosed
<1>3. CASE ControlFinds \/ SkipFrame
  <2>1. /\ UNCHANGED <<queue, late, taken, requests>> /\ control'.n = control.n
        /\ control'.at = control.at \/ control.at = "find"
    BY <1>a, <1>3 DEF ControlFinds, SkipFrame, ControlType, wire
  <2>2. Unsent(n)' => Unsent(n)
    BY <2>1 DEF Unsent
  <2> QED BY <1>c, <2>1, <2>2, OnceKept
<1>4. CASE ControlDials \/ ControlAcknowledged
  <2>1. /\ UNCHANGED <<late, taken, requests>> /\ control'.n = control.n
        /\ queue' = Append(queue, ReadRequest)
        /\ control.at = "dial" \/ control'.at = "after"
    BY <1>a, <1>4 DEF ControlDials, ControlAcknowledged, Sends, ControlType
  <2>2. ReadRequest \in QueueType /\ ReadRequest.kind # "write"
    BY DEF ReadRequest, QueueType
  <2>3. PlacesOf(queue', n) = PlacesOf(queue, n)
    <3>1. PlacesOf(Append(queue, ReadRequest), n) = PlacesOf(queue, n)
      BY <1>a, <2>2, PlacesAppend
    <3> QED BY <2>1, <3>1
  <2>4. Unsent(n)' => Unsent(n)
    BY <2>1 DEF Unsent
  <2> QED BY <1>c, <2>1, <2>3, <2>4, OnceKept
<1>5. CASE ControlWrites
  <2> DEFINE st == Head(frames).status
             w == Payload(control.n, control.request, st)
             x == [kind |-> "write", write |-> w]
  <2>1. st \in Status /\ control.at = "before"
    BY <1>5, HeadFacts, FrameFacts DEF ControlWrites, Arrives, Wanted, Core
  <2>2. control.n \in 1..MaxRequests /\ control.request \in Request
    BY <1>a, <2>1, PumpAssumption DEF ControlOK, ControlType
  <2>3. x \in QueueType /\ x.kind = "write" /\ x.write.n = control.n
    BY <2>1, <2>2, PayloadType DEF QueueType
  <2>4. /\ UNCHANGED <<late, taken, requests>> /\ control'.n = control.n
        /\ queue' = Append(queue, x) /\ control'.at = "ack"
    BY <1>a, <1>5 DEF ControlWrites, Sends, ControlType
  <2>5. Unsent(n)' => Unsent(n)
    BY <2>1, <2>4 DEF Unsent
  <2> HIDE DEF x
  <2>6. CASE n # control.n
    <3>1. PlacesOf(Append(queue, x), n) = PlacesOf(queue, n)
      BY <1>a, <2>3, <2>6, PlacesAppend
    <3>2. PlacesOf(queue', n) = PlacesOf(queue, n)
      BY <2>4, <3>1
    <3> QED BY <1>c, <2>4, <2>5, <3>2, OnceKept
  <2>7. CASE n = control.n
    <3>1. PlacesOf(queue, n) = {} /\ LateOf(n) = {} /\ taken[n] = 0
      BY <1>c, <2>1, <2>7 DEF Once, Unsent
    <3>2. PlacesOf(queue', n) = {Len(queue) + 1}
      <4>1. PlacesOf(Append(queue, x), n) = PlacesOf(queue, n) \cup {Len(queue) + 1}
        BY <1>a, <2>3, <2>7, PlacesAppend
      <4>2. PlacesOf(Append(queue, x), n) = {Len(queue) + 1}
        BY <3>1, <4>1
      <4> QED BY <2>4, <4>2
    <3>3. LateOf(n)' = {} /\ taken'[n] = 0
      BY <2>4, <3>1 DEF LateOf
    <3>4. ~Unsent(n)'
      BY <1>a, <2>1, <2>4, <2>7 DEF Unsent, ControlOK
    <3> QED BY <3>2, <3>3, <3>4 DEF Once, AtMostOne
  <2> QED BY <2>6, <2>7
<1> QED BY <1>1, <1>2, <1>3, <1>4, <1>5 DEF ControlStep

LEMMA OnceWorld == ASSUME Core, AllOnce, WorldStep PROVE AllOnce'
<1>a. /\ ControlOK /\ WireOK /\ control \in ControlType
      /\ requests \in Seq(RequestType) /\ queue \in Seq(QueueType)
  BY DEF Core, Types, ControlOK, WireOK
<1>b. RequestsStay
  BY RequestsAreKept, NextCases
<1>c. SUFFICES ASSUME NEW n \in 1..MaxRequests, Once(n) PROVE Once(n)'
  BY DEF AllOnce
<1>1. CASE PumpServes
  <2>1. /\ queue # <<>> /\ queue' = Tail(queue) /\ UNCHANGED <<control, late, requests>>
    BY <1>1 DEF PumpServes
  <2>2. LateOf(n)' = LateOf(n) /\ (Unsent(n)' <=> Unsent(n))
    BY <2>1 DEF LateOf, Unsent
  <2>3. CASE taken'[n] = taken[n]
    <3>1. /\ PlacesOf(queue, n) = {} => PlacesOf(queue', n) = {}
          /\ AtMostOne(PlacesOf(queue', n))
      BY <1>a, <1>c, <2>1, PlacesTail DEF Once
    <3> QED BY <1>c, <2>2, <2>3, <3>1 DEF Once
  <2>4. CASE taken'[n] # taken[n]
    <3>1. Head(queue).kind # "read" /\ Take(Head(queue).write)
      BY <1>1, <2>4 DEF PumpServes
    <3>2. /\ Head(queue).kind = "write" /\ Head(queue).write \in WriteType
      BY <1>a, <2>1, <3>1, QueueHead DEF QueueType
    <3>3. Head(queue).write.n = n /\ taken'[n] = taken[n] + 1
      BY <1>a, <2>4, <3>1, <3>2, TakeOnce
    <3>4. PlacesOf(queue, n) # {} /\ PlacesOf(queue', n) = {}
      BY <1>a, <1>c, <2>1, <3>2, <3>3, PlacesTail DEF Once
    <3> QED BY <1>c, <2>2, <3>3, <3>4 DEF Once, AtMostOne
  <2> QED BY <2>3, <2>4
<1>2. CASE LateWrite
  <2>1. PICK w \in late : late' = late \ {w} /\ (Take(w) \/ taken' = taken)
    BY <1>2 DEF LateWrite
  <2>2. w \in WriteType /\ UNCHANGED <<control, queue, requests>>
    BY <1>a, <1>2, <2>1 DEF LateWrite, WireOK
  <2>3. LateOf(n)' = LateOf(n) \ {w} /\ (Unsent(n)' <=> Unsent(n))
    BY <2>1, <2>2 DEF LateOf, Unsent
  <2>4. PlacesOf(queue', n) = PlacesOf(queue, n)
    BY <2>2
  <2>5. CASE taken'[n] = taken[n]
    <3>1. AtMostOne(LateOf(n)') /\ LateOf(n)' \subseteq LateOf(n)
      BY <1>c, <2>3 DEF Once, AtMostOne
    <3>2. LateOf(n) = {} => LateOf(n)' = {}
      BY <3>1
    <3> QED BY <1>c, <2>3, <2>4, <2>5, <3>1, <3>2 DEF Once
  <2>6. CASE taken'[n] # taken[n]
    <3>1. Take(w) /\ w.n = n /\ taken'[n] = taken[n] + 1
      BY <1>a, <2>1, <2>2, <2>6, TakeOnce
    <3>2. w \in LateOf(n)
      BY <2>1, <3>1 DEF LateOf
    <3>3. LateOf(n)' = {}
      BY <1>c, <2>3, <3>2 DEF Once, AtMostOne
    <3>4. PlacesOf(queue', n) = {} /\ taken'[n] = 1 /\ ~Unsent(n)'
      BY <1>c, <2>3, <2>4, <3>1, <3>2 DEF Once
    <3> QED BY <3>3, <3>4 DEF Once, AtMostOne
  <2> QED BY <2>5, <2>6
<1>3. CASE JebaoRestart
  <2>1. Unsent(n)' => Unsent(n)
    BY <1>3 DEF JebaoRestart, Unsent, NoControl
  <2> QED BY <1>3, <1>c, <2>1, OnceClosed DEF JebaoRestart
<1>4. CASE AppChanges \/ NewFirmware \/ NewAddress \/ PumpReports \/ SaveHosts
  <2>1. /\ UNCHANGED <<queue, late, taken, requests>>
        /\ control'.n = control.n /\ control'.at = control.at
    BY <1>a, <1>4 DEF AppChanges, NewFirmware, NewAddress, PumpReports, SaveHosts, wire, ControlType
  <2>2. Unsent(n)' => Unsent(n)
    BY <2>1 DEF Unsent
  <2> QED BY <1>c, <2>1, <2>2, OnceKept
<1> QED BY <1>1, <1>2, <1>3, <1>4 DEF WorldStep

LEMMA OnceStep == Core /\ AllOnce /\ [JebaoNext]_jebaoVars => AllOnce'
<1> SUFFICES ASSUME Core, AllOnce, [JebaoNext]_jebaoVars PROVE AllOnce'
  OBVIOUS
<1>1. CASE (RefreshStep \/ \E b \in BOOLEAN : StartRefresh(b)) \/ UNCHANGED jebaoVars
  <2>1. UNCHANGED <<control, queue, late, taken, requests>>
    BY <1>1 DEF RefreshStep, StartRefresh, Broadcast, PollFinds, PollFindsNothing, PollReads,
       PollReadFails, PollStep, EndRefresh, jebaoVars, wire
  <2>2. \A n \in 1..MaxRequests : Once(n) => Once(n)'
    BY <2>1 DEF Once, LateOf, Unsent
  <2> QED BY <2>2 DEF AllOnce
<1> QED BY <1>1, NextCases, OnceControl, OnceWorld

LEMMA OneIsEnough ==
    ASSUME NEW S, AtMostOne(S)
    PROVE  Cardinality(S) \in {0, 1} /\ (S = {} => Cardinality(S) = 0)
<1>1. CASE S = {}
  BY <1>1, FS_EmptySet
<1>2. CASE S # {}
  <2>1. PICK x : S = {x}
    BY <1>2 DEF AtMostOne
  <2> QED BY <1>2, <2>1, FS_Singleton
<1> QED BY <1>1, <1>2

\* "and never retries writes" (control.go:19), over lost acknowledgements,
\* restarts and writes that arrive after their connection was given up.
THEOREM NeverResentCorrect == JebaoSpec => []NeverResent
<1>1. JebaoInit => AllOnce
  BY PlacesNone DEF JebaoInit, AllOnce, Once, LateOf, AtMostOne
<1>2. AllOnce => NeverResent
  <2>1. SUFFICES ASSUME AllOnce, NEW n \in 1..MaxRequests PROVE taken[n] + InFlight(n) <= 1
    BY DEF NeverResent
  <2>2. Once(n)
    BY <2>1 DEF AllOnce
  <2>3. InFlight(n) = Cardinality(PlacesOf(queue, n)) + Cardinality(LateOf(n))
    BY DEF InFlight, PlacesOf, IsWriteOf, LateOf
  <2>4. /\ Cardinality(PlacesOf(queue, n)) \in {0, 1} /\ Cardinality(LateOf(n)) \in {0, 1}
        /\ PlacesOf(queue, n) = {} => Cardinality(PlacesOf(queue, n)) = 0
        /\ LateOf(n) = {} => Cardinality(LateOf(n)) = 0
    BY <2>2, OneIsEnough DEF Once
  <2> QED BY <2>2, <2>3, <2>4 DEF Once
<1> QED BY <1>1, <1>2, OnceStep, CoreHolds, PTL DEF JebaoSpec

(***************************************************************************)
(* The types that the run checks.  A write left in a closed connection is  *)
(* one of a request: that is known since it is sent once.                  *)
(***************************************************************************)
LEMMA SurprisesStep ==
    surprises \in 0..MaxSurprises /\ [JebaoNext]_jebaoVars => (surprises \in 0..MaxSurprises)'
<1> SUFFICES ASSUME surprises \in 0..MaxSurprises, [JebaoNext]_jebaoVars
             PROVE  surprises' \in 0..MaxSurprises
  OBVIOUS
<1>1. surprises' = surprises \/ Surprise
  BY DEF JebaoNext, StartRefresh, RefreshStep, Broadcast, PollStep, PollFinds, PollFindsNothing,
     PollReads, PollReadFails, EndRefresh, ControlRequest, ControlStep, ControlRefused,
     ControlFinds, ControlDials, SkipFrame, ControlWrites, ControlAcknowledged, ControlSucceeds,
     ControlFails, PumpServes, LateWrite, AppChanges, NewFirmware, NewAddress, PumpReports,
     SaveHosts, JebaoRestart, jebaoVars
<1>2. CASE surprises' = surprises
  BY <1>2
<1>3. CASE Surprise
  BY <1>3, PumpAssumption DEF Surprise
<1> QED BY <1>1, <1>2, <1>3

\* Every view, poll, request and write is of its type, and no write is left over that
\* nobody asked for (refresh, Control and SaveHosts of internal/jebao).
LEMMA JebaoTypeCorrect == JebaoSpec => []JebaoTypeOK
<1>1. JebaoInit => AllOnce
  BY PlacesNone DEF JebaoInit, AllOnce, Once, LateOf, AtMostOne
<1>2. JebaoInit => surprises \in 0..MaxSurprises
  BY PumpAssumption DEF JebaoInit
<1>3. Core /\ AllOnce /\ surprises \in 0..MaxSurprises => JebaoTypeOK
  <2> SUFFICES ASSUME Core, AllOnce, surprises \in 0..MaxSurprises PROVE JebaoTypeOK
    OBVIOUS
  <2>1. HubOK /\ ControlOK /\ WireOK
    BY DEF Core, Types
  <2>2. Len(requests) \in Nat /\ DOMAIN requests = 1..Len(requests)
        /\ \A n \in DOMAIN requests : requests[n] \in RequestType
    BY <2>1 DEF ControlOK
  <2>3. \A w \in late : w.n \in DOMAIN requests
    <3> SUFFICES ASSUME NEW w \in late, w.n \notin DOMAIN requests PROVE FALSE
      OBVIOUS
    <3>1. w.n \in 1..MaxRequests
      BY <2>1 DEF WireOK, WriteType
    <3>2. LateOf(w.n) = {}
      BY <3>1 DEF AllOnce, Once, Unsent
    <3> QED BY <3>2 DEF LateOf
  <2>4. control.n \in 0..Len(requests)
    BY <2>1, <2>2 DEF ControlOK, NoControl
  <2>5. /\ control.at \in {"idle", "find", "dial", "before", "ack", "after"}
        /\ control.request \in Request \cup {NoRequest}
        /\ control.before \in Status \cup {NoStatus}
    BY <2>1 DEF ControlOK, ControlType, Busyness
  <2>6. \A n \in DOMAIN requests :
          /\ requests[n].request \in Request
          /\ requests[n].result \in {"pending", "ok", "error"}
    BY <2>2 DEF RequestType
  <2> QED BY <2>1, <2>3, <2>4, <2>5, <2>6
         DEF HubOK, WireOK, PumpType, ViewType, PollType, JebaoTypeOK
<1> QED BY <1>1, <1>2, <1>3, SurprisesStep, OnceStep, CoreHolds, PTL DEF JebaoSpec
=============================================================================
