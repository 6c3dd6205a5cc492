------------------------------ MODULE JebaoPumps ------------------------------
(***************************************************************************)
(* The monitor of the JEBAO pumps and the three settings it can write,     *)
(* internal/jebao: monitor.go, control.go, flow.go and feeding.go, with    *)
(* the discovery and the status read of protocol.go.                       *)
(*                                                                         *)
(* A pump is external: it answers what it is sent in order, takes of a     *)
(* write only the attributes whose flag is set, reports its status unasked,*)
(* is operated by its App, and may get another address or other firmware.  *)
(* A write that is in its socket when the hub gives up may still be taken. *)
(*                                                                         *)
(* Of a pump's status the model keeps the power, timer and feeding flags,  *)
(* one more mode flag (the linkage of a wave maker) and the level.  The    *)
(* passcode and the login are part of dialling.  Of the attributes and the *)
(* labels on the page it keeps the product key whose model decoded them.   *)
(* The history rows, the error texts and the ageing of a reading after 90  *)
(* seconds are left out.                                                   *)
(***************************************************************************)
EXTENDS Naturals, FiniteSets, Sequences

CONSTANTS
    Pump,        \* the pumps listed in Open
    Level,       \* speeds and flows
    MaxRequests, \* bound: requests to write a setting
    MaxSurprises \* bound: what the App, the pumps, the user and the host do

ASSUME PumpAssumption ==
    /\ IsFiniteSet(Pump) /\ Level # {}
    /\ MaxRequests \in Nat /\ MaxSurprises \in Nat

VARIABLES
    pump,      \* the pumps themselves: where each is, its firmware, its status
    hosts,     \* settings.Hosts, in memory and in jebao.json
    view,      \* m.devices: what the page shows of each pump
    busy,      \* m.busy
    poll,      \* Refresh: how far it is, and with which pump
    control,   \* controlDevice: how far it is, and for which request
    queue,     \* sent to the pump in the control's connection and not yet read there
    frames,    \* sent by the pump in that connection and not yet read by the hub
    late,      \* writes in the sockets of connections that are closed by now
    taken,     \* history: how often a pump took the write of each request
    requests,  \* history: every request and how it ended
    surprises

vars_hub == <<hosts, view, busy, poll>>
wire == <<queue, frames, late, taken>>
jebaoVars == <<pump, vars_hub, control, wire, requests, surprises>>

Attribute == {"on", "timer", "feed", "mode", "level"}
Status == [on : BOOLEAN, timer : BOOLEAN, feed : BOOLEAN, mode : BOOLEAN, level : Level]
NoStatus == [known |-> FALSE]

\* Speed and feeding can be written to a return pump, the flow to a wave maker.
Kind == {"return", "wave"}

\* A product key is the expected one, or that of another known model.
Key == {"own", "other"}

\* An address is known by whether the pump is there now.
Address == {"none", "right", "wrong"}

RequestOf(d, a, v) == [pump |-> d, attr |-> a, value |-> v]
LevelRequest == {RequestOf(d, "level", v) : d \in Pump, v \in Level}
FeedRequest == {RequestOf(d, "feed", v) : d \in Pump, v \in BOOLEAN}
Request == LevelRequest \cup FeedRequest

(***************************************************************************)
(* What a request may be sent for, what is sent, and what counts as done.  *)
(***************************************************************************)
\* The guards of speedPayload, flowPayload and feedingPayload.
Allowed(r, s) ==
    IF r.attr = "level"
    THEN s.on /\ ~s.timer /\ ~s.feed /\ (pump[r.pump].kind = "wave" => ~s.mode)
    ELSE r.value => s.on /\ ~s.timer

\* Mutant: every flag is set, as if the whole status were to be written.
PayloadAllFlags(n, r, before) ==
    [n |-> n, pump |-> r.pump, flags |-> Attribute,
     values |-> [before EXCEPT ![r.attr] = r.value]]

\* The write: the status read before with one value changed, and one flag set.
Payload(n, r, before) ==
    [n |-> n, pump |-> r.pump, flags |-> {r.attr},
     values |-> [before EXCEPT ![r.attr] = r.value]]

\* The flags that must not have changed: all of them around a speed or a flow,
\* power, mode and timer around feeding.
Kept(r) == {"on", "timer", "mode"} \cup (IF r.attr = "level" THEN {"feed"} ELSE {})

Verified(r, before, after) ==
    /\ after[r.attr] = r.value
    /\ \A a \in Kept(r) : after[a] = before[a]

(***************************************************************************)
(* The pump, external.                                                     *)
(***************************************************************************)
Taken(s, w) == [a \in Attribute |-> IF a \in w.flags THEN w.values[a] ELSE s[a]]

Seen == {n \in DOMAIN taken : taken[n] > 0}

StatusFrame(d) == [kind |-> "status", status |-> pump[d].status, seen |-> Seen]
AckFrame(n) == [kind |-> "ack", n |-> n]

Take(w) ==
    /\ pump' = [pump EXCEPT ![w.pump].status = Taken(@, w)]
    /\ taken' = [taken EXCEPT ![w.n] = @ + 1]

\* The pump reads the next request of the connection and answers it.
PumpServes ==
    /\ queue # <<>>
    /\ queue' = Tail(queue)
    /\ LET q == Head(queue)
       IN IF q.kind = "read"
          THEN /\ frames' = Append(frames, StatusFrame(control.request.pump))
               /\ UNCHANGED <<pump, taken>>
          ELSE /\ Take(q.write)
               /\ frames' = Append(frames, AckFrame(q.write.n))
    /\ UNCHANGED <<vars_hub, control, late, requests, surprises>>

\* What is left of a closed connection is read after all, or never.
LateWrite ==
    /\ \E w \in late :
          /\ late' = late \ {w}
          /\ Take(w) \/ UNCHANGED <<pump, taken>>
    /\ UNCHANGED <<vars_hub, control, queue, frames, requests, surprises>>

Surprise ==
    /\ surprises < MaxSurprises
    /\ surprises' = surprises + 1

\* The App, the pump's buttons or its timer change one attribute.
AppChanges ==
    /\ Surprise
    /\ \E d \in Pump, a \in Attribute :
          \E v \in (IF a = "level" THEN Level ELSE BOOLEAN) \ {pump[d].status[a]} :
              pump' = [pump EXCEPT ![d].status[a] = v]
    /\ UNCHANGED <<vars_hub, control, wire, requests>>

\* The pump gets other firmware, and at some time its own again, which is not counted
\* as another surprise.
NewFirmware ==
    /\ \E d \in Pump, k \in Key :
          /\ k # pump[d].key
          /\ pump' = [pump EXCEPT ![d].key = k]
          /\ \/ k # "own" /\ Surprise
             \/ k = "own" /\ UNCHANGED surprises
    /\ UNCHANGED <<vars_hub, control, wire, requests>>

Moved(x) == IF x = "right" THEN "wrong" ELSE x

\* The pump gets another address.
NewAddress ==
    /\ Surprise
    /\ \E d \in Pump :
          /\ hosts' = [hosts EXCEPT ![d] = Moved(@)]
          /\ view' = [view EXCEPT ![d].address = Moved(@)]
          /\ control' = IF control.request.pump = d
                        THEN [control EXCEPT !.host = Moved(@)] ELSE control
    /\ UNCHANGED <<pump, busy, poll, wire, requests>>

\* A status report that nobody asked for, or an acknowledgement of something else.
PumpReports ==
    /\ Surprise
    /\ control.at \in {"before", "ack", "after"}
    /\ \/ frames' = Append(frames, StatusFrame(control.request.pump))
       \/ frames' = Append(frames, AckFrame(0))
    /\ UNCHANGED <<pump, vars_hub, control, queue, late, taken, requests>>

(***************************************************************************)
(* The page's view of a pump.                                              *)
(***************************************************************************)
\* attrs and labels: the key they were decoded with; success: what set LastSuccess,
\* a refresh or a write (the code keeps the time alone).
Unseen == [address |-> "none", key |-> "none", attrs |-> "none", labels |-> "none",
           connected |-> FALSE, success |-> "never"]

HostOf(d) == IF hosts[d] # "none" THEN hosts[d] ELSE view[d].address

\* Mutant: what was read with another model's key stays.
AcceptKeepsAll(v, k) == [v EXCEPT !.address = "right", !.key = k]

\* accept: another product key than before takes the readings away.
Accepted(v, k) ==
    LET w == IF v.key \in {"none", k} THEN v
             ELSE [v EXCEPT !.attrs = "none", !.labels = "none", !.success = "never"]
    IN [w EXCEPT !.address = "right", !.key = k]

\* The last reading stays on the page, as not connected.
Failed(v) == [v EXCEPT !.connected = FALSE]

\* A refresh decodes attributes and labels.
Read(v, k) == [v EXCEPT !.attrs = k, !.labels = k, !.connected = TRUE, !.success = "refresh"]

\* A write puts the pump's identity and attributes there without accept: the labels
\* stay, whatever model they were decoded with.
Written(v, host) ==
    [v EXCEPT !.address = host, !.key = "own", !.attrs = "own",
              !.connected = TRUE, !.success = "write"]

(***************************************************************************)
(* Refresh, every 30 seconds and on request.  All pumps are asked at once. *)
(***************************************************************************)
NoPoll == [phase |-> "idle", at |-> [d \in Pump |-> "done"]]
AskEach == [phase |-> "each", at |-> [d \in Pump |-> "find"]]

StartRefresh(discover) ==
    /\ ~busy
    /\ busy' = TRUE
    /\ poll' = IF discover THEN [NoPoll EXCEPT !.phase = "cast"] ELSE AskEach
    /\ UNCHANGED <<pump, hosts, view, control, wire, requests, surprises>>

\* The broadcast: some pumps answer, or none, or it cannot be sent.
Broadcast ==
    /\ poll.phase = "cast"
    /\ \E A \in SUBSET Pump :
          view' = [d \in Pump |->
                     IF d \in A THEN Accepted(view[d], pump[d].key)
                     ELSE view[d]]
    /\ poll' = AskEach
    /\ UNCHANGED <<pump, hosts, busy, control, wire, requests, surprises>>

PollStep(d, at, next, v) ==
    /\ poll.phase = "each" /\ poll.at[d] = at
    /\ poll' = [poll EXCEPT !.at[d] = next]
    /\ view' = [view EXCEPT ![d] = v]
    /\ UNCHANGED <<pump, hosts, busy, control, wire, requests, surprises>>

\* The address answers with the expected MAC, and its identity is accepted.
PollFinds(d) ==
    /\ HostOf(d) = "right"
    /\ PollStep(d, "find", "read", Accepted(view[d], pump[d].key))

\* Nothing is known of the address, nothing answers, or another MAC does.
PollFindsNothing(d) == PollStep(d, "find", "done", Failed(view[d]))

\* The status has the length of the model that the identity named.
PollReads(d) ==
    /\ HostOf(d) = "right" /\ view[d].key = pump[d].key
    /\ PollStep(d, "read", "done", Read(view[d], view[d].key))

PollReadFails(d) == PollStep(d, "read", "done", Failed(view[d]))

EndRefresh ==
    /\ poll.phase = "each"
    /\ \A d \in Pump : poll.at[d] = "done"
    /\ poll' = NoPoll
    /\ busy' = FALSE
    /\ UNCHANGED <<pump, hosts, view, control, wire, requests, surprises>>

(***************************************************************************)
(* controlDevice and writeModelConnection.                                 *)
(***************************************************************************)
NoRequest == [pump |-> "none"]
NoControl == [at |-> "idle", n |-> 0, request |-> NoRequest, host |-> "none",
              before |-> NoStatus]

Pending(r) == [request |-> r, result |-> "pending", seen |-> {}]

FreeAlways == TRUE   \* mutant: busy is not looked at

\* A read or a write under way refuses every other.
Free == ~busy

ControlRequest(r) ==
    /\ Len(requests) < MaxRequests
    /\ r.attr = "feed" => pump[r.pump].kind = "return"
    /\ Free
    /\ HostOf(r.pump) # "none"
    /\ busy' = TRUE
    /\ requests' = Append(requests, Pending(r))
    /\ control' = [at |-> "find", n |-> Len(requests) + 1, request |-> r,
                   host |-> HostOf(r.pump), before |-> NoStatus]
    /\ UNCHANGED <<pump, hosts, view, poll, wire, surprises>>

WritesIn(q) == {q[i].write : i \in {j \in DOMAIN q : q[j].kind = "write"}}

\* The answer to the request.  The connection is closed.
Answer(result, seen) ==
    /\ requests' = [requests EXCEPT ![control.n].result = result, ![control.n].seen = seen]
    /\ control' = NoControl
    /\ busy' = FALSE
    /\ late' = late \cup WritesIn(queue)
    /\ queue' = <<>> /\ frames' = <<>>

\* Mutant: the early return keeps busy.
RefusedStaysBusy ==
    /\ control.at = "find"
    /\ requests' = [requests EXCEPT ![control.n].result = "error"]
    /\ control' = NoControl
    /\ UNCHANGED <<pump, vars_hub, wire, surprises>>

\* Nobody answers there, or not with the expected MAC and a known product key.
\* The page is told, the view is not.
ControlRefused ==
    /\ control.at = "find"
    /\ Answer("error", {})
    /\ UNCHANGED <<pump, hosts, view, poll, taken, surprises>>

ControlFinds ==
    /\ control.at = "find" /\ control.host = "right"
    /\ pump[control.request.pump].key = "own"
    /\ control' = [control EXCEPT !.at = "dial"]
    /\ UNCHANGED <<pump, vars_hub, wire, requests, surprises>>

Sends(q) == queue' = Append(queue, q)
ReadRequest == [kind |-> "read"]

\* Connected and logged in: the status is asked for.
ControlDials ==
    /\ control.at = "dial" /\ control.host = "right"
    /\ control' = [control EXCEPT !.at = "before"]
    /\ Sends(ReadRequest)
    /\ UNCHANGED <<pump, vars_hub, frames, late, taken, requests, surprises>>

Wanted == IF control.at = "ack" THEN "ack" ELSE "status"

\* The next frame is of the kind that is waited for.
Arrives(at) ==
    /\ control.at = at
    /\ frames # <<>> /\ Head(frames).kind = Wanted

\* Any other frame is skipped.
SkipFrame ==
    /\ frames # <<>> /\ Head(frames).kind # Wanted
    /\ frames' = Tail(frames)
    /\ UNCHANGED <<pump, vars_hub, control, queue, late, taken, requests, surprises>>

\* The status before: nothing stands against the write, and it is sent.
ControlWrites ==
    /\ Arrives("before")
    /\ LET s == Head(frames).status
       IN /\ Allowed(control.request, s)
          /\ control' = [control EXCEPT !.at = "ack", !.before = s]
          /\ Sends([kind |-> "write", write |-> Payload(control.n, control.request, s)])
    /\ frames' = Tail(frames)
    /\ UNCHANGED <<pump, vars_hub, late, taken, requests, surprises>>

\* Mutant: the status is read back without waiting for the acknowledgement.
AcknowledgedUnseen ==
    /\ control.at = "ack"
    /\ control' = [control EXCEPT !.at = "after"]
    /\ UNCHANGED <<pump, vars_hub, wire, requests, surprises>>

\* The write is acknowledged, and the status is asked for again.
ControlAcknowledged ==
    /\ Arrives("ack")
    /\ Head(frames).n = control.n
    /\ control' = [control EXCEPT !.at = "after"]
    /\ Sends(ReadRequest)
    /\ frames' = Tail(frames)
    /\ UNCHANGED <<pump, vars_hub, late, taken, requests, surprises>>

\* The status after is as it should be.
ControlSucceeds ==
    /\ Arrives("after")
    /\ Verified(control.request, control.before, Head(frames).status)
    /\ Answer("ok", Head(frames).seen)
    /\ view' = [view EXCEPT ![control.request.pump] = Written(@, control.host)]
    /\ UNCHANGED <<pump, hosts, poll, taken, surprises>>

\* Mutant: an acknowledgement that does not come makes the hub write again.
FailsAndWritesAgain ==
    /\ control.at = "ack"
    /\ Sends([kind |-> "write",
              write |-> Payload(control.n, control.request, control.before)])
    /\ UNCHANGED <<pump, vars_hub, control, frames, late, taken, requests, surprises>>

\* The deadline passes, the connection breaks, a guard or a check says no.
\* Nothing is sent again.
ControlFails ==
    /\ control.at \in {"dial", "before", "ack", "after"}
    /\ Answer("error", {})
    /\ view' = [view EXCEPT ![control.request.pump] = Failed(@)]
    /\ UNCHANGED <<pump, hosts, poll, taken, surprises>>

(***************************************************************************)
(* The settings, and the process.                                          *)
(***************************************************************************)
\* PUT /api/hub/jebao/settings: refused while a read or a write is under way.
SaveHosts ==
    /\ Surprise
    /\ ~busy
    /\ \E h \in [Pump -> Address] : hosts' = h
    /\ view' = [d \in Pump |-> [view[d] EXCEPT !.connected = FALSE]]
    /\ UNCHANGED <<pump, busy, poll, control, wire, requests>>

\* Only jebao.json outlives the process.  Open conversations are cut.
JebaoRestart ==
    /\ Surprise
    /\ view' = [d \in Pump |-> Unseen]
    /\ busy' = FALSE
    /\ poll' = NoPoll
    /\ control' = NoControl
    /\ requests' = [n \in DOMAIN requests |->
                      IF n = control.n THEN [requests[n] EXCEPT !.result = "error"]
                      ELSE requests[n]]
    /\ late' = late \cup WritesIn(queue)
    /\ queue' = <<>> /\ frames' = <<>>
    /\ UNCHANGED <<pump, hosts, taken>>

Running(l) ==
    [on |-> TRUE, timer |-> FALSE, feed |-> FALSE, mode |-> FALSE, level |-> l]

AnyLevel == CHOOSE l \in Level : TRUE   \* levels are alike

JebaoInit ==
    /\ \E kind \in [Pump -> Kind] :
          pump = [d \in Pump |-> [kind |-> kind[d], key |-> "own",
                                  status |-> Running(AnyLevel)]]
    /\ hosts = [d \in Pump |-> "none"]
    /\ view = [d \in Pump |-> Unseen]
    /\ busy = FALSE
    /\ poll = NoPoll
    /\ control = NoControl
    /\ queue = <<>> /\ frames = <<>> /\ late = {}
    /\ taken = [n \in 1..MaxRequests |-> 0]
    /\ requests = <<>>
    /\ surprises = 0

RefreshStep ==
    \/ Broadcast
    \/ \E d \in Pump :
          \/ PollFinds(d) \/ PollFindsNothing(d)
          \/ PollReads(d) \/ PollReadFails(d)
    \/ EndRefresh

ControlStep ==
    \/ ControlRefused \/ ControlFinds \/ ControlDials
    \/ SkipFrame \/ ControlWrites \/ ControlAcknowledged
    \/ ControlSucceeds \/ ControlFails

JebaoNext ==
    \/ \E discover \in BOOLEAN : StartRefresh(discover)
    \/ RefreshStep
    \/ \E r \in Request : ControlRequest(r)
    \/ ControlStep
    \/ PumpServes \/ LateWrite
    \/ AppChanges \/ NewFirmware \/ NewAddress \/ PumpReports
    \/ SaveHosts \/ JebaoRestart

JebaoSpec == JebaoInit /\ [][JebaoNext]_jebaoVars

(***************************************************************************)
(* Properties.                                                             *)
(***************************************************************************)
JebaoTypeOK ==
    /\ pump \in [Pump -> [kind : Kind, key : Key, status : Status]]
    /\ hosts \in [Pump -> Address]
    /\ \A d \in Pump : view[d] \in
          [address : Address, key : Key \cup {"none"}, attrs : Key \cup {"none"},
           labels : Key \cup {"none"}, connected : BOOLEAN,
           success : {"never", "refresh", "write"}]
    /\ busy \in BOOLEAN
    /\ poll \in [phase : {"idle", "cast", "each"}, at : [Pump -> {"find", "read", "done"}]]
    /\ control.at \in {"idle", "find", "dial", "before", "ack", "after"}
    /\ control.n \in 0..Len(requests)
    /\ control.request \in Request \cup {NoRequest}
    /\ control.before \in Status \cup {NoStatus}
    /\ \A w \in late : w.n \in DOMAIN requests
    /\ taken \in [1..MaxRequests -> Nat]
    /\ \A n \in DOMAIN requests :
          /\ requests[n].request \in Request
          /\ requests[n].result \in {"pending", "ok", "error"}
    /\ surprises \in 0..MaxSurprises

\* A pump is in one conversation at a time, whoever asked for it: a refresh and
\* a write never overlap (the 409 of every handler).
OneConversation ==
    /\ poll.phase # "idle" => control.at = "idle"
    /\ busy = (poll.phase # "idle" \/ control.at # "idle")

\* Success is only reported when the pump took the write and reported its status
\* after that, whatever frames came unasked and whatever an earlier write that
\* was given up did meanwhile.  "ACK 與讀回均確認才回報成功" (docs/JEBAO.md:3).
SuccessConfirmed ==
    \A n \in DOMAIN requests : requests[n].result = "ok" => n \in requests[n].seen

\* "and never retries writes" (control.go:19): a pump takes the write of a request
\* at most once, and it is on its way at most once.
InFlight(n) ==
    Cardinality({i \in DOMAIN queue : queue[i].kind = "write" /\ queue[i].write.n = n})
    + Cardinality({w \in late : w.n = n})

NeverResent == \A n \in 1..MaxRequests : taken[n] + InFlight(n) <= 1

\* Attributes shown as current were decoded with the model whose product key is shown
\* beside them: firmware with another key takes the old ones away (accept), and a
\* write brings its own.  Of the labels that is so until a setting is written: the
\* write leaves them as they are (control.go:190), those of an older model included.
FreshIsOfThisModel ==
    \A d \in Pump :
        LET v == view[d]
        IN v.connected /\ v.success # "never" =>
               /\ v.attrs = v.key
               /\ v.success = "refresh" => v.labels = v.key

\* "It never changes power, mode, feeding, timer or schedule slots"
\* (control.go:18): a write changes the attribute of a request to the value asked
\* for and nothing else, also when the App changed the pump after the status
\* that the write was made from.
Asked(d, a, v) ==
    \E n \in DOMAIN requests : requests[n].request = RequestOf(d, a, v)

OnlyTheAskedAttribute ==
    surprises' = surprises =>
        \A d \in Pump, a \in Attribute :
            LET v == pump'[d].status[a]
            IN v # pump[d].status[a] => Asked(d, a, v)

HubTouchesOnlyAsked == [][OnlyTheAskedAttribute]_jebaoVars

\* No request and no refresh keeps the pumps to itself for ever.
BusyEnds == []<>~busy
=============================================================================
