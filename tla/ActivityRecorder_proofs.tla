------------------------ MODULE ActivityRecorder_proofs ------------------------
(***************************************************************************)
(* The activity recorder keeps the promise of ActivityLog, for every set   *)
(* of devices and outlets, every length of the log and whatever the clock  *)
(* does.                                                                   *)
(***************************************************************************)
EXTENDS ActivityRecorder, SequenceTheorems, TLAPS

Reading == Promise!Reading

(***************************************************************************)
(* The events of a log, and what one more reading makes of them.  Every    *)
(* reading has a last one that continues it: said of the log here, so that *)
(* it can be carried from each log to the next.                            *)
(***************************************************************************)
IsLast(l, i, j) ==
    /\ j \in i..Len(l)
    /\ \A k \in (i + 1)..j : Promise!Continues(l, k)
    /\ j = Len(l) \/ ~Promise!Continues(l, j + 1)

HasLasts(l) == \A i \in 1..Len(l) : \E j \in i..Len(l) : IsLast(l, i, j)

LEMMA LastIs ==
    ASSUME NEW l, Len(l) \in Nat, NEW i \in 1..Len(l), NEW j, IsLast(l, i, j)
    PROVE  Promise!LastOf(l, i) = j
<1> DEFINE S == {x \in i..Len(l) : \A k \in (i + 1)..x : Promise!Continues(l, k)}
<1>1. j \in S /\ j \in Nat /\ i \in Nat
  BY DEF IsLast
<1>2. ASSUME NEW y \in S PROVE j >= y
  <2>1. SUFFICES ASSUME y > j PROVE FALSE
    BY <1>1
  <2>2. j + 1 \in (i + 1)..y /\ j # Len(l)
    BY <1>1, <2>1 DEF IsLast
  <2> QED BY <2>2 DEF IsLast
<1>3. \A x \in S : (\A y \in S : x >= y) => x = j
  BY <1>1, <1>2
<1>4. Promise!Max(S) = j
  BY <1>1, <1>2, <1>3 DEF Promise!Max
<1> QED BY <1>4 DEF Promise!LastOf

LEMMA AppendReads ==
    ASSUME NEW l \in Seq(Reading), NEW r \in Reading
    PROVE  LET m == Append(l, r)
               n == Len(l)
           IN /\ m \in Seq(Reading) /\ n \in Nat /\ Len(m) = n + 1 /\ DOMAIN m = 1..(n + 1)
              /\ DOMAIN l = 1..n
              /\ \A i \in 1..n : m[i] = l[i]
              /\ m[n + 1] = r
OBVIOUS

\* A reading more does not change what the readings before it are.
LEMMA AppendKeeps ==
    ASSUME NEW l \in Seq(Reading), NEW r \in Reading, NEW i \in 1..Len(l)
    PROVE  LET m == Append(l, r)
           IN /\ Promise!Active(m, i) <=> Promise!Active(l, i)
              /\ Promise!Continues(m, i) <=> Promise!Continues(l, i)
              /\ Promise!Begins(m, i) <=> Promise!Begins(l, i)
<1> DEFINE m == Append(l, r)
           n == Len(l)
<1>1. n \in Nat /\ \A k \in 1..n : m[k] = l[k]
  BY AppendReads
<1> HIDE DEF m, n
<1>2. \A k \in 1..n : Promise!Active(m, k) <=> Promise!Active(l, k)
  <2> TAKE k \in 1..n
  <2>1. m[k] = l[k] /\ (k > 1 => m[k - 1] = l[k - 1])
    BY <1>1
  <2> QED BY <2>1 DEF Promise!Active
<1>3. i \in 1..n
  BY DEF n
<1>4. Promise!Continues(m, i) <=> Promise!Continues(l, i)
  <2>1. m[i] = l[i] /\ (i > 1 => i - 1 \in 1..n /\ m[i - 1] = l[i - 1])
    BY <1>1, <1>3
  <2> QED BY <1>2, <1>3, <2>1 DEF Promise!Continues
<1> QED BY <1>2, <1>3, <1>4 DEF Promise!Begins, m

LEMMA LastsAppend ==
    ASSUME NEW l \in Seq(Reading), NEW r \in Reading, HasLasts(l)
    PROVE  LET m == Append(l, r)
               n == Len(l)
           IN /\ HasLasts(m)
              /\ Promise!LastOf(m, n + 1) = n + 1
              /\ \A i \in 1..n :
                    /\ Promise!LastOf(l, i) \in i..n
                    /\ Promise!LastOf(m, i) =
                          IF Promise!LastOf(l, i) = n /\ Promise!Continues(m, n + 1)
                          THEN n + 1 ELSE Promise!LastOf(l, i)
<1> DEFINE m == Append(l, r)
           n == Len(l)
           last(i) == IF Promise!LastOf(l, i) = n /\ Promise!Continues(m, n + 1)
                      THEN n + 1 ELSE Promise!LastOf(l, i)
<1>1. n \in Nat /\ Len(m) = n + 1
  BY AppendReads
<1>2. \A k \in 1..n : Promise!Continues(m, k) <=> Promise!Continues(l, k)
  BY AppendKeeps
<1>3. IsLast(m, n + 1, n + 1)
  BY <1>1 DEF IsLast
<1>5. ASSUME NEW i \in 1..n
      PROVE  Promise!LastOf(l, i) \in i..n /\ IsLast(m, i, last(i))
  <2>1. PICK j \in i..n : IsLast(l, i, j)
    BY DEF HasLasts
  <2>2. Promise!LastOf(l, i) = j
    BY <1>1, <2>1, LastIs
  <2>3. i \in Nat /\ j \in Nat /\ j \in i..n
    BY <1>1
  <2>4. \A k \in (i + 1)..j : k \in 1..n /\ Promise!Continues(m, k)
    BY <1>1, <1>2, <2>1, <2>3 DEF IsLast
  <2>5. CASE j = n /\ Promise!Continues(m, n + 1)
    <3>1. \A k \in (i + 1)..(n + 1) : Promise!Continues(m, k)
      BY <1>1, <2>3, <2>4, <2>5
    <3> QED BY <1>1, <2>2, <2>3, <2>5, <3>1 DEF IsLast
  <2>6. CASE j = n /\ ~Promise!Continues(m, n + 1)
    BY <1>1, <2>2, <2>3, <2>4, <2>6 DEF IsLast
  <2>7. CASE j # n
    <3>1. j + 1 \in 1..n /\ ~Promise!Continues(l, j + 1)
      BY <1>1, <2>1, <2>3, <2>7 DEF IsLast
    <3>2. ~Promise!Continues(m, j + 1)
      BY <1>2, <3>1
    <3> QED BY <1>1, <2>2, <2>3, <2>4, <2>7, <3>2 DEF IsLast
  <2> QED BY <2>5, <2>6, <2>7
<1> HIDE DEF m, n
<1>4. Promise!LastOf(m, n + 1) = n + 1
  <2>1. Len(m) \in Nat /\ n + 1 \in 1..Len(m)
    BY <1>1
  <2> QED BY <1>3, <2>1, LastIs
<1>6. \A i \in 1..n : Promise!LastOf(m, i) = last(i)
  BY <1>1, <1>5, LastIs
<1>7. HasLasts(m)
  <2> SUFFICES ASSUME NEW i \in 1..Len(m) PROVE \E j \in i..Len(m) : IsLast(m, i, j)
    BY DEF HasLasts
  <2>1. CASE i = n + 1
    BY <1>1, <1>3, <2>1
  <2>2. CASE i \in 1..n
    <3>1. IsLast(m, i, last(i))
      BY <1>5, <2>2
    <3>2. last(i) \in i..Len(m)
      BY <3>1 DEF IsLast
    <3> QED BY <3>1, <3>2
  <2> QED BY <1>1, <2>1, <2>2
<1> QED BY <1>4, <1>5, <1>6, <1>7 DEF m, n

\* An event of the log l once the reading r has followed: an open one goes on, or it
\* ends with r, or with the last reading of the outlet before.
Extended(l, r, e) ==
    IF e.end # Open \/ Promise!Continues(Append(l, r), Len(l) + 1) THEN e
    ELSE [e EXCEPT !.end = IF Promise!SameOutlet(l[Len(l)], r) THEN r.at ELSE l[Len(l)].at]

NewEvent(d, at) == [device |-> d, start |-> at, end |-> Open]

LEMMA TimeIsNat == Time \subseteq Nat /\ Open \notin Time
BY RecorderAssumption DEF Time

LEMMA EventsAppend ==
    ASSUME NEW d, NEW l \in Seq(Reading), NEW r \in Reading, HasLasts(l)
    PROVE  LET m == Append(l, r)
           IN Promise!EventsOf(d, m) =
                {Extended(l, r, e) : e \in Promise!EventsOf(d, l)}
                \cup (IF Promise!Begins(m, Len(l) + 1) THEN {NewEvent(d, r.at)} ELSE {})
<1> DEFINE m == Append(l, r)
           n == Len(l)
           joins == Promise!Continues(m, n + 1)
           ended == IF Promise!SameOutlet(l[n], r) THEN r.at ELSE l[n].at
           ev(i) == [device |-> d, start |-> l[i].at, end |-> Promise!EndOf(l, i)]
<1>1. /\ m \in Seq(Reading) /\ n \in Nat /\ Len(m) = n + 1 /\ DOMAIN m = 1..(n + 1)
      /\ DOMAIN l = 1..n /\ \A i \in 1..n : m[i] = l[i]
      /\ m[n + 1] = r
  BY AppendReads
<1>2. /\ Promise!LastOf(m, n + 1) = n + 1
      /\ \A i \in 1..n :
            /\ Promise!LastOf(l, i) \in i..n
            /\ Promise!LastOf(m, i) = IF Promise!LastOf(l, i) = n /\ joins THEN n + 1
                                      ELSE Promise!LastOf(l, i)
  BY LastsAppend
<1>3. \A i \in 1..n : Promise!Begins(m, i) <=> Promise!Begins(l, i)
  BY AppendKeeps
<1>4. \A i \in 1..n : l[i].at # Open
  <2> TAKE i \in 1..n
  <2>1. l[i] \in Reading
    BY <1>1, ElementOfSeq
  <2> QED BY <2>1, TimeIsNat DEF Reading, Promise!Reading
<1> HIDE DEF m, n, joins
<1>5. Promise!EndOf(m, n + 1) = Open
  BY <1>1, <1>2 DEF Promise!EndOf
<1>6. ASSUME NEW i \in 1..n
      PROVE  Promise!EndOf(m, i) = IF Promise!EndOf(l, i) # Open \/ joins
                                   THEN Promise!EndOf(l, i) ELSE ended
  <2> DEFINE j == Promise!LastOf(l, i)
  <2>1. j \in 1..n /\ i \in 1..n /\ Promise!LastOf(m, i) = IF j = n /\ joins THEN n + 1 ELSE j
    BY <1>1, <1>2
  <2> HIDE DEF j
  <2>2. CASE j # n
    <3>a. j \in 1..n /\ j + 1 \in 1..n /\ j # n + 1
      BY <1>1, <2>1, <2>2
    <3>1. m[j] = l[j] /\ m[j + 1] = l[j + 1] /\ j # Len(m) /\ j # Len(l) /\ j + 1 \in 1..n
      <4>1. j # Len(l)
        BY <2>2 DEF n
      <4> QED BY <1>1, <3>a, <4>1
    <3>2. Promise!EndOf(m, i) = Promise!EndOf(l, i)
      BY <2>1, <2>2, <3>1 DEF Promise!EndOf, j
    <3>3. Promise!EndOf(l, i) # Open
      BY <1>4, <2>1, <3>1 DEF Promise!EndOf, j
    <3> QED BY <3>2, <3>3
  <2>3. CASE j = n
    <3>1. Promise!EndOf(l, i) = Open
      BY <2>3 DEF Promise!EndOf, j, n
    <3>2. CASE joins
      <4>1. Promise!EndOf(m, i) = Open
        BY <1>1, <2>1, <2>3, <3>2 DEF Promise!EndOf
      <4> QED BY <3>1, <3>2, <4>1
    <3>3. CASE ~joins
      <4>1. m[n] = l[n] /\ m[n + 1] = r /\ n # Len(m)
        BY <1>1, <2>1, <2>3
      <4>2. Promise!EndOf(m, i) = ended
        BY <2>1, <2>3, <3>3, <4>1 DEF Promise!EndOf
      <4> QED BY <3>1, <3>3, <4>2
    <3> QED BY <3>2, <3>3
  <2> QED BY <2>2, <2>3
<1>7. \A i \in 1..n : Extended(l, r, ev(i)) =
                         [device |-> d, start |-> m[i].at, end |-> Promise!EndOf(m, i)]
  <2> TAKE i \in 1..n
  <2>1. Extended(l, r, ev(i)) = IF ev(i).end # Open \/ joins THEN ev(i)
                                ELSE [ev(i) EXCEPT !.end = ended]
    BY DEF Extended, joins, m, n
  <2>2. m[i] = l[i]
    BY <1>1
  <2> QED BY <1>6, <2>1, <2>2
<1>8. Promise!EventsOf(d, l) = {ev(i) : i \in {k \in 1..n : Promise!Begins(l, k)}}
  BY <1>1 DEF Promise!EventsOf
<1>9. Promise!EventsOf(d, m) =
          {[device |-> d, start |-> m[i].at, end |-> Promise!EndOf(m, i)] :
              i \in {k \in 1..(n + 1) : Promise!Begins(m, k)}}
  BY <1>1 DEF Promise!EventsOf
<1>10. 1..(n + 1) = 1..n \cup {n + 1}
  BY <1>1
<1>11. [device |-> d, start |-> m[n + 1].at, end |-> Promise!EndOf(m, n + 1)] = NewEvent(d, r.at)
  BY <1>1, <1>5 DEF NewEvent
<1> HIDE DEF ev
<1> QED BY <1>3, <1>7, <1>8, <1>9, <1>10, <1>11 DEF m, n
(***************************************************************************)
(* What an event table and a checkpoint are for a log: by device d, with   *)
(* the checkpoint s that is loaded for it, the log l, the events T of the  *)
(* device and the events that were forgotten.  The table is what follows   *)
(* from the log, but for an event of an older program that the checkpoint  *)
(* knows to be over (low = 2).                                             *)
(***************************************************************************)
Kept(d, l, gone) == {e \in Promise!EventsOf(d, l) : <<d, e.start>> \notin gone}

Settle(s, e) == IF e.end = Open /\ s.low >= 2 THEN [e EXCEPT !.end = s.last] ELSE e

AtEnd(s, l) ==
    LET n == Len(l)
    IN /\ s.last = l[n].at /\ s.binding = l[n].outlet
       /\ \A i \in 1..n : l[i].at <= s.last
       /\ IF s.low = 2 THEN s.event # NoEvent /\ ~Promise!Active(l, n)
          ELSE /\ Promise!Active(l, n) <=> s.event # NoEvent
               /\ s.low = IF s.event = NoEvent \/ l[n].high THEN 0 ELSE 1

Follows(d, s, l, T, gone) ==
    /\ l \in Seq(Reading) /\ HasLasts(l)
    /\ s \in State /\ s.event <= s.last
    /\ l = <<>> => s = Fresh
    /\ l # <<>> => AtEnd(s, l)
    /\ T \subseteq Event
    /\ \A e \in T : e.device = d /\ e.start <= s.last /\ (e.end = Open => e.start = s.event)
    /\ \A g \in gone : g[1] = d => g[2] \in 0..s.last
    /\ {Settle(s, e) : e \in T} = Kept(d, l, gone)

(***************************************************************************)
(* The checkpoint after a reading.                                         *)
(***************************************************************************)
Over(s, o) == s.event # NoEvent /\ OverBefore(s, o)

LEMMA AfterIs ==
    ASSUME NEW s \in State, NEW o \in Binding, NEW at \in Time, NEW high \in BOOLEAN
    PROVE  LET t == After(s, o, at, high)
           IN /\ t \in State /\ t.last = at
              /\ t.binding = IF o # NoOutlet THEN o ELSE s.binding
              /\ t.event = IF high THEN (IF s.event = 0 \/ Over(s, o) THEN at ELSE s.event)
                           ELSE IF Over(s, o) \/ s.low # 0 THEN 0 ELSE s.event
              /\ t.low = IF high \/ t.event = 0 THEN 0 ELSE 1
<1> DEFINE over == Over(s, o)
           run  == IF over THEN 0 ELSE s.event
           low  == IF over THEN 0 ELSE s.low
           t    == After(s, o, at, high)
<1>1. /\ s.event \in 0..MaxTime /\ s.low \in 0..2 /\ at \in 0..MaxTime /\ at # 0
      /\ s.binding \in Binding /\ MaxTime \in Nat
  BY RecorderAssumption DEF State, Time
<1>2. t = [last |-> at, binding |-> IF o # NoOutlet THEN o ELSE s.binding,
           event |-> IF high THEN (IF run = 0 THEN at ELSE run)
                     ELSE IF low + 1 >= 2 THEN 0 ELSE run,
           low |-> IF high \/ run = 0 \/ low + 1 >= 2 THEN 0 ELSE low + 1]
  BY DEF After, NoEvent, Over
<1> HIDE DEF over, t
<1>3. t.event = IF high THEN (IF s.event = 0 \/ over THEN at ELSE s.event)
                ELSE IF over \/ s.low # 0 THEN 0 ELSE s.event
  <2>1. over => s.event # 0
    BY DEF over, Over, NoEvent
  <2>2. t.event = IF high THEN (IF run = 0 THEN at ELSE run)
                  ELSE IF low + 1 >= 2 THEN 0 ELSE run
    BY <1>2
  <2> QED BY <1>1, <2>1, <2>2
<1>4. t.low = IF high \/ t.event = 0 THEN 0 ELSE 1
  <2>1. /\ t.event = IF high THEN (IF run = 0 THEN at ELSE run)
                     ELSE IF low + 1 >= 2 THEN 0 ELSE run
        /\ t.low = IF high \/ run = 0 \/ low + 1 >= 2 THEN 0 ELSE low + 1
    BY <1>2
  <2> QED BY <1>1, <2>1
<1>5. t.event \in 0..MaxTime /\ t.low \in 0..2
  BY <1>1, <1>3, <1>4
<1>6. t.last = at /\ t.binding = IF o # NoOutlet THEN o ELSE s.binding
  BY <1>2
<1>7. t \in State
  BY <1>1, <1>2, <1>5, <1>6 DEF State
<1> QED BY <1>3, <1>4, <1>6, <1>7 DEF over, t

(***************************************************************************)
(* The table after a reading: the events of the device, of which an open   *)
(* one is closed unless it goes on, and the one that begins.               *)
(***************************************************************************)
Closed(s, t, o, at, e) ==
    IF e.end = Open /\ t.event # s.event
    THEN [e EXCEPT !.end = IF Over(s, o) THEN s.last ELSE at] ELSE e

TableAfter(d, s, t, o, at, T) ==
    {Closed(s, t, o, at, e) : e \in T}
    \cup (IF t.event = at THEN {NewEvent(d, at)} ELSE {})

LEMMA EventsAfterIs ==
    ASSUME events \subseteq Event, NEW d \in Device, NEW s \in State, NEW o \in Binding,
           NEW at \in Time, NEW high \in BOOLEAN, s.event < at,
           \A e \in EventsFor(d) : e.end = Open => e.start = s.event
    PROVE  LET t == After(s, o, at, high)
               A == EventsAfter(d, s, o, at, high)
           IN /\ {e \in A : e.device = d} = TableAfter(d, s, t, o, at, EventsFor(d))
              /\ \A x \in Device \ {d} : {e \in A : e.device = x} = EventsFor(x)
              /\ \A e \in A : e.device \in Device
<1> DEFINE t == After(s, o, at, high)
           A == EventsAfter(d, s, o, at, high)
           new == IF t.event = at THEN {NewEvent(d, at)} ELSE {}
           C(e) == Closed(s, t, o, at, e)
           Shut(end, e) == IF e.device = d /\ e.start = s.event /\ e.end = Open
                           THEN [e EXCEPT !.end = end] ELSE e
           U(e) == IF e.device = d THEN C(e) ELSE e
<1>1. /\ t.event = IF high THEN (IF s.event = 0 \/ Over(s, o) THEN at ELSE s.event)
                    ELSE IF Over(s, o) \/ s.low # 0 THEN 0 ELSE s.event
      /\ s.event \in Nat /\ at \in Nat /\ at # 0 /\ s.event # at
      /\ Over(s, o) => s.event # 0
  <2>1. s.event \in Nat /\ at \in Nat /\ at # 0
    BY RecorderAssumption DEF State, Time
  <2> QED BY <2>1, AfterIs DEF Over, NoEvent
<1>2. \A e \in events : e.start # 0
  BY DEF Event, Time
<1>9. \A e \in events : e.device = d /\ e.end = Open => e.start = s.event
  BY DEF EventsFor
<1>a. \A e \in events : \A x : [e EXCEPT !.end = x].device = e.device
  BY DEF Event
<1> HIDE DEF t
<1>3. A = {U(e) : e \in events} \cup new
  <2>1. CASE Over(s, o)
    <3>1. t.event # s.event
      BY <1>1, <2>1
    <3>2. ASSUME NEW e \in events PROVE U(e) = Shut(s.last, e)
      BY <1>9, <2>1, <3>1 DEF Closed
    <3>3. CloseEvent(events, d, s.event, s.last) = {U(e) : e \in events}
      BY <3>2 DEF CloseEvent
    <3>4. A = CloseEvent(events, d, s.event, s.last) \cup new
      BY <1>1, <2>1 DEF EventsAfter, NewEvent, Over, t, NoEvent
    <3> QED BY <3>3, <3>4
  <2>2. CASE ~Over(s, o) /\ t.event = 0 /\ s.event # 0
    <3>1. ASSUME NEW e \in events PROVE U(e) = Shut(at, e)
      BY <1>9, <2>2 DEF Closed
    <3>2. CloseEvent(events, d, s.event, at) = {U(e) : e \in events}
      BY <3>1 DEF CloseEvent
    <3>3. A = CloseEvent(events, d, s.event, at) /\ new = {}
      BY <1>1, <2>2 DEF EventsAfter, NewEvent, Over, t, NoEvent
    <3> QED BY <3>2, <3>3
  <2>3. CASE ~Over(s, o) /\ ~(t.event = 0 /\ s.event # 0)
    <3>1. t.event = s.event \/ s.event = 0
      BY <1>1, <2>3
    <3>2. ASSUME NEW e \in events PROVE U(e) = e
      BY <1>2, <1>9, <3>1 DEF Closed
    <3>3. A = events \cup new
      BY <1>1, <2>3 DEF EventsAfter, NewEvent, Over, t, NoEvent
    <3> QED BY <3>2, <3>3
  <2> QED BY <2>1, <2>2, <2>3
<1>4. \A e \in events : U(e).device = e.device
  BY <1>a DEF Closed
<1>5. \A e \in new : e.device = d
  BY DEF NewEvent
<1>b. \A e \in A : e.device \in Device
  BY <1>3, <1>4, <1>5 DEF Event
<1> HIDE DEF A, U, new
<1>6. ASSUME NEW x \in Device
      PROVE  {e \in A : e.device = x} = {U(e) : e \in EventsFor(x)} \cup {e \in new : x = d}
  BY <1>3, <1>4, <1>5 DEF EventsFor
<1>7. {U(e) : e \in EventsFor(d)} = {C(e) : e \in EventsFor(d)}
  BY DEF U, EventsFor
<1>8. \A x \in Device \ {d} : {U(e) : e \in EventsFor(x)} = EventsFor(x)
  BY DEF U, EventsFor
<1> QED BY <1>b, <1>6, <1>7, <1>8 DEF TableAfter, A, new, t

\* The reading as the log has it.
Read(s, o, at, high) == [at |-> at, outlet |-> After(s, o, at, high).binding, high |-> high]

(***************************************************************************)
(* The checkpoint tells what the new reading is in the log: whether an     *)
(* event goes on with it, and whether one begins.                          *)
(***************************************************************************)
LEMMA ReadingIs ==
    ASSUME NEW s \in State, NEW l \in Seq(Reading), s.event <= s.last,
           l = <<>> => s = Fresh, l # <<>> => AtEnd(s, l),
           NEW o \in Binding, NEW at \in Time, NEW high \in BOOLEAN, s.last < at
    PROVE  LET t == After(s, o, at, high)
               r == Read(s, o, at, high)
               m == Append(l, r)
               n == Len(l)
           IN /\ r \in Reading
              /\ Promise!Active(m, n + 1) <=> t.event # 0
              /\ Promise!Begins(m, n + 1) <=> t.event = at
              /\ s.event # 0 => l # <<>>
              /\ s.event # 0 /\ s.low < 2 =>
                    /\ Promise!SameOutlet(l[n], r) <=> ~Over(s, o)
                    /\ Promise!Continues(m, n + 1) <=> t.event = s.event
<1> DEFINE t == After(s, o, at, high)
           r == Read(s, o, at, high)
           m == Append(l, r)
           n == Len(l)
           same == Promise!SameOutlet(l[n], r)
           before == Promise!Active(l, n)
<1>1. /\ t \in State /\ t.last = at
      /\ t.binding = IF o # NoOutlet THEN o ELSE s.binding
      /\ t.event = IF high THEN (IF s.event = 0 \/ Over(s, o) THEN at ELSE s.event)
                   ELSE IF Over(s, o) \/ s.low # 0 THEN 0 ELSE s.event
  BY AfterIs
<1>2. /\ s.event \in Nat /\ s.low \in 0..2 /\ s.last \in Nat /\ at \in Nat /\ at # 0
      /\ s.event # at
  BY RecorderAssumption DEF State, Time
<1>3. r \in Reading /\ r.high = high /\ r.at = at /\ r.outlet = t.binding
  BY <1>1 DEF Read, Reading, Promise!Reading, State, Binding
<1>4. /\ n \in Nat /\ Len(m) = n + 1 /\ m[n + 1] = r
      /\ \A i \in 1..n : m[i] = l[i]
  BY <1>3, AppendReads
<1>5. CASE l = <<>>
  <2>1. s.event = 0 /\ s.low = 0 /\ n = 0
    BY <1>5 DEF Fresh, NoEvent
  <2>2. t.event = IF high THEN at ELSE 0
    BY <1>1, <2>1
  <2>3. Promise!Active(m, n + 1) <=> high
    BY <1>3, <1>4, <2>1 DEF Promise!Active
  <2>4. ~Promise!Continues(m, n + 1)
    BY <2>1 DEF Promise!Continues
  <2> QED BY <1>2, <1>3, <2>1, <2>2, <2>3, <2>4 DEF Promise!Begins
<1>6. CASE l # <<>>
  <2>1. n \in 1..n /\ m[n] = l[n] /\ n + 1 > 1 /\ (n + 1) - 1 = n
    BY <1>4, <1>6, EmptySeq
  <2>2. /\ s.binding = l[n].outlet
        /\ s.low = 2 => s.event # 0 /\ ~before
        /\ s.low # 2 => /\ before <=> s.event # 0
                        /\ s.low = IF s.event = 0 \/ l[n].high THEN 0 ELSE 1
    BY <1>6 DEF AtEnd, NoEvent
  <2>3. l[n].high => before
    BY DEF Promise!Active
  <2>4. same <=> ~(o # NoOutlet /\ s.binding # NoOutlet /\ o # s.binding)
    BY <1>1, <1>3, <2>2 DEF Promise!SameOutlet
  <2>5. Over(s, o) <=> s.event # 0 /\ (s.low = 2 \/ ~same)
    BY <1>2, <2>4 DEF Over, OverBefore, NoEvent
  <2>6. Promise!Active(m, n + 1) <=> high \/ (l[n].high /\ same)
    BY <1>3, <1>4, <2>1 DEF Promise!Active
  <2>7. Promise!Continues(m, n + 1) <=> before /\ same /\ Promise!Active(m, n + 1)
    <3>1. Promise!Active(m, n) <=> before
      BY <1>3, <2>1, AppendKeeps
    <3> QED BY <1>4, <2>1, <3>1 DEF Promise!Continues
  <2> HIDE DEF t, r, m, n, same, before
  <2>8. Promise!Active(m, n + 1) <=> t.event # 0
    BY <1>1, <1>2, <2>2, <2>3, <2>5, <2>6
  <2>9. Promise!Continues(m, n + 1) <=> s.event # 0 /\ s.low < 2 /\ t.event = s.event
    <3>1. t.event = s.event /\ s.event # 0 => ~Over(s, o)
      BY <1>1, <1>2
    <3>2. t.event # s.event /\ t.event # 0 => s.event = 0 \/ Over(s, o)
      BY <1>1
    <3> QED BY <1>2, <2>2, <2>5, <2>7, <2>8, <3>1, <3>2
  <2>10. Promise!Begins(m, n + 1) <=> t.event = at
    <3>1. t.event \in {0, s.event, at}
      BY <1>1
    <3>2. t.event = at => s.event = 0 \/ Over(s, o)
      BY <1>1, <1>2
    <3>3. s.low = 2 => t.event # s.event
      BY <1>1, <1>2, <2>2, <2>5
    <3>4. Promise!Begins(m, n + 1) <=> t.event # 0 /\ ~Promise!Continues(m, n + 1)
      BY <2>8 DEF Promise!Begins
    <3> QED BY <1>2, <2>9, <3>1, <3>3, <3>4
  <2> QED BY <1>2, <1>3, <1>6, <2>5, <2>8, <2>9, <2>10 DEF t, r, m, n, same
<1> QED BY <1>5, <1>6

(***************************************************************************)
(* The table after a reading follows from the log with the reading.        *)
(***************************************************************************)
\* One event of the table: what the recorder makes of it is what the log does.
LEMMA ClosedIsExtended ==
    ASSUME NEW s \in State, NEW l \in Seq(Reading), s.event <= s.last,
           l = <<>> => s = Fresh, l # <<>> => AtEnd(s, l),
           NEW o \in Binding, NEW at \in Time, NEW high \in BOOLEAN, s.last < at,
           NEW e \in Event, e.end = Open => e.start = s.event
    PROVE  Closed(s, After(s, o, at, high), o, at, e) =
              Extended(l, Read(s, o, at, high), Settle(s, e))
<1> DEFINE t == After(s, o, at, high)
           r == Read(s, o, at, high)
           n == Len(l)
           joins == Promise!Continues(Append(l, r), n + 1)
<1>1. /\ s.event # 0 => l # <<>>
      /\ s.event # 0 /\ s.low < 2 =>
            /\ Promise!SameOutlet(l[n], r) <=> ~Over(s, o)
            /\ joins <=> t.event = s.event
  BY ReadingIs
<1>2. /\ e.start # 0 /\ s.low \in 0..2 /\ s.event \in Nat /\ at \in Nat /\ s.last \in Nat
      /\ s.last # Open /\ s.event # at
  BY RecorderAssumption, TimeIsNat DEF Event, State, Time
<1>3. /\ t.event = IF high THEN (IF s.event = 0 \/ Over(s, o) THEN at ELSE s.event)
                   ELSE IF Over(s, o) \/ s.low # 0 THEN 0 ELSE s.event
  BY AfterIs
<1>4. r.at = at
  BY DEF Read
<1>a. \A x : [e EXCEPT !.end = x].end = x
  BY DEF Event
<1> HIDE DEF t, r, joins
<1>5. \A x : Extended(l, r, x) =
               IF x.end # Open \/ joins THEN x
               ELSE [x EXCEPT !.end = IF Promise!SameOutlet(l[n], r) THEN r.at ELSE l[n].at]
  BY DEF Extended, joins
<1>6. CASE e.end # Open
  BY <1>5, <1>6 DEF Settle, Closed, t, r
<1>7. CASE e.end = Open /\ s.low = 2
  <2>1. s.event # 0 /\ Over(s, o)
    BY <1>2, <1>7 DEF Over, OverBefore, NoEvent
  <2>2. t.event # s.event
    BY <1>2, <1>3, <2>1
  <2>3. Closed(s, t, o, at, e) = [e EXCEPT !.end = s.last]
    BY <1>7, <2>1, <2>2 DEF Closed
  <2>4. Settle(s, e) = [e EXCEPT !.end = s.last]
    BY <1>7 DEF Settle
  <2>5. Settle(s, e).end # Open
    BY <1>2, <1>a, <2>4
  <2> QED BY <1>5, <2>3, <2>4, <2>5 DEF t, r
<1>8. CASE e.end = Open /\ s.low # 2
  <2>1. s.event # 0 /\ s.low < 2
    BY <1>2, <1>8
  <2>2. Settle(s, e) = e
    BY <2>1, <1>2 DEF Settle
  <2>3. l[n].at = s.last
    BY <1>1, <2>1 DEF AtEnd
  <2>4. CASE joins
    BY <1>1, <1>5, <2>1, <2>2, <2>4 DEF Closed, t, r
  <2>5. CASE ~joins
    <3>1. t.event # s.event
      BY <1>1, <2>1, <2>5
    <3>2. Closed(s, t, o, at, e) = [e EXCEPT !.end = IF Over(s, o) THEN s.last ELSE at]
      BY <1>8, <3>1 DEF Closed
    <3>3. Extended(l, r, e) = [e EXCEPT !.end = IF Over(s, o) THEN s.last ELSE at]
      BY <1>1, <1>4, <1>5, <1>8, <2>1, <2>3, <2>5
    <3> QED BY <2>2, <3>2, <3>3 DEF t, r
  <2> QED BY <2>4, <2>5
<1> QED BY <1>6, <1>7, <1>8

LEMMA AcceptFollows ==
    ASSUME NEW d \in Device, NEW s, NEW l, NEW T, NEW gone, Follows(d, s, l, T, gone),
           NEW o \in Binding, NEW at \in Time, NEW high \in BOOLEAN, s.last < at
    PROVE  LET t == After(s, o, at, high)
           IN /\ t.low < 2
              /\ Follows(d, t, Append(l, Read(s, o, at, high)),
                         TableAfter(d, s, t, o, at, T), gone)
<1> DEFINE t == After(s, o, at, high)
           r == Read(s, o, at, high)
           m == Append(l, r)
           n == Len(l)
           new == NewEvent(d, at)
           U == TableAfter(d, s, t, o, at, T)
<1>1. /\ s \in State /\ l \in Seq(Reading) /\ HasLasts(l) /\ s.event <= s.last
      /\ l = <<>> => s = Fresh
      /\ l # <<>> => AtEnd(s, l)
      /\ T \subseteq Event
      /\ \A e \in T : e.device = d /\ e.start <= s.last /\ (e.end = Open => e.start = s.event)
      /\ \A g \in gone : g[1] = d => g[2] \in 0..s.last
      /\ {Settle(s, e) : e \in T} = Kept(d, l, gone)
  BY DEF Follows
<1>2. /\ t \in State /\ t.last = at
      /\ t.event = IF high THEN (IF s.event = 0 \/ Over(s, o) THEN at ELSE s.event)
                   ELSE IF Over(s, o) \/ s.low # 0 THEN 0 ELSE s.event
      /\ t.low = IF high \/ t.event = 0 THEN 0 ELSE 1
  BY <1>1, AfterIs
<1>3. /\ r \in Reading
      /\ Promise!Active(m, n + 1) <=> t.event # 0
      /\ Promise!Begins(m, n + 1) <=> t.event = at
  BY <1>1, ReadingIs
<1>4. /\ s.event \in Nat /\ s.last \in Nat /\ at \in Nat /\ at # 0 /\ s.event # at
      /\ s.last # Open /\ at # Open /\ at \in Time
      /\ s.event # 0 => s.last \in Time
  <2>1. /\ s.event \in 0..MaxTime /\ s.last \in 0..MaxTime /\ at \in 1..MaxTime
        /\ MaxTime \in Nat
    BY <1>1, RecorderAssumption DEF State, Time
  <2> QED BY <1>1, <2>1, RecorderAssumption DEF Time
<1>5. /\ r.at = at /\ r.high = high /\ r.outlet = t.binding
  BY DEF Read
<1>6. /\ m \in Seq(Reading) /\ n \in Nat /\ Len(m) = n + 1 /\ m # <<>>
      /\ \A i \in 1..n : m[i] = l[i]
      /\ m[n + 1] = r
  BY <1>1, <1>3, AppendReads
<1> HIDE DEF t, r, n
<1>7. HasLasts(m)
  BY <1>1, <1>3, LastsAppend
<1>8. t.low < 2 /\ t.low # 2 /\ t.event <= t.last
  BY <1>1, <1>2, <1>4
<1>9. AtEnd(t, m)
  <2>1. \A i \in 1..n : l[i].at <= s.last
    BY <1>1 DEF AtEnd, n
  <2>2. \A i \in 1..n : l[i].at \in Nat
    <3> TAKE i \in 1..n
    <3>1. l[i] \in Reading
      BY <1>1, <1>6, ElementOfSeq DEF n
    <3> QED BY <3>1, TimeIsNat DEF Reading, Promise!Reading
  <2>3. \A i \in 1..(n + 1) : m[i].at <= t.last
    BY <1>2, <1>4, <1>5, <1>6, <2>1, <2>2
  <2>4. t.low = IF t.event = NoEvent \/ m[n + 1].high THEN 0 ELSE 1
    BY <1>2, <1>5, <1>6 DEF NoEvent
  <2> QED BY <1>2, <1>3, <1>5, <1>6, <1>8, <2>3, <2>4 DEF AtEnd, NoEvent
<1>10. \A e \in T : Closed(s, t, o, at, e) = Extended(l, r, Settle(s, e))
  BY <1>1, ClosedIsExtended DEF t, r
<1>11. \A e \in T :
          LET c == Closed(s, t, o, at, e)
          IN c \in Event /\ c.device = d /\ c.start = e.start /\ c.start <= at
             /\ (c.end = Open => c.start = t.event)
  <2> TAKE e \in T
  <2>1. e \in Event /\ e.device = d /\ e.start <= s.last /\ (e.end = Open => e.start = s.event)
    BY <1>1
  <2>2. e.start \in Nat /\ e.start # 0 /\ e.start <= at
    BY <1>4, <2>1, RecorderAssumption DEF Event, Time
  <2>3. CASE e.end = Open /\ t.event # s.event
    <3> DEFINE end == IF Over(s, o) THEN s.last ELSE at
    <3>1. end \in Time /\ end # Open
      BY <1>4, <2>1, <2>2, <2>3
    <3>2. Closed(s, t, o, at, e) = [e EXCEPT !.end = end]
      BY <2>3 DEF Closed
    <3> HIDE DEF end
    <3> QED BY <2>1, <2>2, <3>1, <3>2 DEF Event
  <2>4. CASE ~(e.end = Open /\ t.event # s.event)
    <3>1. Closed(s, t, o, at, e) = e
      BY <2>4 DEF Closed
    <3> QED BY <2>1, <2>2, <2>4, <3>1
  <2> QED BY <2>3, <2>4
<1>12. new \in Event /\ new.device = d /\ new.start = at /\ new.end = Open
  BY <1>4 DEF NewEvent, Event
<1>13. /\ U \subseteq Event
       /\ \A e \in U : e.device = d /\ e.start <= t.last /\ (e.end = Open => e.start = t.event)
  BY <1>2, <1>4, <1>11, <1>12 DEF TableAfter
<1>14. <<d, at>> \notin gone
  BY <1>1, <1>4
<1>15. {Settle(t, e) : e \in U} = U
  BY <1>8, <1>2 DEF Settle, State
<1>16. U = Kept(d, m, gone)
  <2>1. Promise!EventsOf(d, m) =
            {Extended(l, r, e) : e \in Promise!EventsOf(d, l)}
            \cup (IF t.event = at THEN {new} ELSE {})
    <3>1. Promise!EventsOf(d, m) =
              {Extended(l, r, e) : e \in Promise!EventsOf(d, l)}
              \cup (IF Promise!Begins(m, n + 1) THEN {NewEvent(d, r.at)} ELSE {})
      BY <1>1, <1>3, EventsAppend DEF n
    <3> QED BY <1>3, <1>5, <3>1
  <2>2. \A e \in Promise!EventsOf(d, l) : Extended(l, r, e).start = e.start
    BY DEF Extended, Promise!EventsOf
  <2>3. Kept(d, m, gone) = {Extended(l, r, e) : e \in Kept(d, l, gone)}
                           \cup (IF t.event = at THEN {new} ELSE {})
    BY <1>12, <1>14, <2>1, <2>2 DEF Kept
  <2>4. {Extended(l, r, e) : e \in Kept(d, l, gone)} = {Closed(s, t, o, at, e) : e \in T}
    BY <1>1, <1>10
  <2> QED BY <2>3, <2>4 DEF TableAfter
<1>17. \A g \in gone : g[1] = d => g[2] \in 0..t.last
  BY <1>1, <1>2, <1>4
<1> HIDE DEF m, U
<1>18. Follows(d, t, m, U, gone)
  <2>1. {Settle(t, e) : e \in U} = Kept(d, m, gone)
    BY <1>15, <1>16
  <2>2. t \in State /\ t.event <= t.last /\ m \in Seq(Reading) /\ m # <<>>
    BY <1>2, <1>6, <1>8
  <2> QED BY <1>7, <1>9, <1>13, <1>17, <2>1, <2>2, Zenon DEF Follows
<1> QED BY <1>8, <1>18 DEF t, r, m, U

\* The retention forgets the same events in the table and in the log.
LEMMA ForgetFollows ==
    ASSUME NEW d, NEW s, NEW l, NEW T, NEW gone, Follows(d, s, l, T, gone), s.low < 2,
           NEW cutoff \in Nat, NEW G,
           \A g \in G : g[1] = d => g[2] \in 0..s.last /\ g[2] < cutoff,
           \A e \in T : e.start < cutoff => <<d, e.start>> \in G,
           NEW U, U = {e \in T : e.start >= cutoff}
    PROVE  Follows(d, s, l, U, gone \cup G)
<1>1. T \subseteq Event /\ s \in State /\ {Settle(s, e) : e \in T} = Kept(d, l, gone)
  BY DEF Follows
<1>2. \A e \in T : Settle(s, e) = e /\ e.start \in Nat
  BY <1>1, TimeIsNat DEF Settle, State, Event
<1>3. T = Kept(d, l, gone) /\ {Settle(s, e) : e \in U} = U
  BY <1>1, <1>2
<1>4. \A e \in T : <<d, e.start>> \in G <=> ~(e.start >= cutoff)
  BY <1>2
<1>5. U = Kept(d, l, gone \cup G)
  BY <1>3, <1>4 DEF Kept
<1>6. {Settle(s, e) : e \in U} = Kept(d, l, gone \cup G)
  BY <1>3, <1>5
<1>7. \A g \in gone \cup G : g[1] = d => g[2] \in 0..s.last
  BY DEF Follows
<1>8. U \subseteq T
  OBVIOUS
<1> QED BY <1>6, <1>7, <1>8 DEF Follows

(***************************************************************************)
(* The inductive invariant: the table of every device follows from its     *)
(* log, under the checkpoint that is loaded for it.  An event is left open *)
(* after two low readings only by an older program.                        *)
(***************************************************************************)
PromiseInv ==
    /\ TypeOK
    /\ \A d \in Device :
          /\ Follows(d, Loaded(d), log[d], EventsFor(d), forgotten)
          /\ checkpoint[d] # NoCheckpoint => checkpoint[d].low < 2

LEMMA SettledIs == PromiseInv => Settled = Promise!Remembered(log, forgotten)
<1> SUFFICES ASSUME PromiseInv PROVE Settled = Promise!Remembered(log, forgotten)
  OBVIOUS
<1> DEFINE R(d) == {Settle(Loaded(d), e) : e \in EventsFor(d)}
           K(d) == Kept(d, log[d], forgotten)
<1>1. \A e \in events : e.device \in Device
  BY DEF PromiseInv, TypeOK, Event
<1>2. ASSUME NEW e \in events
      PROVE  Settle(Loaded(e.device), e) =
                IF e.end = Open /\ checkpoint[e.device] = NoCheckpoint /\ Loaded(e.device).low >= 2
                THEN [e EXCEPT !.end = Loaded(e.device).last] ELSE e
  <2>1. checkpoint[e.device] # NoCheckpoint => ~(Loaded(e.device).low >= 2)
    <3>1. ASSUME checkpoint[e.device] # NoCheckpoint PROVE ~(Loaded(e.device).low >= 2)
      <4>1. Loaded(e.device) = checkpoint[e.device] /\ Loaded(e.device) \in State
        BY <1>1, <3>1 DEF Loaded, PromiseInv, Follows
      <4>2. Loaded(e.device).low < 2 /\ Loaded(e.device).low \in 0..2
        BY <1>1, <3>1, <4>1 DEF PromiseInv, State
      <4> QED BY <4>2
    <3> QED BY <3>1
  <2> QED BY <2>1 DEF Settle
<1>3. Settled = {Settle(Loaded(e.device), e) : e \in events}
  BY <1>2 DEF Settled
<1>4. {Settle(Loaded(e.device), e) : e \in events} = UNION {R(d) : d \in Device}
  BY <1>1 DEF EventsFor
<1>5. \A d \in Device : R(d) = K(d)
  BY DEF PromiseInv, Follows
<1>6. \A d : \A e \in Promise!EventsOf(d, log[d]) : e.device = d
  BY DEF Promise!EventsOf
<1>7. UNION {K(d) : d \in Device} = Promise!Remembered(log, forgotten)
  <2>1. ASSUME NEW f
        PROVE  f \in UNION {K(d) : d \in Device}
                  <=> \E d \in Device : /\ f \in Promise!EventsOf(d, log[d])
                                       /\ <<f.device, f.start>> \notin forgotten
    <3>1. ASSUME NEW d \in Device
          PROVE  f \in K(d) <=> /\ f \in Promise!EventsOf(d, log[d])
                                /\ <<f.device, f.start>> \notin forgotten
      <4>1. f \in Promise!EventsOf(d, log[d]) => f.device = d
        BY <1>6
      <4> QED BY <4>1 DEF Kept
    <3> HIDE DEF K
    <3> QED BY <3>1
  <2>2. ASSUME NEW f
        PROVE  f \in Promise!Remembered(log, forgotten)
                  <=> \E d \in Device : /\ f \in Promise!EventsOf(d, log[d])
                                       /\ <<f.device, f.start>> \notin forgotten
    BY DEF Promise!Remembered
  <2> HIDE DEF K
  <2> QED BY <2>1, <2>2
<1> HIDE DEF R, K
<1>8. UNION {R(d) : d \in Device} = UNION {K(d) : d \in Device}
  BY <1>5
<1> QED BY <1>3, <1>4, <1>7, <1>8 DEF R

\* A step that touches neither the log nor the table.
LEMMA QuietKeeps ==
    ASSUME PromiseInv, UNCHANGED <<checkpoint, events, samples, log, forgotten>>,
           replay' \subseteq Sample
    PROVE  PromiseInv' /\ UNCHANGED Settled
<1>1. TypeOK'
  BY DEF PromiseInv, TypeOK
<1>2. /\ \A d \in Device : Loaded(d)' = Loaded(d) /\ EventsFor(d)' = EventsFor(d)
      /\ UNCHANGED Settled
  BY DEF Loaded, EventsFor, Adopted, AdoptOpen, SamplesFor, TrailingLow, Settled
<1> QED BY <1>1, <1>2 DEF PromiseInv

(***************************************************************************)
(* While the history of an older program waits to be adopted, its samples  *)
(* are not deleted: RecordEquipmentReading deletes the old samples of every *)
(* device, so the promise needs that a device is read once within a day of *)
(* the last sample that an older program saved for it.                     *)
(***************************************************************************)
HistoryWaits ==
    \A d \in Device :
        checkpoint'[d] = NoCheckpoint /\ EventsFor(d) # {} => UNCHANGED SamplesFor(d)

\* A reading is refused, or accepted as the abstract log accepts it.
LEMMA RecordKeeps ==
    ASSUME PromiseInv, HistoryWaits, NEW d \in Device, NEW o \in Binding, NEW at \in Time,
           NEW high \in BOOLEAN, Record(d, o, at, high), ~Stale(d, at),
           replay' \subseteq Sample, UNCHANGED forgotten
    PROVE  /\ PromiseInv'
           /\ log' = [log EXCEPT ![d] = Append(@, Read(Loaded(d), o, at, high))]
           /\ Read(Loaded(d), o, at, high) \in Reading
           /\ \A i \in DOMAIN log[d] : log[d][i].at < at
<1> DEFINE s == Loaded(d)
           t == After(s, o, at, high)
           r == Read(s, o, at, high)
<1>1. /\ checkpoint \in [Device -> State \cup {NoCheckpoint}] /\ events \subseteq Event
      /\ samples \subseteq Sample /\ log \in [Device -> Seq(Reading)]
      /\ forgotten \subseteq Device \X Time
  BY DEF PromiseInv, TypeOK, Reading, Log!Reading, Promise!Reading
<1>2. Follows(d, s, log[d], EventsFor(d), forgotten)
  BY DEF PromiseInv
<1>3. s \in State /\ s.last < at /\ s.event < at
  <2>1. s \in State /\ s.event <= s.last
    BY <1>2 DEF Follows
  <2>2. s.last \in Nat /\ s.event \in Nat /\ at \in Nat
    BY <2>1, RecorderAssumption DEF State, Time
  <2> QED BY <2>1, <2>2 DEF Stale
<1>4. /\ checkpoint' = [checkpoint EXCEPT ![d] = t]
      /\ events' = EventsAfter(d, s, o, at, high)
      /\ samples' \subseteq samples \cup {[device |-> d, at |-> at, high |-> high]}
      /\ log' = [log EXCEPT ![d] = Append(@, r)]
  BY DEF Record, Read
<1>5. t \in State /\ t # NoCheckpoint
  BY <1>3, AfterIs, CheckpointAssumption
<1>6. /\ t.low < 2
      /\ Follows(d, t, Append(log[d], r), TableAfter(d, s, t, o, at, EventsFor(d)), forgotten)
  BY <1>2, <1>3, AcceptFollows
<1>7. /\ {e \in events' : e.device = d} = TableAfter(d, s, t, o, at, EventsFor(d))
      /\ \A x \in Device \ {d} : {e \in events' : e.device = x} = EventsFor(x)
      /\ \A e \in events' : e.device \in Device
  <2>1. \A e \in EventsFor(d) : e.end = Open => e.start = s.event
    BY <1>2 DEF Follows
  <2>2. events \subseteq Event
    BY <1>1
  <2>3. /\ {e \in EventsAfter(d, s, o, at, high) : e.device = d}
             = TableAfter(d, s, t, o, at, EventsFor(d))
        /\ \A x \in Device \ {d} :
              {e \in EventsAfter(d, s, o, at, high) : e.device = x} = EventsFor(x)
        /\ \A e \in EventsAfter(d, s, o, at, high) : e.device \in Device
    <3> HIDE DEF s
    <3> QED BY <1>3, <2>1, <2>2, EventsAfterIs
  <2> QED BY <1>4, <2>3
<1> HIDE DEF s, t, r
<1>8. /\ checkpoint'[d] = t /\ log'[d] = Append(log[d], r)
      /\ Loaded(d)' = t /\ EventsFor(d)' = TableAfter(d, s, t, o, at, EventsFor(d))
  BY <1>1, <1>4, <1>5, <1>7 DEF Loaded, EventsFor
<1>9. ASSUME NEW x \in Device \ {d}
      PROVE  /\ checkpoint'[x] = checkpoint[x] /\ log'[x] = log[x]
             /\ Loaded(x)' = Loaded(x) /\ EventsFor(x)' = EventsFor(x)
  <2>1. checkpoint'[x] = checkpoint[x] /\ log'[x] = log[x]
    BY <1>1, <1>4
  <2>2. EventsFor(x)' = EventsFor(x)
    BY <1>7 DEF EventsFor
  <2>3. CASE checkpoint[x] # NoCheckpoint
    BY <2>1, <2>3, <2>2 DEF Loaded
  <2>4. CASE checkpoint[x] = NoCheckpoint /\ EventsFor(x) = {}
    <3>1. Adopted(x) = Fresh /\ Adopted(x)' = Fresh
      BY <2>2, <2>4 DEF Adopted
    <3> QED BY <2>1, <2>2, <2>4, <3>1 DEF Loaded
  <2>5. CASE checkpoint[x] = NoCheckpoint /\ EventsFor(x) # {}
    <3>1. SamplesFor(x)' = SamplesFor(x)
      BY <2>1, <2>5 DEF HistoryWaits
    <3>2. TrailingLow(x)' = TrailingLow(x)
      BY <3>1 DEF TrailingLow
    <3>3. \A e : AdoptOpen(x, e)' = AdoptOpen(x, e)
      BY <3>1, <3>2 DEF AdoptOpen
    <3>4. Adopted(x)' = Adopted(x)
      BY <2>2, <3>3 DEF Adopted
    <3> QED BY <2>1, <2>2, <2>5, <3>4 DEF Loaded
  <2> QED BY <2>1, <2>2, <2>3, <2>4, <2>5
<1>10. \A x \in Device : /\ Follows(x, Loaded(x)', log'[x], EventsFor(x)', forgotten)
                         /\ checkpoint'[x] # NoCheckpoint => checkpoint'[x].low < 2
  BY <1>6, <1>8, <1>9 DEF PromiseInv
<1>11. r \in Reading
  BY <1>2, <1>3, ReadingIs DEF r, s, Follows
<1>12. TypeOK'
  <2>1. checkpoint' \in [Device -> State \cup {NoCheckpoint}]
    BY <1>1, <1>4, <1>5
  <2>2. events' \subseteq Event
    <3> SUFFICES ASSUME NEW e \in events' PROVE e \in Event
      OBVIOUS
    <3>1. e \in EventsFor(e.device)' /\ e.device \in Device
      BY <1>7 DEF EventsFor
    <3> QED BY <1>10, <3>1 DEF Follows
  <2>3. samples' \subseteq Sample
    BY <1>1, <1>4 DEF Sample
  <2>4. log' \in [Device -> Seq(Reading)]
    BY <1>1, <1>4, <1>11
  <2> QED BY <1>1, <2>1, <2>2, <2>3, <2>4 DEF TypeOK, Reading, Log!Reading, Promise!Reading
<1>13. PromiseInv'
  BY <1>10, <1>12 DEF PromiseInv
<1>14. \A i \in DOMAIN log[d] : log[d][i].at < at
  <2> TAKE i \in DOMAIN log[d]
  <2>1. log[d] \in Seq(Reading) /\ log[d] # <<>> /\ i \in 1..Len(log[d])
    BY <1>1
  <2>2. log[d][i].at <= s.last
    BY <1>2, <2>1 DEF Follows, AtEnd
  <2>3. log[d][i].at \in Nat
    <3>1. log[d][i] \in Reading
      BY <2>1
    <3> QED BY <3>1, TimeIsNat DEF Reading, Promise!Reading
  <2>4. s.last \in Nat /\ at \in Nat
    BY <1>3, RecorderAssumption DEF State, Time
  <2> QED BY <1>3, <2>2, <2>3, <2>4
<1> QED BY <1>4, <1>11, <1>13, <1>14 DEF r, s

\* What the retention deletes is forgotten, an open event too.
LEMMA CleanupKeeps ==
    ASSUME PromiseInv, NEW cutoff \in Time, Cleanup(cutoff)
    PROVE  /\ PromiseInv'
           /\ forgotten' = forgotten \cup
                {<<e.device, e.start>> : e \in {x \in Settled : x.start < cutoff}}
<1> DEFINE G == {<<e.device, e.start>> : e \in events \ events'}
<1>1. /\ checkpoint \in [Device -> State \cup {NoCheckpoint}] /\ events \subseteq Event
      /\ forgotten \subseteq Device \X Time /\ TypeOK
  BY DEF PromiseInv, TypeOK
<1>2. /\ events' = {e \in events : e.start >= cutoff} /\ forgotten' = forgotten \cup G
      /\ UNCHANGED <<checkpoint, samples, replay, log>>
      /\ \A d \in Device : checkpoint[d] = NoCheckpoint => EventsFor(d) = {}
  BY DEF Cleanup
<1>3. \A e \in events : e.start \in Nat /\ e.device \in Device /\ cutoff \in Nat
  BY <1>1, TimeIsNat DEF Event
<1>4. \A d \in Device : EventsFor(d)' = {e \in EventsFor(d) : e.start >= cutoff}
  BY <1>2 DEF EventsFor
<1>5. ASSUME NEW d \in Device PROVE Loaded(d)' = Loaded(d) /\ Loaded(d).low < 2
  <2>1. CASE checkpoint[d] = NoCheckpoint
    <3>1. EventsFor(d) = {} /\ EventsFor(d)' = {}
      BY <1>2, <1>4, <2>1
    <3>2. Adopted(d) = Fresh /\ Adopted(d)' = Fresh
      BY <3>1 DEF Adopted
    <3> QED BY <1>2, <2>1, <3>2 DEF Loaded, Fresh
  <2>2. CASE checkpoint[d] # NoCheckpoint
    BY <1>2, <2>2 DEF Loaded, PromiseInv
  <2> QED BY <2>1, <2>2
<1>6. ASSUME NEW d \in Device
      PROVE  Follows(d, Loaded(d)', log'[d], EventsFor(d)', forgotten')
  <2>1. Follows(d, Loaded(d), log[d], EventsFor(d), forgotten)
    BY DEF PromiseInv
  <2>2. \A e \in EventsFor(d) : e.start <= Loaded(d).last /\ Loaded(d).last \in Nat
    BY <2>1, RecorderAssumption DEF Follows, State
  <2>3. ASSUME NEW g \in G, g[1] = d PROVE g[2] \in 0..Loaded(d).last /\ g[2] < cutoff
    <3>1. PICK e \in events \ events' : g = <<e.device, e.start>>
      OBVIOUS
    <3>2. e \in EventsFor(d) /\ g[2] = e.start
      BY <2>3, <3>1 DEF EventsFor
    <3> QED BY <1>2, <1>3, <2>2, <3>1, <3>2
  <2>4. \A e \in EventsFor(d) : e.start < cutoff => <<d, e.start>> \in G
    BY <1>2, <1>3 DEF EventsFor
  <2> HIDE DEF G
  <2>5. Follows(d, Loaded(d), log[d], EventsFor(d)', forgotten \cup G)
    <3>1. cutoff \in Nat /\ Loaded(d).low < 2
      BY <1>5, TimeIsNat
    <3>2. \A g \in G : g[1] = d => g[2] \in 0..Loaded(d).last /\ g[2] < cutoff
      BY <2>3
    <3> QED BY <1>4, <2>1, <2>4, <3>1, <3>2, ForgetFollows
  <2> QED BY <1>2, <1>5, <2>5
<1>7. TypeOK'
  <2>1. G \subseteq Device \X Time
    BY <1>1 DEF Event
  <2> HIDE DEF G
  <2> QED BY <1>1, <1>2, <2>1 DEF TypeOK
<1>8. PromiseInv'
  BY <1>2, <1>6, <1>7 DEF PromiseInv
<1>9. Settled = events
  <2>1. \A e \in events : checkpoint[e.device] # NoCheckpoint
    BY <1>2, <1>3 DEF EventsFor
  <2> QED BY <2>1 DEF Settled
<1>10. events \ events' = {x \in Settled : x.start < cutoff}
  BY <1>2, <1>3, <1>9
<1> QED BY <1>2, <1>8, <1>10

(***************************************************************************)
(* Every step of the recorder is a step of the abstract log, or none.      *)
(***************************************************************************)
LEMMA SettledNext == PromiseInv' => Settled' = Promise!Remembered(log', forgotten')
<1>1. PromiseInv' => (Settled = Promise!Remembered(log, forgotten))'
  BY SettledIs, PTL
<1> QED BY <1>1

\* A reading, live or replayed.
LEMMA ReadingRefines ==
    ASSUME PromiseInv, HistoryWaits, NEW d \in Device, NEW o \in Binding, NEW at \in Time,
           NEW high \in BOOLEAN, Record(d, o, at, high),
           replay' \subseteq Sample, UNCHANGED forgotten
    PROVE  PromiseInv' /\ [Promise!Next]_<<log, forgotten, Settled>>
<1>1. CASE Stale(d, at)
  <2>1. UNCHANGED <<checkpoint, events, samples, log, forgotten>>
    BY <1>1 DEF Record
  <2> QED BY <2>1, QuietKeeps
<1>2. CASE ~Stale(d, at)
  <2> DEFINE r == Read(Loaded(d), o, at, high)
  <2>1. /\ PromiseInv' /\ r \in Reading /\ r.at = at
        /\ log' = [log EXCEPT ![d] = Append(@, r)]
        /\ \A i \in DOMAIN log[d] : log[d][i].at < at
    BY <1>2, RecordKeeps DEF Read
  <2> HIDE DEF r
  <2>2. Settled' = Promise!Remembered(log', forgotten)
    BY <2>1, SettledNext
  <2>3. Promise!Accept(d, r)
    BY <2>1, <2>2 DEF Promise!Accept
  <2> QED BY <2>1, <2>3 DEF Promise!Next, Reading
<1> QED BY <1>1, <1>2

LEMMA StepRefines ==
    ASSUME PromiseInv, [Next /\ HistoryWaits]_recorder
    PROVE  PromiseInv' /\ [Promise!Next]_<<log, forgotten, Settled>>
<1>1. samples \subseteq Sample /\ replay \subseteq Sample
  BY DEF PromiseInv, TypeOK
<1>2. ASSUME HistoryWaits, NEW d \in Device, NEW o \in Outlet, NEW at \in Time,
             NEW high \in BOOLEAN, Live(d, o, at, high)
      PROVE  PromiseInv' /\ [Promise!Next]_<<log, forgotten, Settled>>
  BY <1>1, <1>2, ReadingRefines DEF Live, Binding
<1>3. ASSUME HistoryWaits, NEW x \in replay, Replay(x)
      PROVE  PromiseInv' /\ [Promise!Next]_<<log, forgotten, Settled>>
  <2>1. x.device \in Device /\ x.at \in Time /\ x.high \in BOOLEAN /\ NoOutlet \in Binding
    BY <1>1 DEF Sample, Binding
  <2> QED BY <1>1, <1>3, <2>1, ReadingRefines DEF Replay
<1>4. ASSUME NEW d \in Device, ReplayFails(d)
      PROVE  PromiseInv' /\ [Promise!Next]_<<log, forgotten, Settled>>
  BY <1>1, <1>4, QuietKeeps DEF ReplayFails
<1>5. ASSUME NEW now \in Time, Boot(Device, now)
      PROVE  PromiseInv' /\ [Promise!Next]_<<log, forgotten, Settled>>
  BY <1>1, <1>5, QuietKeeps DEF Boot
<1>6. ASSUME NEW cutoff \in Time, Cleanup(cutoff)
      PROVE  PromiseInv' /\ [Promise!Next]_<<log, forgotten, Settled>>
  <2>1. /\ PromiseInv'
        /\ forgotten' = forgotten \cup
             {<<e.device, e.start>> : e \in {x \in Settled : x.start < cutoff}}
    BY <1>6, CleanupKeeps
  <2>2. UNCHANGED log
    BY <1>6 DEF Cleanup
  <2>3. Settled' = Promise!Remembered(log, forgotten')
    BY <2>1, <2>2, SettledNext
  <2>4. Promise!Forget(cutoff)
    BY <2>1, <2>2, <2>3 DEF Promise!Forget
  <2> QED BY <2>1, <2>4 DEF Promise!Next
<1>7. CASE UNCHANGED recorder
  BY <1>1, <1>7, QuietKeeps DEF recorder
<1> QED BY <1>2, <1>3, <1>4, <1>5, <1>6, <1>7 DEF Next

(***************************************************************************)
(* The initial states.  A history is computed one reading at a time.       *)
(***************************************************************************)
LEMMA NoEventsAtFirst ==
    /\ <<>> \in Seq(Reading) /\ HasLasts(<<>>)
    /\ \A d : Promise!EventsOf(d, <<>>) = {}
BY DEF HasLasts, Promise!EventsOf

Old(i, high) == [at |-> i, outlet |-> NoOutlet, high |-> high]

\* The log of an older program: a high reading, a low one, and another low one.
LEMMA OneReading ==
    ASSUME NEW d, NEW r \in Reading, r.high
    PROVE  LET l == Append(<<>>, r)
           IN /\ l \in Seq(Reading) /\ Len(l) = 1 /\ l[1] = r /\ HasLasts(l)
              /\ Promise!Active(l, 1)
              /\ Promise!EventsOf(d, l) = {NewEvent(d, r.at)}
<1> DEFINE e == <<>>
           l == Append(e, r)
<1>1. e \in Seq(Reading) /\ Len(e) = 0 /\ HasLasts(e) /\ Promise!EventsOf(d, e) = {}
  BY NoEventsAtFirst
<1> HIDE DEF e
<1>2. l \in Seq(Reading) /\ Len(l) = 1 /\ l[1] = r
  BY <1>1, AppendReads
<1>3. HasLasts(l)
  BY <1>1, LastsAppend
<1>4. Promise!Active(l, 1) /\ Promise!Begins(l, 1)
  BY <1>2 DEF Promise!Active, Promise!Begins, Promise!Continues
<1>5. Promise!EventsOf(d, l) =
          {Extended(e, r, x) : x \in Promise!EventsOf(d, e)}
          \cup (IF Promise!Begins(l, Len(e) + 1) THEN {NewEvent(d, r.at)} ELSE {})
  BY <1>1, EventsAppend
<1> QED BY <1>1, <1>2, <1>3, <1>4, <1>5 DEF e

\* A low reading after a log that ends in an event of its outlet, which is the only
\* one: the event goes on after a high reading, and is over after a low one.
LEMMA LowReading ==
    ASSUME NEW d, NEW l \in Seq(Reading), Len(l) > 0, HasLasts(l), Promise!Active(l, Len(l)),
           NEW at, Promise!EventsOf(d, l) = {NewEvent(d, at)},
           NEW r \in Reading, ~r.high, r.outlet = l[Len(l)].outlet
    PROVE  LET m == Append(l, r)
           IN /\ m \in Seq(Reading) /\ Len(m) = Len(l) + 1 /\ HasLasts(m)
              /\ m[Len(m)] = r /\ \A i \in 1..Len(l) : m[i] = l[i]
              /\ Promise!Active(m, Len(m)) <=> l[Len(l)].high
              /\ l[Len(l)].high => Promise!EventsOf(d, m) = {NewEvent(d, at)}
              /\ ~l[Len(l)].high => Promise!EventsOf(d, m) =
                                      {[device |-> d, start |-> at, end |-> r.at]}
<1> DEFINE m == Append(l, r)
           n == Len(l)
<1>0. n \in Nat \ {0}
  OBVIOUS
<1>1. m \in Seq(Reading) /\ Len(m) = n + 1 /\ m[n + 1] = r /\ \A i \in 1..n : m[i] = l[i]
  BY AppendReads
<1>2. HasLasts(m)
  BY LastsAppend
<1>3. m[n] = l[n] /\ (n + 1) - 1 = n /\ n + 1 > 1 /\ Promise!SameOutlet(l[n], r)
  BY <1>0, <1>1 DEF Promise!SameOutlet
<1>4. Promise!Active(m, n) <=> Promise!Active(l, n)
  BY <1>0, AppendKeeps
<1>a. Promise!Active(l, n)
  OBVIOUS
<1> HIDE DEF m, n
<1>5. Promise!Active(m, n + 1) <=> l[n].high
  BY <1>0, <1>1, <1>3 DEF Promise!Active
<1>6. Promise!Continues(m, n + 1) <=> l[n].high
  BY <1>0, <1>1, <1>a, <1>3, <1>4, <1>5 DEF Promise!Continues
<1>7. ~Promise!Begins(m, n + 1)
  BY <1>5, <1>6 DEF Promise!Begins
<1>8. Promise!EventsOf(d, m) = {Extended(l, r, x) : x \in {NewEvent(d, at)}}
  <2>1. Promise!EventsOf(d, m) =
            {Extended(l, r, x) : x \in Promise!EventsOf(d, l)}
            \cup (IF Promise!Begins(m, n + 1) THEN {NewEvent(d, r.at)} ELSE {})
    BY EventsAppend DEF m, n
  <2> QED BY <1>7, <2>1
<1>9. Extended(l, r, NewEvent(d, at)) = IF l[n].high THEN NewEvent(d, at)
                                       ELSE [device |-> d, start |-> at, end |-> r.at]
  <2>1. Extended(l, r, NewEvent(d, at)) =
            IF NewEvent(d, at).end # Open \/ Promise!Continues(m, n + 1) THEN NewEvent(d, at)
            ELSE [NewEvent(d, at) EXCEPT !.end = IF Promise!SameOutlet(l[n], r) THEN r.at ELSE l[n].at]
    BY DEF Extended, m, n
  <2>2. NewEvent(d, at).end = Open
    BY DEF NewEvent
  <2>3. [NewEvent(d, at) EXCEPT !.end = r.at] = [device |-> d, start |-> at, end |-> r.at]
    BY DEF NewEvent
  <2> QED BY <1>3, <1>6, <2>1, <2>2, <2>3
<1> QED BY <1>1, <1>2, <1>5, <1>8, <1>9 DEF m, n

LEMMA OldIs ==
    ASSUME NEW i \in 1..MaxTime, NEW high \in BOOLEAN
    PROVE  /\ Old(i, high) \in Reading /\ Old(i, high).at = i
           /\ Old(i, high).outlet = NoOutlet /\ Old(i, high).high = high
BY DEF Old, Reading, Promise!Reading, Time

LEMMA HistoryIs ==
    ASSUME NEW h \in Histories, h # <<>>, NEW d
    PROVE  LET l == History(h)
               n == Len(h)
           IN /\ n \in 1..3 /\ n <= MaxTime /\ \A i \in 1..n : h[i] <=> i = 1
              /\ l \in Seq(Reading) /\ Len(l) = n /\ HasLasts(l)
              /\ \A i \in 1..n : l[i] = Old(i, i = 1)
              /\ Promise!Active(l, n) <=> n # 3
              /\ Promise!EventsOf(d, l) =
                    {[device |-> d, start |-> 1, end |-> IF n = 3 THEN 3 ELSE Open]}
<1> DEFINE r1 == Old(1, TRUE)
           r2 == Old(2, FALSE)
           r3 == Old(3, FALSE)
           l1 == Append(<<>>, r1)
           l2 == Append(l1, r2)
           l3 == Append(l2, r3)
<1>1. /\ h \in {<<TRUE>>, <<TRUE, FALSE>>, <<TRUE, FALSE, FALSE>>} /\ Len(h) <= MaxTime
      /\ MaxTime \in Nat
  BY RecorderAssumption DEF Histories
<1>2. /\ MaxTime >= 1
      /\ Len(h) >= 2 => MaxTime >= 2
      /\ Len(h) >= 3 => MaxTime >= 3
  BY <1>1
<1>3. 1 \in 1..MaxTime
  BY <1>1, <1>2
<1>4. r1 \in Reading /\ r1.high = TRUE /\ r1.at = 1 /\ r1.outlet = NoOutlet
  BY <1>3, OldIs
<1> HIDE DEF r1, r2, r3
<1>5. /\ l1 \in Seq(Reading) /\ Len(l1) = 1 /\ l1[1] = r1 /\ HasLasts(l1)
      /\ Promise!Active(l1, 1)
      /\ Promise!EventsOf(d, l1) = {NewEvent(d, 1)}
  BY <1>4, OneReading
<1> HIDE DEF l1
<1>6. ASSUME MaxTime >= 2
      PROVE  /\ r2 \in Reading /\ ~r2.high /\ r2.outlet = NoOutlet
             /\ l2 \in Seq(Reading) /\ Len(l2) = 2 /\ HasLasts(l2)
             /\ l2[2] = r2 /\ l2[1] = r1
             /\ Promise!Active(l2, 2)
             /\ Promise!EventsOf(d, l2) = {NewEvent(d, 1)}
  <2>1. 2 \in 1..MaxTime
    BY <1>1, <1>6
  <2>2. r2 \in Reading /\ r2.high = FALSE /\ r2.outlet = NoOutlet
    BY <2>1, OldIs DEF r2
  <2>3. /\ r2 \in Reading /\ ~r2.high /\ r2.outlet = l1[Len(l1)].outlet
        /\ l1[Len(l1)].high /\ Len(l1) > 0 /\ Promise!Active(l1, Len(l1))
        /\ l1 \in Seq(Reading) /\ HasLasts(l1) /\ Promise!EventsOf(d, l1) = {NewEvent(d, 1)}
    <3>1. l1[Len(l1)] = r1 /\ Len(l1) > 0
      BY <1>5
    <3>2. Promise!Active(l1, Len(l1))
      BY <1>5
    <3> QED BY <1>4, <1>5, <2>2, <3>1, <3>2
  <2>4. /\ l2 \in Seq(Reading) /\ Len(l2) = Len(l1) + 1 /\ HasLasts(l2)
        /\ l2[Len(l2)] = r2 /\ \A i \in 1..Len(l1) : l2[i] = l1[i]
        /\ Promise!Active(l2, Len(l2))
        /\ Promise!EventsOf(d, l2) = {NewEvent(d, 1)}
    BY <2>3, LowReading
  <2> QED BY <1>5, <2>2, <2>3, <2>4
<1> HIDE DEF l2
<1>7. ASSUME MaxTime >= 3
      PROVE  /\ l3 \in Seq(Reading) /\ Len(l3) = 3 /\ HasLasts(l3)
             /\ l3[3] = r3 /\ l3[2] = r2 /\ l3[1] = r1
             /\ ~Promise!Active(l3, 3)
             /\ Promise!EventsOf(d, l3) = {[device |-> d, start |-> 1, end |-> 3]}
  <2>1. 3 \in 1..MaxTime /\ MaxTime >= 2
    BY <1>1, <1>7
  <2>2. r3 \in Reading /\ r3.high = FALSE /\ r3.outlet = NoOutlet /\ r3.at = 3
    BY <2>1, OldIs DEF r3
  <2>3. /\ ~r2.high /\ r2.outlet = NoOutlet
        /\ l2 \in Seq(Reading) /\ Len(l2) = 2 /\ HasLasts(l2)
        /\ l2[2] = r2 /\ l2[1] = r1
        /\ Promise!Active(l2, 2)
        /\ Promise!EventsOf(d, l2) = {NewEvent(d, 1)}
    BY <1>6, <2>1
  <2>4. /\ r3 \in Reading /\ ~r3.high /\ r3.outlet = l2[Len(l2)].outlet
        /\ ~l2[Len(l2)].high /\ Len(l2) > 0 /\ Promise!Active(l2, Len(l2))
        /\ l2 \in Seq(Reading) /\ HasLasts(l2) /\ Promise!EventsOf(d, l2) = {NewEvent(d, 1)}
    <3>1. l2[Len(l2)] = r2 /\ Promise!Active(l2, Len(l2)) /\ Len(l2) > 0
      BY <2>3
    <3> QED BY <2>2, <2>3, <3>1
  <2>5. /\ l3 \in Seq(Reading) /\ Len(l3) = Len(l2) + 1 /\ HasLasts(l3)
        /\ l3[Len(l3)] = r3 /\ \A i \in 1..Len(l2) : l3[i] = l2[i]
        /\ ~Promise!Active(l3, Len(l3))
        /\ Promise!EventsOf(d, l3) = {[device |-> d, start |-> 1, end |-> r3.at]}
    BY <2>4, LowReading
  <2> QED BY <2>2, <2>3, <2>4, <2>5
<1> HIDE DEF l3
<1>8. CASE h = <<TRUE>>
  <2>1. Len(h) = 1 /\ h[1] = TRUE /\ 1..1 = {1}
    BY <1>8
  <2>2. History(h) = [i \in 1..1 |-> Old(i, h[i])]
    BY <2>1 DEF History, Old
  <2>3. \A i \in 1..1 : l1[i] = Old(i, h[i]) /\ Old(i, h[i]) = Old(i, i = 1)
    BY <1>5, <2>1 DEF r1
  <2>4. l1 = [i \in 1..1 |-> l1[i]]
    BY <1>5
  <2>5. History(h) = l1
    BY <2>2, <2>3, <2>4
  <2> QED BY <1>1, <1>5, <2>1, <2>3, <2>5 DEF NewEvent
<1>9. CASE h = <<TRUE, FALSE>>
  <2>1. Len(h) = 2 /\ h[1] = TRUE /\ h[2] = FALSE /\ 1..2 = {1, 2}
    BY <1>9
  <2>0. MaxTime >= 2
    BY <1>2, <2>1
  <2>2. History(h) = [i \in 1..2 |-> Old(i, h[i])]
    BY <2>1 DEF History, Old
  <2>6. h[1] = (1 = 1) /\ h[2] = (2 = 1)
    BY <2>1
  <2>3. \A i \in 1..2 : l2[i] = Old(i, h[i]) /\ Old(i, h[i]) = Old(i, i = 1)
    BY <1>6, <2>0, <2>1, <2>6 DEF r1, r2
  <2>4. l2 = [i \in 1..2 |-> l2[i]]
    BY <1>6, <2>0
  <2>5. History(h) = l2
    BY <2>2, <2>3, <2>4
  <2> QED BY <1>1, <1>6, <2>0, <2>1, <2>3, <2>5 DEF NewEvent
<1>10. CASE h = <<TRUE, FALSE, FALSE>>
  <2>1. Len(h) = 3 /\ h[1] = TRUE /\ h[2] = FALSE /\ h[3] = FALSE /\ 1..3 = {1, 2, 3}
    BY <1>10
  <2>0. MaxTime >= 3
    BY <1>2, <2>1
  <2>2. History(h) = [i \in 1..3 |-> Old(i, h[i])]
    BY <2>1 DEF History, Old
  <2>6. h[1] = (1 = 1) /\ h[2] = (2 = 1) /\ h[3] = (3 = 1)
    BY <2>1
  <2>3. \A i \in 1..3 : l3[i] = Old(i, h[i]) /\ Old(i, h[i]) = Old(i, i = 1)
    BY ZenonT(40), <1>7, <2>0, <2>1, <2>6 DEF r1, r2, r3
  <2>4. l3 = [i \in 1..3 |-> l3[i]]
    BY <1>7, <2>0
  <2>5. History(h) = l3
    BY <2>2, <2>3, <2>4
  <2> QED BY <1>1, <1>7, <2>0, <2>1, <2>3, <2>5
<1> QED BY <1>1, <1>8, <1>9, <1>10

\* The checkpoint that is adopted with such a history, and the event it is adopted with.
OldEvent(d, n, caughtUp) ==
    [device |-> d, start |-> 1, end |-> IF n = 3 /\ caughtUp THEN 3 ELSE Open]

OldState(n, caughtUp) ==
    [last |-> n, event |-> IF n = 3 /\ caughtUp THEN NoEvent ELSE 1,
     low |-> IF n = 3 /\ caughtUp THEN 0 ELSE n - 1, binding |-> NoOutlet]

LEMMA OldFollows ==
    ASSUME NEW d \in Device, NEW h \in Histories, h # <<>>, NEW caughtUp \in BOOLEAN
    PROVE  LET n == Len(h)
           IN Follows(d, OldState(n, caughtUp), History(h), {OldEvent(d, n, caughtUp)}, {})
<1> DEFINE n == Len(h)
           l == History(h)
           s == OldState(n, caughtUp)
           e == OldEvent(d, n, caughtUp)
           over == n = 3 /\ caughtUp
<1>1. /\ n \in 1..3 /\ n <= MaxTime
      /\ l \in Seq(Reading) /\ Len(l) = n /\ HasLasts(l)
      /\ \A i \in 1..n : l[i] = Old(i, i = 1)
      /\ Promise!Active(l, n) <=> n # 3
      /\ Promise!EventsOf(d, l) =
            {[device |-> d, start |-> 1, end |-> IF n = 3 THEN 3 ELSE Open]}
  BY HistoryIs
<1> HIDE DEF n, l
<1>2. /\ MaxTime \in Nat /\ n \in 0..MaxTime /\ 1 \in 0..MaxTime /\ 1 \in Time
      /\ 3 # Open
      /\ (n = 3 => 3 \in Time)
  BY <1>1, RecorderAssumption DEF Time
<1>3. /\ s.last = n /\ s.binding = NoOutlet
      /\ s.event = IF over THEN 0 ELSE 1
      /\ s.low = IF over THEN 0 ELSE n - 1
  BY DEF OldState, NoEvent
<1>4. s \in State /\ s.event <= s.last
  <2>1. s.last \in 0..MaxTime /\ s.event \in 0..MaxTime /\ s.low \in 0..2 /\ s.binding \in Binding
    BY <1>1, <1>2, <1>3 DEF Time, Binding
  <2>2. s = [last |-> s.last, event |-> s.event, low |-> s.low, binding |-> s.binding]
    BY DEF OldState
  <2>3. s \in State
    BY <2>1, <2>2 DEF State
  <2> QED BY <1>1, <1>3, <2>3
<1>5. e.device = d /\ e.start = 1 /\ e.end = (IF over THEN 3 ELSE Open)
  BY DEF OldEvent
<1>6. e \in Event
  <2>1. e.device \in Device /\ e.start \in Time /\ e.end \in Time \cup {Open}
    BY <1>2, <1>5
  <2>2. e = [device |-> e.device, start |-> e.start, end |-> e.end]
    BY DEF OldEvent
  <2> QED BY <2>1, <2>2 DEF Event
<1>7. AtEnd(s, l)
  <2>1. \A i \in 1..n : l[i].at = i /\ l[i].outlet = NoOutlet /\ (l[i].high <=> i = 1)
    <3> TAKE i \in 1..n
    <3>1. l[i] = Old(i, i = 1) /\ i \in 1..MaxTime /\ (i = 1) \in BOOLEAN
      BY <1>1, <1>2
    <3> QED BY <3>1, OldIs
  <2>2. l[n].at = n /\ l[n].outlet = NoOutlet /\ (l[n].high <=> n = 1)
    BY <1>1, <2>1
  <2>3. \A i \in 1..n : l[i].at <= s.last
    BY <1>1, <1>3, <2>1
  <2>4. IF s.low = 2 THEN s.event # 0 /\ ~Promise!Active(l, n)
        ELSE /\ Promise!Active(l, n) <=> s.event # 0
             /\ s.low = IF s.event = 0 \/ l[n].high THEN 0 ELSE 1
    BY <1>1, <1>3, <2>2
  <2> QED BY <1>1, <1>3, <2>2, <2>3, <2>4 DEF AtEnd, NoEvent
<1>8. {Settle(s, x) : x \in {e}} = Kept(d, l, {})
  <2>1. Settle(s, e) = [device |-> d, start |-> 1, end |-> IF n = 3 THEN 3 ELSE Open]
    BY <1>1, <1>2, <1>3 DEF Settle, OldEvent
  <2>2. Kept(d, l, {}) = Promise!EventsOf(d, l)
    BY DEF Kept
  <2> QED BY <1>1, <2>1, <2>2
<1>9. l # <<>>
  <2>1. Len(l) # 0
    BY <1>1
  <2> QED BY <2>1
<1>10. e.start <= s.last /\ (e.end = Open => e.start = s.event)
  BY <1>1, <1>2, <1>3, <1>5
<1> HIDE DEF s, e, over
<1> QED BY <1>1, <1>4, <1>5, <1>6, <1>7, <1>8, <1>9, <1>10 DEF Follows, n, l, s, e

LEMMA NothingFollows == ASSUME NEW d PROVE Follows(d, Fresh, <<>>, {}, {})
<1>1. Fresh \in State /\ Fresh.event <= Fresh.last
  BY RecorderAssumption DEF Fresh, State, NoEvent, Binding
<1>2. Kept(d, <<>>, {}) = {}
  BY NoEventsAtFirst DEF Kept
<1> QED BY <1>1, <1>2, NoEventsAtFirst DEF Follows

LEMMA NewestIs ==
    ASSUME NEW S, NEW x \in S, x.at \in Nat, \A y \in S \ {x} : y.at \in Nat /\ y.at < x.at
    PROVE  Newest(S) = x
<1>1. \A y \in S : y.at <= x.at
  OBVIOUS
<1>2. \A z \in S : (\A y \in S : y.at <= z.at) => z = x
  OBVIOUS
<1> QED BY <1>1, <1>2 DEF Newest

LEMMA AdoptedIs ==
    ASSUME NEW d, NEW n \in 1..3, NEW caughtUp \in BOOLEAN,
           EventsFor(d) = {OldEvent(d, n, caughtUp)},
           SamplesFor(d) = {[device |-> d, at |-> i, high |-> i = 1] : i \in 1..n}
    PROVE  Adopted(d) = OldState(n, caughtUp)
<1> DEFINE x(i) == [device |-> d, at |-> i, high |-> i = 1]
           e == OldEvent(d, n, caughtUp)
           over == n = 3 /\ caughtUp
<1>1. \A i \in 1..3 : x(i).at = i /\ (x(i).high <=> i = 1)
  OBVIOUS
<1>2. \A i, j \in 1..3 : x(i) = x(j) => i = j
  BY <1>1
<1>3. SamplesFor(d) = {x(i) : i \in 1..n} /\ SamplesFor(d) # {}
  <2>1. SamplesFor(d) = {x(i) : i \in 1..n}
    OBVIOUS
  <2>2. 1 \in 1..n
    OBVIOUS
  <2> HIDE DEF x
  <2> QED BY <2>1, <2>2
<1> HIDE DEF x
<1>4. ASSUME NEW k \in 1..n PROVE Newest({x(i) : i \in 1..k}) = x(k)
  <2>1. x(k) \in {x(i) : i \in 1..k} /\ x(k).at \in Nat
    BY <1>1
  <2>2. \A y \in {x(i) : i \in 1..k} \ {x(k)} : y.at \in Nat /\ y.at < x(k).at
    BY <1>1
  <2> HIDE DEF x
  <2> QED BY <2>1, <2>2, NewestIs
<1>5. Newest(SamplesFor(d)) = x(n)
  BY <1>3, <1>4
<1>6. TrailingLow(d) = n - 1
  <2>1. SamplesFor(d) \ {x(n)} = {x(i) : i \in 1..(n - 1)}
    BY <1>2, <1>3
  <2>2. n > 1 => /\ Newest(SamplesFor(d) \ {x(n)}) = x(n - 1)
                 /\ SamplesFor(d) \ {x(n)} # {}
    BY <1>4, <2>1
  <2>3. x(n).high <=> n = 1
    BY <1>1
  <2>4. n > 1 => (x(n - 1).high <=> n = 2)
    BY <1>1
  <2> QED BY <1>3, <1>5, <2>2, <2>3, <2>4 DEF TrailingLow
<1>7. (CHOOSE z \in EventsFor(d) : \A y \in EventsFor(d) : y.start <= z.start) = e
  <2>1. EventsFor(d) = {e} /\ e.start <= e.start
    BY DEF OldEvent
  <2> HIDE DEF e
  <2> QED BY <2>1
<1>8. e.start = 1 /\ e.end = (IF over THEN 3 ELSE Open) /\ 3 # Open /\ EventsFor(d) # {}
  BY RecorderAssumption DEF OldEvent
<1>9. Adopted(d) = IF e.end = Open THEN AdoptOpen(d, e) ELSE [Fresh EXCEPT !.last = e.end]
  BY <1>7, <1>8 DEF Adopted
<1>10. AdoptOpen(d, e) = [last |-> n, event |-> 1, low |-> n - 1, binding |-> NoOutlet]
  <2>1. Newest(SamplesFor(d)).at = n
    BY <1>1, <1>5
  <2> HIDE DEF e
  <2>2. AdoptOpen(d, e) = [Fresh EXCEPT !.event = 1, !.last = n, !.low = n - 1]
    BY <1>3, <1>6, <1>8, <2>1, Zenon DEF AdoptOpen
  <2> QED BY <2>2 DEF Fresh
<1> HIDE DEF e
<1> QED BY <1>8, <1>9, <1>10 DEF OldState, Fresh, NoEvent

LEMMA SameEvents == \A d, l : Log!EventsOf(d, l) = Promise!EventsOf(d, l)
BY DEF Log!EventsOf, Promise!EventsOf, Log!Begins, Promise!Begins, Log!EndOf, Promise!EndOf,
       Log!LastOf, Promise!LastOf, Log!Max, Promise!Max, Log!Continues, Promise!Continues,
       Log!Active, Promise!Active, Log!SameOutlet, Promise!SameOutlet

\* A device without a checkpoint has what an older program left it, or less: one
\* event at most, and samples of its first three instants.
Small(d) ==
    /\ \A e, f \in EventsFor(d) : e = f
    /\ \A x \in SamplesFor(d) : x.at <= 3

\* Before the program first ran: the histories of an older one, caught up with or not.
LEMMA OldHistoryInv == OldHistory => PromiseInv /\ \A d \in Device : Small(d)
<1> SUFFICES ASSUME NEW h \in [Device -> Histories], NEW caughtUp \in BOOLEAN,
                    checkpoint = [d \in Device |-> NoCheckpoint],
                    log = [d \in Device |-> History(h[d])],
                    events = UNION {Recorded(d, log[d], caughtUp) : d \in Device},
                    samples = UNION {{[device |-> d, at |-> log[d][i].at,
                                       high |-> log[d][i].high] :
                                          i \in DOMAIN log[d]} : d \in Device},
                    replay = {}, forgotten = {}
             PROVE  PromiseInv /\ \A d \in Device : Small(d)
  BY DEF OldHistory
<1> DEFINE S(d) == {[device |-> d, at |-> log[d][i].at, high |-> log[d][i].high] :
                       i \in DOMAIN log[d]}
           R(d) == Recorded(d, log[d], caughtUp)
<1>1. \A d \in Device : \A e \in R(d) : e.device = d
  <2> TAKE d \in Device
  <2>1. \A f \in Promise!EventsOf(d, log[d]) : f.device = d /\ [f EXCEPT !.end = Open].device = d
    BY DEF Promise!EventsOf
  <2> QED BY <2>1, SameEvents DEF Recorded
<1>2. \A d \in Device : \A x \in S(d) : x.device = d
  OBVIOUS
<1>3. events = UNION {R(d) : d \in Device} /\ samples = UNION {S(d) : d \in Device}
  OBVIOUS
<1> HIDE DEF R, S
<1>4. \A d \in Device : EventsFor(d) = R(d) /\ SamplesFor(d) = S(d)
  BY <1>1, <1>2, <1>3 DEF EventsFor, SamplesFor
<1>5. ASSUME NEW d \in Device
      PROVE  /\ Follows(d, Loaded(d), log[d], EventsFor(d), forgotten)
             /\ Small(d)
             /\ S(d) \subseteq Sample
             /\ log[d] \in Seq(Reading)
  <2>1. Loaded(d) = Adopted(d) /\ log[d] = History(h[d]) /\ h[d] \in Histories
    BY DEF Loaded
  <2>2. CASE h[d] = <<>>
    <3>1. log[d] = <<>> /\ DOMAIN log[d] = {}
      BY <2>1, <2>2 DEF History
    <3>2. R(d) = {} /\ S(d) = {}
      BY <3>1, SameEvents, NoEventsAtFirst DEF R, S, Recorded
    <3>3. Loaded(d) = Fresh /\ EventsFor(d) = {}
      BY <1>4, <2>1, <3>2 DEF Adopted
    <3>4. Small(d)
      BY <1>4, <3>2 DEF Small
    <3> QED BY <3>1, <3>2, <3>3, <3>4, NothingFollows
  <2>3. CASE h[d] # <<>>
    <3> DEFINE n == Len(h[d])
               E == [device |-> d, start |-> 1, end |-> IF n = 3 THEN 3 ELSE Open]
    <3>1. /\ n \in 1..3 /\ n <= MaxTime
          /\ log[d] \in Seq(Reading) /\ Len(log[d]) = n
          /\ \A i \in 1..n : log[d][i] = Old(i, i = 1)
          /\ Promise!EventsOf(d, log[d]) = {E}
      BY <2>1, <2>3, HistoryIs
    <3> HIDE DEF n
    <3>2. R(d) = {OldEvent(d, n, caughtUp)}
      <4>1. R(d) = {IF caughtUp THEN E ELSE [E EXCEPT !.end = Open]}
        BY <3>1, SameEvents DEF R, Recorded
      <4>2. (IF caughtUp THEN E ELSE [E EXCEPT !.end = Open]) = OldEvent(d, n, caughtUp)
        BY DEF OldEvent
      <4> QED BY <4>1, <4>2
    <3>3. S(d) = {[device |-> d, at |-> i, high |-> i = 1] : i \in 1..n} /\ S(d) \subseteq Sample
      <4>1. DOMAIN log[d] = 1..n
        BY <3>1
      <4>2. \A i \in 1..n : /\ log[d][i].at = i /\ log[d][i].high = (i = 1)
                            /\ i \in Time /\ (i = 1) \in BOOLEAN
        <5> TAKE i \in 1..n
        <5>1. i \in 1..MaxTime /\ (i = 1) \in BOOLEAN
          BY <3>1, RecorderAssumption
        <5>2. Old(i, i = 1).at = i /\ Old(i, i = 1).high = (i = 1)
          BY <5>1, OldIs
        <5> QED BY <3>1, <5>1, <5>2 DEF Time
      <4>3. S(d) = {[device |-> d, at |-> i, high |-> i = 1] : i \in 1..n}
        BY <4>1, <4>2 DEF S
      <4>4. ASSUME NEW i \in DOMAIN log[d]
            PROVE  [device |-> d, at |-> log[d][i].at, high |-> log[d][i].high] \in Sample
        <5>1. log[d][i].at \in Time /\ log[d][i].high \in BOOLEAN
          BY <4>1, <4>2
        <5> QED BY <5>1 DEF Sample
      <4> QED BY <4>3, <4>4 DEF S
    <3>4. Adopted(d) = OldState(n, caughtUp)
      BY <1>4, <3>1, <3>2, <3>3, AdoptedIs
    <3>5. Follows(d, OldState(n, caughtUp), log[d], {OldEvent(d, n, caughtUp)}, {})
      BY <2>1, <2>3, OldFollows DEF n
    <3>6. Follows(d, Loaded(d), log[d], EventsFor(d), forgotten)
      <4>1. /\ Loaded(d) = OldState(n, caughtUp) /\ EventsFor(d) = {OldEvent(d, n, caughtUp)}
            /\ forgotten = {}
        BY <1>4, <2>1, <3>2, <3>4
      <4> QED BY <3>5, <4>1, Zenon
    <3>7. Small(d)
      <4>1. \A x \in S(d) : x.at <= 3
        BY <3>1, <3>3
      <4> QED BY <1>4, <3>2, <4>1 DEF Small
    <3> QED BY <3>1, <3>3, <3>6, <3>7
  <2> QED BY <2>2, <2>3
<1>6. TypeOK
  <2>1. events \subseteq Event
    <3>1. \A d \in Device : R(d) \subseteq Event
      BY <1>4, <1>5 DEF Follows
    <3> QED BY <1>3, <3>1
  <2>2. samples \subseteq Sample
    BY <1>3, <1>5
  <2>3. log \in [Device -> Seq(Reading)]
    BY <1>5
  <2> QED BY <2>1, <2>2, <2>3 DEF TypeOK, Reading, Log!Reading, Promise!Reading
<1> QED BY <1>5, <1>6 DEF PromiseInv

\* Or its samples alone, which say nothing yet: no event was ever started.
LEMMA OldSamplesInv == OldSamples => PromiseInv /\ \A d \in Device : Small(d)
<1> SUFFICES ASSUME NEW h \in [Device -> Histories],
                    checkpoint = [d \in Device |-> NoCheckpoint],
                    log = [d \in Device |-> <<>>], events = {},
                    samples = UNION {{[device |-> d, at |-> i, high |-> h[d][i]] :
                                          i \in DOMAIN h[d]} : d \in Device},
                    replay = {}, forgotten = {}
             PROVE  PromiseInv /\ \A d \in Device : Small(d)
  BY DEF OldSamples
<1>1. ASSUME NEW d \in Device
      PROVE  Follows(d, Loaded(d), log[d], EventsFor(d), forgotten) /\ EventsFor(d) = {}
  <2>1. EventsFor(d) = {} /\ log[d] = <<>>
    BY DEF EventsFor
  <2>2. Loaded(d) = Fresh
    BY <2>1 DEF Loaded, Adopted
  <2> QED BY <2>1, <2>2, NothingFollows
<1>2. ASSUME NEW d \in Device, NEW i \in DOMAIN h[d] PROVE i \in Time /\ i <= 3 /\ h[d][i] \in BOOLEAN
  <2>1. h[d] \in {<<>>, <<TRUE>>, <<TRUE, FALSE>>, <<TRUE, FALSE, FALSE>>}
        /\ Len(h[d]) <= MaxTime /\ MaxTime \in Nat
    BY RecorderAssumption DEF Histories
  <2>2. /\ DOMAIN h[d] = 1..Len(h[d]) /\ Len(h[d]) \in 0..3
        /\ \A j \in DOMAIN h[d] : h[d][j] \in BOOLEAN
    <3>1. CASE h[d] = <<>>
      BY <3>1
    <3>2. CASE h[d] = <<TRUE>>
      <4>1. Len(h[d]) = 1 /\ h[d][1] = TRUE
        BY <3>2
      <4>2. DOMAIN h[d] = 1..1 /\ 1..1 = {1}
        BY <3>2
      <4>3. \A j \in {1} : h[d][j] \in BOOLEAN
        BY <4>1, Zenon
      <4>4. Len(h[d]) \in 0..3
        BY <4>1
      <4> QED BY <4>1, <4>2, <4>3, <4>4, Zenon
    <3>3. CASE h[d] = <<TRUE, FALSE>>
      <4>1. Len(h[d]) = 2 /\ h[d][1] = TRUE /\ h[d][2] = FALSE
        BY <3>3
      <4>2. DOMAIN h[d] = 1..2 /\ 1..2 = {1, 2}
        BY <3>3
      <4>3. \A j \in {1, 2} : h[d][j] \in BOOLEAN
        BY <4>1, Zenon
      <4>4. Len(h[d]) \in 0..3
        BY <4>1
      <4> QED BY <4>1, <4>2, <4>3, <4>4, Zenon
    <3>4. CASE h[d] = <<TRUE, FALSE, FALSE>>
      <4>1. Len(h[d]) = 3 /\ h[d][1] = TRUE /\ h[d][2] = FALSE /\ h[d][3] = FALSE
        BY <3>4
      <4>2. DOMAIN h[d] = 1..3 /\ 1..3 = {1, 2, 3}
        BY <3>4
      <4>3. \A j \in {1, 2, 3} : h[d][j] \in BOOLEAN
        BY <4>1, Zenon
      <4>4. Len(h[d]) \in 0..3
        BY <4>1
      <4> QED BY <4>1, <4>2, <4>3, <4>4, Zenon
    <3> QED BY <2>1, <3>1, <3>2, <3>3, <3>4
  <2>3. i \in 1..Len(h[d])
    BY <2>2
  <2>4. h[d][i] \in BOOLEAN
    BY <2>2
  <2>5. i \in Time /\ i <= 3
    <3>1. Len(h[d]) \in 0..3 /\ Len(h[d]) <= MaxTime /\ MaxTime \in Nat
      BY <2>1, <2>2
    <3> QED BY <2>3, <3>1 DEF Time
  <2> QED BY <2>4, <2>5
<1>3. samples \subseteq Sample
  BY <1>2 DEF Sample
<1>4. log \in [Device -> Seq(Reading)]
  BY NoEventsAtFirst
<1>5. TypeOK
  BY <1>3, <1>4 DEF TypeOK, Reading, Log!Reading, Promise!Reading
<1>6. ASSUME NEW d \in Device PROVE Small(d)
  <2>1. \A x \in samples : x.at <= 3
    BY <1>2
  <2> QED BY <1>1, <2>1 DEF Small, SamplesFor
<1> QED BY <1>1, <1>5, <1>6 DEF PromiseInv

LEMMA PromiseAtFirst == Init => PromiseInv /\ \A d \in Device : Small(d)
BY OldHistoryInv, OldSamplesInv DEF Init

(***************************************************************************)
(* The recorder implements the abstract log.                               *)
(***************************************************************************)
LEMMA PromiseStarts == PromiseInv /\ forgotten = {} => Promise!Init
BY SettledIs DEF PromiseInv, TypeOK, Promise!Init, Reading, Log!Reading, Promise!Reading

LEMMA NothingForgotten == Init => forgotten = {}
BY DEF Init, OldHistory, OldSamples

\* Whatever is read, replayed, restarted and deleted, and in which order, the
\* events follow from the accepted readings, as long as the samples of a history
\* are not deleted before it is adopted.
THEOREM PromiseKept == Init /\ [][Next /\ HistoryWaits]_recorder => KeepsPromise
<1>1. Init => PromiseInv /\ Promise!Init
  BY PromiseAtFirst, PromiseStarts, NothingForgotten
<1>2. PromiseInv /\ [Next /\ HistoryWaits]_recorder
      => PromiseInv' /\ [Promise!Next]_<<log, forgotten, Settled>>
  BY StepRefines
<1> QED BY <1>1, <1>2, PTL DEF KeepsPromise, Promise!Spec

\* A device has its checkpoint with its first reading, and keeps it.
LEMMA RecordCheckpoint ==
    ASSUME PromiseInv, NEW x \in Device, NEW o \in Binding, NEW at \in Time,
           NEW high \in BOOLEAN, Record(x, o, at, high),
           NEW d \in Device, checkpoint'[d] = NoCheckpoint
    PROVE  /\ checkpoint[d] = NoCheckpoint
           /\ Device = {d} => UNCHANGED samples
           /\ EventsFor(d)' \subseteq EventsFor(d)
<1>1. CASE Stale(x, at)
  BY <1>1 DEF Record, EventsFor
<1>2. CASE ~Stale(x, at)
  <2> DEFINE s == Loaded(x)
             t == After(s, o, at, high)
  <2>1. /\ Follows(x, s, log[x], EventsFor(x), forgotten)
        /\ checkpoint \in [Device -> State \cup {NoCheckpoint}] /\ events \subseteq Event
    BY DEF PromiseInv, TypeOK
  <2>2. s \in State /\ s.event < at
    <3>1. s \in State /\ s.event <= s.last
      BY <2>1 DEF Follows
    <3>2. s.last \in Nat /\ s.event \in Nat /\ at \in Nat
      BY <3>1, RecorderAssumption DEF State, Time
    <3> QED BY <1>2, <3>1, <3>2 DEF Stale
  <2>3. t # NoCheckpoint
    BY <2>2, AfterIs, CheckpointAssumption
  <2>4. checkpoint' = [checkpoint EXCEPT ![x] = t] /\ events' = EventsAfter(x, s, o, at, high)
    BY <1>2 DEF Record
  <2>5. \A e \in EventsFor(x) : e.end = Open => e.start = s.event
    BY <2>1 DEF Follows
  <2> HIDE DEF s, t
  <2>6. x # d /\ checkpoint[d] = NoCheckpoint
    BY <2>1, <2>3, <2>4
  <2>7. EventsFor(d)' = EventsFor(d)
    <3>1. {e \in EventsAfter(x, s, o, at, high) : e.device = d} = EventsFor(d)
      BY <2>1, <2>2, <2>5, <2>6, EventsAfterIs
    <3> QED BY <2>4, <3>1 DEF EventsFor
  <2> QED BY <2>6, <2>7
<1> QED BY <1>1, <1>2

LEMMA CheckpointStays ==
    ASSUME PromiseInv, Next, NEW d \in Device, checkpoint'[d] = NoCheckpoint
    PROVE  /\ checkpoint[d] = NoCheckpoint
           /\ Device = {d} => UNCHANGED samples
           /\ events' \subseteq events \/ EventsFor(d)' \subseteq EventsFor(d)
<1>1. ASSUME NEW x \in Device, NEW o \in Binding, NEW at \in Time, NEW high \in BOOLEAN,
             Record(x, o, at, high)
      PROVE  /\ checkpoint[d] = NoCheckpoint
             /\ Device = {d} => UNCHANGED samples
             /\ EventsFor(d)' \subseteq EventsFor(d)
  BY <1>1, RecordCheckpoint
<1>2. ASSUME NEW x \in Device, NEW o \in Outlet, NEW at \in Time, NEW high \in BOOLEAN,
             Live(x, o, at, high)
      PROVE  Record(x, o, at, high) /\ o \in Binding
  BY <1>2 DEF Live, Binding
<1>3. ASSUME NEW x \in replay, Replay(x)
      PROVE  /\ Record(x.device, NoOutlet, x.at, x.high) /\ NoOutlet \in Binding
             /\ x.device \in Device /\ x.at \in Time /\ x.high \in BOOLEAN
  <2>1. x \in Sample
    BY DEF PromiseInv, TypeOK
  <2> QED BY <1>3, <2>1 DEF Replay, Binding, Sample
<1>4. ASSUME UNCHANGED <<checkpoint, samples>>, events' \subseteq events
      PROVE  checkpoint[d] = NoCheckpoint /\ UNCHANGED samples
  BY <1>4
<1>5. ASSUME NEW x \in Device, ReplayFails(x)
      PROVE  UNCHANGED <<checkpoint, samples>> /\ events' \subseteq events
  BY <1>5 DEF ReplayFails
<1>6. ASSUME NEW now \in Time, Boot(Device, now)
      PROVE  UNCHANGED <<checkpoint, samples>> /\ events' \subseteq events
  BY <1>6 DEF Boot
<1>7. ASSUME NEW cutoff \in Time, Cleanup(cutoff)
      PROVE  UNCHANGED <<checkpoint, samples>> /\ events' \subseteq events
  BY <1>7 DEF Cleanup
<1> QED BY <1>1, <1>2, <1>3, <1>4, <1>5, <1>6, <1>7 DEF Next

\* With one device, the first reading is its own, and it adopts the history in the
\* same transaction.
THEOREM PromiseKeptAlone == ASSUME NEW d, Device = {d} PROVE Spec => KeepsPromise
<1>1. Init => PromiseInv /\ Promise!Init
  BY PromiseAtFirst, PromiseStarts, NothingForgotten
<1>2. PromiseInv /\ [Next]_recorder => [Next /\ HistoryWaits]_recorder
  BY CheckpointStays DEF HistoryWaits, SamplesFor
<1>3. PromiseInv /\ [Next]_recorder
      => PromiseInv' /\ [Promise!Next]_<<log, forgotten, Settled>>
  BY <1>2, StepRefines
<1> QED BY <1>1, <1>3, PTL DEF KeepsPromise, Promise!Spec, Spec

\* No event waits to be adopted when there was none before the program first ran.
NoneWaits == \A d \in Device : checkpoint[d] = NoCheckpoint => EventsFor(d) = {}

LEMMA FreshStarts == NoHistory \/ OldSamples => PromiseInv /\ NoneWaits /\ Promise!Init
<1>1. NoHistory => OldSamples
  <2> SUFFICES ASSUME NoHistory PROVE OldSamples
    OBVIOUS
  <2> DEFINE h == [d \in Device |-> <<>>]
  <2>1. h \in [Device -> Histories]
    BY RecorderAssumption DEF Histories
  <2>2. UNION {{[device |-> d, at |-> i, high |-> h[d][i]] : i \in DOMAIN h[d]} : d \in Device} = {}
    OBVIOUS
  <2> HIDE DEF h
  <2> QED BY <2>1, <2>2 DEF NoHistory, OldSamples
<1>2. OldSamples => Init /\ NoneWaits
  BY DEF Init, OldSamples, NoneWaits, EventsFor
<1> QED BY <1>1, <1>2, PromiseAtFirst, PromiseStarts, NothingForgotten

\* Nor is there anything to delete too early, with any number of devices, where no
\* older program had written an event.
THEOREM PromiseKeptFresh == (NoHistory \/ OldSamples) /\ [][Next]_recorder => KeepsPromise
<1>1. NoHistory \/ OldSamples => PromiseInv /\ NoneWaits /\ Promise!Init
  BY FreshStarts
<1>2. PromiseInv /\ NoneWaits /\ [Next]_recorder
      => NoneWaits' /\ [Next /\ HistoryWaits]_recorder
  <2>1. CASE UNCHANGED recorder
    BY <2>1 DEF recorder, NoneWaits, EventsFor
  <2>2. CASE Next
    <3> SUFFICES ASSUME PromiseInv, NoneWaits PROVE NoneWaits' /\ HistoryWaits
      BY <2>2
    <3>1. \A d \in Device : checkpoint'[d] = NoCheckpoint =>
              checkpoint[d] = NoCheckpoint /\ EventsFor(d) = {} /\ EventsFor(d)' = {}
      <4> SUFFICES ASSUME NEW d \in Device, checkpoint'[d] = NoCheckpoint
                   PROVE  checkpoint[d] = NoCheckpoint /\ EventsFor(d) = {} /\ EventsFor(d)' = {}
        OBVIOUS
      <4>1. /\ checkpoint[d] = NoCheckpoint
            /\ events' \subseteq events \/ EventsFor(d)' \subseteq EventsFor(d)
        BY <2>2, CheckpointStays
      <4> QED BY <4>1 DEF NoneWaits, EventsFor
    <3> QED BY <3>1 DEF NoneWaits, HistoryWaits
  <2> QED BY <2>1, <2>2
<1>3. PromiseInv /\ NoneWaits /\ [Next]_recorder
      => PromiseInv' /\ NoneWaits' /\ [Promise!Next]_<<log, forgotten, Settled>>
  BY <1>2, StepRefines
<1> QED BY <1>1, <1>3, PTL DEF KeepsPromise, Promise!Spec

(***************************************************************************)
(* The types, for any number of devices and any history: what is adopted   *)
(* is a checkpoint, and an event is closed with a time.                    *)
(***************************************************************************)
TypeInv ==
    /\ TypeOK
    /\ \A d \in Device :
          IF checkpoint[d] = NoCheckpoint THEN Small(d)
          ELSE checkpoint[d].event # NoEvent => checkpoint[d].last # 0

LEMMA NewestExists ==
    ASSUME NEW S, S # {}, \A x \in S : x.at \in 1..3
    PROVE  Newest(S) \in S
<1>1. \E x \in S : \A y \in S : y.at <= x.at
  <2>1. CASE \E x \in S : x.at = 3
    BY <2>1
  <2>2. CASE (\A x \in S : x.at # 3) /\ \E x \in S : x.at = 2
    BY <2>2
  <2>3. CASE \A x \in S : x.at = 1
    BY <2>3
  <2> QED BY <2>1, <2>2, <2>3
<1> QED BY <1>1 DEF Newest

LEMMA LoadedIsState ==
    ASSUME TypeInv, NEW d \in Device
    PROVE  Loaded(d) \in State /\ (Loaded(d).event # NoEvent => Loaded(d).last # 0)
<1>1. CASE checkpoint[d] # NoCheckpoint
  BY <1>1 DEF TypeInv, TypeOK, Loaded
<1>2. CASE checkpoint[d] = NoCheckpoint /\ EventsFor(d) = {}
  <2>1. Loaded(d) = Fresh
    BY <1>2 DEF Loaded, Adopted
  <2> QED BY <2>1, NothingFollows DEF Follows, Fresh, NoEvent
<1>3. CASE checkpoint[d] = NoCheckpoint /\ EventsFor(d) # {}
  <2> DEFINE e == CHOOSE x \in EventsFor(d) : \A y \in EventsFor(d) : y.start <= x.start
             new == Newest(SamplesFor(d))
  <2>1. Small(d) /\ EventsFor(d) \subseteq Event /\ SamplesFor(d) \subseteq Sample
    BY <1>3 DEF TypeInv, TypeOK, EventsFor, SamplesFor
  <2>2. e \in Event
    <3>1. PICK x \in EventsFor(d) : TRUE
      BY <1>3
    <3>2. \A y \in EventsFor(d) : y = x
      BY <2>1 DEF Small
    <3>5. x.start <= x.start
      <4>1. x \in Event
        BY <2>1
      <4>2. x.start \in Nat
        BY <4>1, TimeIsNat DEF Event
      <4> QED BY <4>2
    <3>3. \A y \in EventsFor(d) : y.start <= x.start
      BY <3>2, <3>5
    <3>4. e \in EventsFor(d)
      BY <3>3
    <3> QED BY <2>1, <3>4
  <2>3. SamplesFor(d) # {} => new.at \in Time
    <3>1. \A x \in SamplesFor(d) : x.at \in 1..3
      BY <2>1, RecorderAssumption DEF Small, Sample, Time
    <3>2. SamplesFor(d) # {} => new \in SamplesFor(d)
      BY <3>1, NewestExists
    <3> QED BY <2>1, <3>2 DEF Sample
  <2>4. TrailingLow(d) \in 0..2
    BY DEF TrailingLow
  <2>5. /\ Time \subseteq 0..MaxTime /\ 0 \notin Time /\ 0 \in 0..MaxTime /\ 0 \in 0..2
        /\ NoOutlet \in Binding
    BY RecorderAssumption DEF Time, Binding
  <2> HIDE DEF e, new
  <2>6. CASE e.end = Open
    <3> DEFINE last == IF SamplesFor(d) = {} THEN e.start ELSE new.at
    <3>1. AdoptOpen(d, e) = [last |-> last, event |-> e.start, low |-> TrailingLow(d),
                             binding |-> NoOutlet]
      <4>1. AdoptOpen(d, e) = [Fresh EXCEPT !.event = e.start, !.last = last,
                                            !.low = TrailingLow(d)]
        BY DEF AdoptOpen, new
      <4> HIDE DEF last
      <4> QED BY <4>1 DEF Fresh
    <3>2. Loaded(d) = AdoptOpen(d, e)
      BY <1>3, <2>6 DEF Loaded, Adopted, e
    <3>3. e.start \in Time /\ last \in Time
      BY <2>2, <2>3 DEF Event
    <3> HIDE DEF last
    <3>4. last \in 0..MaxTime /\ e.start \in 0..MaxTime /\ last # 0
      BY <2>5, <3>3
    <3>5. AdoptOpen(d, e) \in State /\ AdoptOpen(d, e).last # 0
      BY <2>4, <2>5, <3>1, <3>4 DEF State
    <3> QED BY <3>2, <3>5
  <2>7. CASE e.end # Open
    <3>1. Loaded(d) = [Fresh EXCEPT !.last = e.end]
      BY <1>3, <2>7 DEF Loaded, Adopted, e
    <3>2. e.end \in Time
      BY <2>2, <2>7 DEF Event
    <3> QED BY <2>5, <3>1, <3>2 DEF Fresh, State, NoEvent
  <2> QED BY <2>6, <2>7
<1> QED BY <1>1, <1>2, <1>3

\* A reading of one device leaves the events of the others alone, and closes an
\* event of its own with a time.
LEMMA EventsAfterTypes ==
    ASSUME events \subseteq Event, NEW d \in Device, NEW s \in State,
           s.event # NoEvent => s.last # 0,
           NEW o \in Binding, NEW at \in Time, NEW high \in BOOLEAN
    PROVE  LET A == EventsAfter(d, s, o, at, high)
           IN /\ A \subseteq Event
              /\ \A x \in Device \ {d} : {e \in A : e.device = x} = EventsFor(x)
<1> DEFINE A == EventsAfter(d, s, o, at, high)
           new == [device |-> d, start |-> at, end |-> Open]
           same(E) == \A x \in Device \ {d} : {e \in E : e.device = x} = EventsFor(x)
<1>1. ASSUME NEW E, E \subseteq Event, same(E), NEW start, NEW end \in Time
      PROVE  LET C == CloseEvent(E, d, start, end) IN C \subseteq Event /\ same(C)
  <2> DEFINE c(e) == IF e.device = d /\ e.start = start /\ e.end = Open
                     THEN [e EXCEPT !.end = end] ELSE e
  <2>1. \A e \in E : /\ c(e) \in Event /\ c(e).device = e.device
                     /\ (e.device # d => c(e) = e)
    BY <1>1 DEF Event
  <2>2. CloseEvent(E, d, start, end) = {c(e) : e \in E}
    BY DEF CloseEvent
  <2> HIDE DEF c
  <2>3. ASSUME NEW x \in Device \ {d}
        PROVE  {y \in {c(e) : e \in E} : y.device = x} = {e \in E : e.device = x}
    BY <2>1
  <2> QED BY <1>1, <2>1, <2>2, <2>3
<1>2. same(events) /\ new \in Event /\ new.device = d /\ at \in Time
  BY DEF EventsFor, Event
<1>3. s.event # NoEvent => s.last \in Time
  BY RecorderAssumption DEF State, Time
<1> DEFINE over == s.event # NoEvent /\ OverBefore(s, o)
           old == IF over THEN CloseEvent(events, d, s.event, s.last) ELSE events
<1>4. old \subseteq Event /\ same(old)
  BY <1>1, <1>2, <1>3
<1>5. A = old \cup {new} \/ A = CloseEvent(old, d, s.event, at) \/ A = old
  BY DEF EventsAfter
<1> HIDE DEF A, old, new
<1>6. CASE A = old \cup {new}
  <2>1. ASSUME NEW x \in Device \ {d}
        PROVE  {e \in old \cup {new} : e.device = x} = {e \in old : e.device = x}
    BY <1>2
  <2> QED BY <1>2, <1>4, <1>6, <2>1 DEF A
<1>7. CASE A = CloseEvent(old, d, s.event, at)
  <2>1. CloseEvent(old, d, s.event, at) \subseteq Event /\ same(CloseEvent(old, d, s.event, at))
    BY <1>1, <1>2, <1>4
  <2> QED BY <1>7, <2>1 DEF A
<1> QED BY <1>4, <1>5, <1>6, <1>7 DEF A

LEMMA RecordTypes ==
    ASSUME TypeInv, NEW d \in Device, NEW o \in Binding, NEW at \in Time, NEW high \in BOOLEAN,
           Record(d, o, at, high), replay' \subseteq Sample, UNCHANGED forgotten
    PROVE  TypeInv'
<1>1. CASE Stale(d, at)
  BY <1>1 DEF Record, TypeInv, TypeOK, Small, EventsFor, SamplesFor
<1>2. CASE ~Stale(d, at)
  <2> DEFINE s == Loaded(d)
             t == After(s, o, at, high)
             r == [at |-> at, outlet |-> t.binding, high |-> high]
             x == [device |-> d, at |-> at, high |-> high]
  <2>1. TypeOK
    BY DEF TypeInv
  <2>2. s \in State /\ (s.event # NoEvent => s.last # 0)
    BY LoadedIsState
  <2>3. t \in State /\ t.last = at /\ t # NoCheckpoint
    BY <2>2, AfterIs, CheckpointAssumption
  <2>4. /\ checkpoint' = [checkpoint EXCEPT ![d] = t]
        /\ events' = EventsAfter(d, s, o, at, high)
        /\ samples' \subseteq samples \cup {x}
        /\ log' = [log EXCEPT ![d] = Append(@, r)]
    BY <1>2 DEF Record
  <2>5. x \in Sample /\ x.device = d
    BY DEF Sample
  <2>6. r \in Log!Reading
    BY <2>3 DEF Log!Reading, State, Binding
  <2> HIDE DEF s, t, r, x
  <2>7. /\ events' \subseteq Event
        /\ \A y \in Device \ {d} : {e \in events' : e.device = y} = EventsFor(y)
    BY <2>1, <2>2, <2>4, EventsAfterTypes DEF TypeOK
  <2>8. TypeOK'
    <3>1. checkpoint' \in [Device -> State \cup {NoCheckpoint}]
      BY <2>1, <2>3, <2>4 DEF TypeOK
    <3>2. log' \in [Device -> Seq(Log!Reading)]
      BY <2>1, <2>4, <2>6 DEF TypeOK
    <3> QED BY <2>1, <2>4, <2>5, <2>7, <3>1, <3>2 DEF TypeOK
  <2>9. ASSUME NEW y \in Device
        PROVE  IF checkpoint'[y] = NoCheckpoint THEN Small(y)'
               ELSE checkpoint'[y].event # NoEvent => checkpoint'[y].last # 0
    <3>1. CASE y = d
      <4>1. checkpoint'[y] = t
        BY <2>1, <2>4, <3>1 DEF TypeOK
      <4> QED BY <2>3, <4>1, RecorderAssumption DEF Time
    <3>2. CASE y # d
      <4>1. checkpoint'[y] = checkpoint[y]
        BY <2>1, <2>4, <3>2 DEF TypeOK
      <4>2. EventsFor(y)' = EventsFor(y) /\ SamplesFor(y)' \subseteq SamplesFor(y)
        BY <2>4, <2>5, <2>7, <3>2 DEF EventsFor, SamplesFor
      <4>3. Small(y) => Small(y)'
        BY <4>2 DEF Small
      <4> QED BY <4>1, <4>3 DEF TypeInv
    <3> QED BY <3>1, <3>2
  <2> QED BY <2>8, <2>9 DEF TypeInv
<1> QED BY <1>1, <1>2

THEOREM RecorderTypeCorrect == Spec => []TypeOK
<1>1. Init => TypeInv
  <2>1. Init => \A d \in Device : checkpoint[d] = NoCheckpoint
    BY DEF Init, OldHistory, OldSamples
  <2> QED BY <2>1, PromiseAtFirst DEF TypeInv, PromiseInv
<1>2. TypeInv /\ [Next]_recorder => TypeInv'
  <2> SUFFICES ASSUME TypeInv, [Next]_recorder PROVE TypeInv'
    OBVIOUS
  <2>0. TypeOK
    BY DEF TypeInv
  <2>1. ASSUME NEW d \in Device, NEW o \in Outlet, NEW at \in Time, NEW high \in BOOLEAN,
               Live(d, o, at, high)
        PROVE  TypeInv'
    <3>1. o \in Binding /\ replay' \subseteq Sample
      BY <2>0, <2>1 DEF Live, Binding, TypeOK
    <3> QED BY <2>1, <3>1, RecordTypes DEF Live
  <2>2. ASSUME NEW x \in replay, Replay(x) PROVE TypeInv'
    <3>1. x.device \in Device /\ x.at \in Time /\ x.high \in BOOLEAN /\ NoOutlet \in Binding
      BY <2>0 DEF TypeOK, Sample, Binding
    <3>2. replay' \subseteq Sample
      BY <2>0, <2>2 DEF Replay, TypeOK
    <3> QED BY <2>2, <3>1, <3>2, RecordTypes DEF Replay
  <2>3. ASSUME NEW d \in Device, ReplayFails(d) PROVE TypeInv'
    BY <2>3 DEF ReplayFails, TypeInv, TypeOK, Small, EventsFor, SamplesFor
  <2>4. ASSUME NEW now \in Time, Boot(Device, now) PROVE TypeInv'
    BY <2>4 DEF Boot, TypeInv, TypeOK, Small, EventsFor, SamplesFor
  <2>5. ASSUME NEW cutoff \in Time, Cleanup(cutoff) PROVE TypeInv'
    <3>1. /\ events' \subseteq events /\ UNCHANGED <<checkpoint, samples, replay, log>>
          /\ forgotten' = forgotten \cup {<<e.device, e.start>> : e \in events \ events'}
      BY <2>5 DEF Cleanup
    <3>2. forgotten' \subseteq Device \X Time
      BY <2>0, <3>1 DEF TypeOK, Event
    <3>3. TypeOK'
      BY <2>0, <3>1, <3>2 DEF TypeOK
    <3>4. \A d \in Device : Small(d) => Small(d)'
      BY <3>1 DEF Small, EventsFor, SamplesFor
    <3> QED BY <3>1, <3>3, <3>4 DEF TypeInv
  <2>6. CASE UNCHANGED recorder
    BY <2>6 DEF recorder, TypeInv, TypeOK, Small, EventsFor, SamplesFor
  <2> QED BY <2>1, <2>2, <2>3, <2>4, <2>5, <2>6 DEF Next
<1>3. TypeInv => TypeOK
  BY DEF TypeInv
<1> QED BY <1>1, <1>2, <1>3, PTL DEF Spec

(***************************************************************************)
(* One step of whatever drives the recorder, where no event waits.         *)
(***************************************************************************)
LEMMA DrivenStep ==
    ASSUME PromiseInv, NoneWaits, replay' \subseteq Sample, UNCHANGED forgotten,
           \/ UNCHANGED <<checkpoint, events, samples, log>>
           \/ \E d \in Device, o \in Binding, at \in Time, high \in BOOLEAN :
                  Record(d, o, at, high)
    PROVE  PromiseInv' /\ NoneWaits' /\ [Promise!Next]_<<log, forgotten, Settled>>
<1>1. CASE UNCHANGED <<checkpoint, events, samples, log>>
  BY <1>1, QuietKeeps DEF NoneWaits, EventsFor
<1>2. ASSUME NEW x \in Device, NEW o \in Binding, NEW at \in Time, NEW high \in BOOLEAN,
             Record(x, o, at, high)
      PROVE  PromiseInv' /\ NoneWaits' /\ [Promise!Next]_<<log, forgotten, Settled>>
  <2>1. \A d \in Device : checkpoint'[d] = NoCheckpoint =>
            checkpoint[d] = NoCheckpoint /\ EventsFor(d)' \subseteq EventsFor(d)
    BY <1>2, RecordCheckpoint
  <2>2. NoneWaits' /\ HistoryWaits
    BY <2>1 DEF NoneWaits, HistoryWaits
  <2> QED BY <1>2, <2>2, ReadingRefines
<1> QED BY <1>1, <1>2
=============================================================================
