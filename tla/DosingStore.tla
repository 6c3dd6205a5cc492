----------------------------- MODULE DosingStore -----------------------------
(***************************************************************************)
(* The doser's simulator, internal/dosing/store.go with its handlers in    *)
(* http.go: four heads with the liquid left in their containers, an audit  *)
(* of what was done, a failure that the next manual dose meets, and the    *)
(* file dosing.json that every operation rewrites.                         *)
(*                                                                         *)
(* Operations are one at a time (the store's mutex, held through the       *)
(* simulated delay as well).  Amounts are counted in halves of an amount   *)
(* that can be asked for.  The file is replaced by a rename: it is always  *)
(* the whole of some state.  Names, schedules, clock times, the calculator *)
(* and the answers' texts are left out; a calibration is known by whether  *)
(* the settings would accept it.                                           *)
(***************************************************************************)
EXTENDS Integers, Sequences

CONSTANTS
    Doser,      \* the doser's heads
    Amount,     \* what a dose may be, in halves
    Container,  \* sizes a container may have
    Supply,     \* a new head's container, full: 1000 ml
    AuditCap,   \* entries that are kept: 500
    MaxAudit,   \* bound: entries made
    MaxFaults   \* bound: failures to save

ASSUME DosingAssumption ==
    /\ \A a \in Amount : a \in Nat \ {0} /\ a % 2 = 0
    /\ Supply \in Container /\ Container \subseteq Nat
    /\ AuditCap \in Nat \ {0}
    /\ MaxAudit \in Nat /\ MaxFaults \in Nat

VARIABLES
    store,  \* Store.state
    file,   \* dosing.json
    page,   \* the form of one head, as a browser has it since its last look
    acknowledged, \* history: the audit entries of the operations answered with 200
    faults

dosingVars == <<store, file, page, acknowledged, faults>>

Failure == {"none", "timeout", "partial"}  \* timeout, disconnect and error are alike
Rate == {"in", "out"}

\* since and filled are history: the last settings of the head and the liquid
\* they gave it.  They go with the head so that a restart takes them back too.
NewHead == [enabled |-> TRUE, container |-> Supply, remaining |-> Supply, rate |-> "in",
            since |-> 0, filled |-> Supply]

Defaults == [heads |-> [h \in Doser |-> NewHead], audit |-> <<>>, next |-> 1,
             failure |-> "none"]

Entry(id, h, action, amount, status) ==
    [id |-> id, head |-> h, action |-> action, amount |-> amount, status |-> status]

Newer(s, n) == IF Len(s) <= n THEN s ELSE SubSeq(s, Len(s) - n + 1, Len(s))

\* audit: the next number, and only the newest entries are kept.
Audited(s, h, action, amount, status) ==
    [s EXCEPT !.next = @ + 1,
              !.audit = Newer(Append(@, Entry(s.next, h, action, amount, status)), AuditCap)]

Newest(s) == s.audit[Len(s.audit)]

Fault ==
    /\ faults < MaxFaults
    /\ faults' = faults + 1

\* Mutant: what save returns is not looked at.
CommitUnchecked(s) ==
    /\ store' = s
    /\ acknowledged' = acknowledged \cup {Newest(s)}
    /\ \/ file' = s /\ UNCHANGED faults
       \/ Fault /\ UNCHANGED file
    /\ UNCHANGED page

\* save, and the answer: the state in memory is the new one in either case.
Commit(s) ==
    /\ store' = s
    /\ \/ /\ file' = s
          /\ acknowledged' = acknowledged \cup {Newest(s)}
          /\ UNCHANGED faults
       \/ Fault /\ UNCHANGED <<file, acknowledged>>
    /\ UNCHANGED page

\* GET /api/hub/dosing.
Look ==
    /\ \E h \in Doser : page' = [doser |-> h, head |-> store.heads[h]]
    /\ UNCHANGED <<store, file, acknowledged, faults>>

\* Mutant: more liquid than the container holds.
ValidAnyLevel(h) == h.rate = "in" /\ 0 <= h.remaining

Valid(h) == h.rate = "in" /\ 0 <= h.remaining /\ h.remaining <= h.container

\* A form holds the whole head as it was at the last look, with a field edited.
Form(h) ==
    {[h EXCEPT !.enabled = ~@], [h EXCEPT !.remaining = h.container], [h EXCEPT !.rate = "in"]}
    \cup {[h EXCEPT !.container = c] : c \in Container}

\* Update replaces the head, the liquid it has left included.
Update ==
    /\ store.next <= MaxAudit
    /\ \E f \in Form(page.head) :
          /\ Valid(f)
          /\ LET h   == page.doser
                 set == [f EXCEPT !.since = store.next, !.filled = f.remaining]
             IN Commit(Audited([store EXCEPT !.heads[h] = set], h, "settings", 0, "ok"))

(***************************************************************************)
(* Manual: the next failure is used up first, whatever comes of the dose.  *)
(***************************************************************************)
Unarmed == [store EXCEPT !.failure = "none"]

\* Mutant: the half that was not given is taken from the container as well.
DoseTakesAll(s, h, amount, failure) ==
    LET actual == IF failure = "partial" THEN amount \div 2 ELSE amount
    IN Audited([s EXCEPT !.heads[h].remaining = @ - amount], h, "manual_dose", actual,
               IF failure = "partial" THEN "partial" ELSE "simulated")

Dose(s, h, amount, failure) ==
    LET actual == IF failure = "partial" THEN amount \div 2 ELSE amount
    IN Audited([s EXCEPT !.heads[h].remaining = @ - actual], h, "manual_dose", actual,
               IF failure = "partial" THEN "partial" ELSE "simulated")

\* The whole amount is noted with the failure, nothing is taken, the error of
\* save is dropped, and the answer is an error.
FailedDose(h, amount) ==
    /\ store.next <= MaxAudit
    /\ store.failure = "timeout"
    /\ store' = Audited(Unarmed, h, "manual_dose", amount, "timeout")
    /\ \/ file' = store' /\ UNCHANGED faults
       \/ Fault /\ UNCHANGED file
    /\ UNCHANGED <<page, acknowledged>>

\* A disabled head, or too little liquid: the failure is gone in memory only.
RefusedDose(h, amount) ==
    /\ store.failure # "timeout"
    /\ ~store.heads[h].enabled \/ store.heads[h].remaining < amount
    /\ store' = Unarmed
    /\ UNCHANGED <<file, page, acknowledged, faults>>

ManualDose(h, amount) ==
    /\ store.next <= MaxAudit
    /\ store.failure # "timeout"
    /\ store.heads[h].enabled /\ store.heads[h].remaining >= amount
    /\ Commit(Dose(Unarmed, h, amount, store.failure))

Manual(h) ==
    \E amount \in Amount :
        FailedDose(h, amount) \/ RefusedDose(h, amount) \/ ManualDose(h, amount)

SetSimulator ==
    /\ \E f \in Failure : store' = [store EXCEPT !.failure = f]
    /\ \/ file' = store' /\ UNCHANGED faults
       \/ Fault /\ UNCHANGED file
    /\ UNCHANGED <<page, acknowledged>>

\* Whatever was measured becomes the calibration.
Calibrate(h) ==
    /\ store.next <= MaxAudit
    /\ \E r \in Rate :
          Commit(Audited([store EXCEPT !.heads[h].rate = r], h, "calibrate", 1, "simulated"))

\* Prime and SyncClock are noted and do nothing else.
Prime(h) ==
    /\ store.next <= MaxAudit
    /\ Commit(Audited(store, h, "prime", 0, "simulated"))

\* Open: the file is read.
DosingRestart ==
    /\ store' = file
    /\ UNCHANGED <<file, page, acknowledged, faults>>

DosingInit ==
    /\ store = Defaults /\ file = Defaults
    /\ \E h \in Doser : page = [doser |-> h, head |-> NewHead]
    /\ acknowledged = {} /\ faults = 0

DosingNext ==
    \/ \E h \in Doser : Manual(h) \/ Calibrate(h) \/ Prime(h)
    \/ Update \/ Look \/ SetSimulator \/ DosingRestart

DosingSpec == DosingInit /\ [][DosingNext]_dosingVars

(***************************************************************************)
(* Properties.                                                             *)
(***************************************************************************)
HeadType == [enabled : BOOLEAN, container : Container, remaining : Int, rate : Rate,
             since : Nat, filled : Int]

DosingTypeOK ==
    /\ \A s \in {store, file} :
          /\ s.heads \in [Doser -> HeadType]
          /\ \A h \in Doser : 0 <= s.heads[h].remaining
                             /\ s.heads[h].remaining <= s.heads[h].container
          /\ Len(s.audit) <= AuditCap
          /\ s.next \in 1..MaxAudit + 1
          /\ s.failure \in Failure
    /\ page \in [doser : Doser, head : HeadType]
    /\ faults \in 0..MaxFaults

\* The liquid is accounted for: there is a course of levels from what a head's
\* settings gave it down to what it has left, that falls by each dose the audit says
\* was given since (Manual), as long as the audit reaches back that far, and that the
\* container always holds; in memory and in the file, after failed and partial doses,
\* refusals, failures to save and restarts.
Given(e, h, since) ==
    IF e.head = h /\ e.id > since /\ e.action = "manual_dose"
       /\ e.status \in {"simulated", "partial"}
    THEN e.amount ELSE 0

ReachesBack(h, s) == s.audit = <<>> \/ s.audit[1].id <= s.heads[h].since + 1

Balanced(h, s) ==
    \E level \in [0..Len(s.audit) -> 0..s.heads[h].container] :
        /\ level[0] = s.heads[h].filled
        /\ \A i \in 1..Len(s.audit) :
              level[i] = level[i - 1] - Given(s.audit[i], h, s.heads[h].since)
        /\ level[Len(s.audit)] = s.heads[h].remaining

LiquidAccounted ==
    \A s \in {store, file}, h \in Doser : ReachesBack(h, s) => Balanced(h, s)

\* What was answered with 200 stays in the audit, under a number of its own, through
\* failures to save and restarts, until newer entries push it out.
AcknowledgedKept ==
    /\ \A e \in acknowledged :
          \/ \E i \in 1..Len(file.audit) : file.audit[i] = e
          \/ file.audit # <<>> /\ e.id < file.audit[1].id
    /\ \A e, f \in acknowledged : e.id = f.id => e = f
=============================================================================
