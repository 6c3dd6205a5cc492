\* Overrides come and go, the K7 page opens and closes; no fault.
SPECIFICATION FairSpec
CONSTANTS
    s1 = s1
    Blank = Blank
    p1 = p1
    p2 = p2
    c1 = c1
    Schedule = {s1, Blank}
    Phase = {p1, p2}
    Faults = {}
    MaxFaults = 0
    Minutes = {10}
    OffMinutes = 10
    BootClock = {TRUE}
    Client = {c1}
    Requests = {"feedStart", "feedStop", "maintenanceStart", "maintenanceStop", "touch", "sleep", "kick"}
    Modes = {TRUE}
    MaxRestarts = 0
INVARIANTS OverrideHasOwner BeliefMatchesLamp
PROPERTIES OverrideShown RampDrives OverrideReleased
