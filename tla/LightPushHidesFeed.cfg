\* A schedule is pushed while Feed runs; no fault.
SPECIFICATION FairSpec
CONSTANTS
    s1 = s1
    Blank = Blank
    p1 = p1
    c1 = c1
    Schedule = {s1, Blank}
    Phase = {p1}
    Faults = {}
    MaxFaults = 0
    Minutes = {10}
    OffMinutes = 10
    BootClock = {TRUE}
    Client = {c1}
    Requests = {"feedStart", "push", "touch"}
    Modes = {TRUE}
    MaxRestarts = 0
PROPERTIES OverrideShown
