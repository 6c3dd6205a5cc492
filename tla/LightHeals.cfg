\* Pushes and reads, and one fault of any kind.
SPECIFICATION FairSpec
CONSTANTS
    s1 = s1
    Blank = Blank
    p1 = p1
    c1 = c1
    Schedule = {s1, Blank}
    Phase = {p1}
    Faults = {"loss", "outage", "power"}
    MaxFaults = 1
    Minutes = {10}
    OffMinutes = 10
    BootClock = {TRUE}
    Client = {c1}
    Requests = {"push", "read", "touch"}
    Modes = {TRUE}
    MaxRestarts = 0
PROPERTIES LampHeals
