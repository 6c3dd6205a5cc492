\* One request at a time, cut short by a restart, with and without a clock at boot.
SPECIFICATION Spec
CONSTANTS
    s1 = s1
    Blank = Blank
    p1 = p1
    c1 = c1
    Schedule = {s1, Blank}
    Phase = {p1}
    Faults = {"loss", "outage", "power"}
    MaxFaults = 1
    Minutes = {2, 10}
    OffMinutes = 10
    BootClock = {TRUE, FALSE}
    Client = {c1}
    Requests = {"rampStart", "rampStop", "rampConfig", "hand"}
    Modes = {TRUE, FALSE}
    MaxRestarts = 1
INVARIANTS ModeFollowsSwitch
