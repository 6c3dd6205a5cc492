\* Two requests at a time against the three wake-up channels; nobody opens the K7 page.
SPECIFICATION Spec
CONSTANTS
    s1 = s1
    Blank = Blank
    p1 = p1
    c1 = c1
    c2 = c2
    Schedule = {s1, Blank}
    Phase = {p1}
    Faults = {}
    MaxFaults = 0
    Minutes = {2, 10}
    OffMinutes = 10
    BootClock = {TRUE}
    Client = {c1, c2}
    Requests = {"rampStart", "rampStop", "feedStart", "feedStop"}
    Modes = {TRUE}
    MaxRestarts = 0
SYMMETRY Symmetry
INVARIANTS TypeOK OverridePickedUp CadenceFollowsInterval
