SPECIFICATION FairSpec
CONSTANTS
    o9 = o9
    o18 = o18
    s2 = s2
    s3 = s3
    Device = {roller, chiller}
    Outlet = {o9, o18}
    Stranger = {x}
    Strip = {s2, s3}
    StripOf <- StripOfOutlet
    Pollable = {roller}
    MaxFailedSaves = 1
    NoOutlet = NoOutlet
    Open = Open
    NoCheckpoint = NoCheckpoint
    NoJob = NoJob
    MaxRestarts = 1
    MaxTime = 2
    SampleAge = 2
INVARIANTS TypeOK BindingsDistinct EventOfOneOutlet
PROPERTIES ReplayIsQuiet PollingFollows
