SPECIFICATION Spec
CONSTANTS
    Device = {roller}
    Outlet = {o9, o18}
    NoOutlet = NoOutlet
    Open = Open
    NoCheckpoint = NoCheckpoint
    MaxTime = 5
    SampleAge = 3
INVARIANTS TypeOK
PROPERTIES KeepsPromise
