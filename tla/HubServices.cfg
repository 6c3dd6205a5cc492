SPECIFICATION Spec
CONSTANTS
    Pump = {m}
    Level = {1, 2}
    MaxRequests = 2
    MaxSurprises = 1
    Slots = 4
    Hour = 6
    Channel = {"w", "b", "c"}
    MoonChannel = "b"
    CyanChannel = "c"
    Setup <- MCSetup
    LastDay = 1
    Doser = {d}
    Amount = {2}
    Container = {2, 5}
    Supply = 5
    AuditCap = 2
    MaxAudit = 3
    MaxFaults = 1
    Delays <- MCDelays
    MaxVersion = 2
    MaxRestarts = 1
    Builtin = {r1, r2}
    MaxRecords = 4
    MaxEdits = 1
    LocalDate = {d1, d2}
    MaxWrites = 1
INVARIANTS
    ServicesTypeOK
    OneConversation
    SuccessConfirmed
    NeverResent
    FreshIsOfThisModel
    LevelsInRange
    
    LiquidAccounted
    AcknowledgedKept
    FreshFromItsSource
    SeededOnce
    TallyReachesFile
PROPERTIES
    HubTouchesOnlyAsked
    BusyEnds
    NoJumps
    MirrorMonotone
    SourceFollowed
CHECK_DEADLOCK FALSE
