SPECIFICATION Spec
CONSTANTS
    DBW_UL = 100
    Unload = 1
    Rates <- MCRates
    Loads <- MCFewLoads
    Trips <- MCTrips
    Period = 40
    PingMin = 10
    PingMax = 40
    PingLimitCl = 10
    AddFlags = {TRUE, FALSE}
    WarmPings = 0
    MeasurePings = 0
    Wrap = 4
    MaxAge = 0
    small = small
    big = big
    none = none
    Layouts <- MCLayouts
    Oversize <- MCOversize
    Absent <- MCAbsent
    TalkMayFail = FALSE
INVARIANTS
    TypeOK
    LimitInv
    NotStrangled
    ExitRestores
    PingLimitUsable
PROPERTIES
    GovernsWhatItLearnt
    SyncedOnEntry
    SwitchResumes
    ImplementsGovernor
