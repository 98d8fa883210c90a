SPECIFICATION FairSpec
CONSTANTS
    DBW_UL = 100
    Unload = 1
    Rates <- MCNoRates
    Loads <- MCFewLoads
    Trips <- MCTrips
    Period = 40
    PingMin = 10
    PingMax = 21
    PingLimitCl = 10
    AddFlags = {TRUE}
    WarmPings = 0
    MeasurePings = 0
    Wrap = 4
    MaxAge = 0
    small = small
    big = big
    none = none
    Layouts <- MCFitting
    Oversize <- MCNoneOversize
    Absent <- MCAbsent
    TalkMayFail = FALSE
PROPERTIES
    MeasurementEnds
