SPECIFICATION AnsweredSpec
CONSTANTS
    DBW_UL = 100
    Unload = 1
    Rates <- MCNoRates
    Loads <- MCFewLoads
    Trips <- MCTrips
    Period = 40
    PingMin = 10
    PingMax = 21
    PingLimitCl = 10
    AddFlags = {TRUE}
    WarmPings = 1
    MeasurePings = 1
    Wrap = 6
    MaxAge = 1
    small = small
    big = big
    none = none
    Layouts <- MCFitting
    Oversize <- MCNoneOversize
    Absent <- MCAbsent
    TalkMayFail = TRUE
PROPERTIES
    SignalStops
    MeasurementEnds
    Settles
