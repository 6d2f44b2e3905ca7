SPECIFICATION Spec
CONSTANTS
    MaxTotal = 2
    Totals <- Two
    VolPeriod = 1
    ResPeriod = 2
    ControlPeriod = 1
    MaxTime = 7
    MaxStay = 1
    MaxCrashes = 1
PROPERTY ReuseIsBounded
