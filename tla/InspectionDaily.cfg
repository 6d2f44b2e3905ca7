SPECIFICATION Spec
CONSTANTS
    MaxTotal = 2
    Totals <- Two
    VolPeriod = 2
    ResPeriod = 4
    ControlPeriod = 1
    MaxTime = 6
    MaxStay = 1
    MaxCrashes = 0
PROPERTY MeasuredOnceADay
