SPECIFICATION FairSpec
CONSTANTS
    MaxTotal = 2
    Totals <- OneOrTwo
    VolPeriod = 2
    ResPeriod = 3
    ControlPeriod = 1
    MaxTime = 5
    MaxStay = 1
    MaxCrashes = 2
INVARIANTS
    TypeOK
    NothingUninitialised
    RemembersLatest
    ScheduleBounded
PROPERTIES
    InterruptedIsRedone
    NotRepeatedEarly
    InspectionComes
