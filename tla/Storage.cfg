SPECIFICATION Spec
CONSTANTS
    Default = 1
    Settings <- Totals
    MaxConns = 4
    MaxTime = 3
    MaxFaults = 2
INVARIANTS
    TypeOK
    SetsAreWhole
    ConnectionsBounded
    SettingKept
    EverySecondOnce
