SPECIFICATION FairSpec
CONSTANTS
    N = 3
    Volts <- AroundTheMargin
INVARIANTS
    TypeOK
    FollowsMinimum
    DischargesHigherCode
PROPERTY Recovers
