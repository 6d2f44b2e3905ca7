SPECIFICATION FairSpec
CONSTANTS
    Readings <- Codes
    Strays <- Noise
    MaxLate = 2
INVARIANTS
    TypeOK
    InRangeMeansMeasured
    OneLossTolerated
PROPERTY KeepsPublishing
