SPECIFICATION FairSpec
CONSTANTS
    Cells = {b1}
    Clients = {c1}
    MaxPass = 2
    MaxSensed = 1
    Asks <- SomeAsks
PROPERTY InspectionPublished
