SPECIFICATION ReadingSpec
CONSTANTS
    Cells = {b1, b2}
    Clients = {c1}
    MaxPass = 2
    MaxSensed = 1
    Asks <- SomeAsks
INVARIANTS
    TypeOK
    ReplyUntorn
    CurrentNotLost
    RowIsOneInspection
    FirstIsAnswered
    DataWereAsked
PROPERTIES
    BehavesAtomically
    RequestAnswered
    InspectionPublished
