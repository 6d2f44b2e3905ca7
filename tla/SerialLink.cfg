SPECIFICATION FairSpec
CONSTANTS
    Cells = {b1, b2}
    Commands <- AllCommands
    FrameLen = 3
    Polls = 2
    MaxLate = 1
INVARIANTS
    TypeOK
    AnswerIsOurs
    OneLossTolerated
    AtMostOneRetransmission
PROPERTIES
    BehavesAsCall
    CallReturns
