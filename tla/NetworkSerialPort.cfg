SPECIFICATION FairSpec
CONSTANTS
    Clients = {c1}
    Talking = {"232"}
    MaxOthers = 2
    MaxFd = 4
    MaxThreads = 2
PROPERTY SerialPortServed
CHECK_DEADLOCK FALSE
