SPECIFICATION FairSpec
CONSTANTS
    Clients = {c1, c2}
    Talking = {c1, "232"}
    MaxOthers = 2
    MaxFd = 4
    MaxThreads = 2
INVARIANTS
    TypeOK
    ThreadsKeepToTheirOwn
    SelectStaysGood
PROPERTIES
    DescriptorsReturned
    HostIsServed
CHECK_DEADLOCK FALSE
