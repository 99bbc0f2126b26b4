SPECIFICATION FairSpec
CONSTANTS
    NumThreads = 3
    MaxElements = 4
    Huge = 99
    Junk = {0, 5}
    Launches <- AllLaunches
    Waived = {}
INVARIANTS
    RaceFree ResultIsExact ExtremaAreExact
PROPERTIES
    KernelEnds
