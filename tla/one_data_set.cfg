SPECIFICATION FairSpec
CONSTANTS
    d1 = d1
    d2 = d2
    Vars = {d1}
    Values = {0, 1}
    Zero = 0
    Junk = 9
    MaxSize = 2
    Kernels <- KernelsUpToTwo
    Expressions <- Statements
    Waived = {}
INVARIANTS
    OneOwner SharedCopiesAgree PagesGuarded BufferFits KernelArgumentsReady FaultsBounded NeverAborted
PROPERTIES
    TaskCompletes SingleCopyRefinement
