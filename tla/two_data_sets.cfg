SPECIFICATION Spec
CONSTANTS
    d1 = d1
    d2 = d2
    Vars = {d1, d2}
    Values = {0}
    Zero = 0
    Junk = 9
    MaxSize = 1
    Kernels <- PairKernels
    Expressions <- PairStatements
    Waived = {}
PROPERTIES
    SingleCopyRefinement
