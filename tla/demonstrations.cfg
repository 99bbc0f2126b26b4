SPECIFICATION Spec
CONSTANTS
    Values <- Terms
    Zero <- FreshPages
    Junk <- FreshBuffer
    MaxSize = 1
    Programs = {"temp_write", "temp_write_async", "porting_stage"}
    MaxIter = 6
    Waived = {}
INVARIANTS
    NormIsOfTheLastKernel OutputIsOfOneIterate CopiesAsDocumented
