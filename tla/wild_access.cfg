SPECIFICATION FairSpec
CONSTANTS
    n1 = n1
    n2 = n2
    Names = {n1}
    PageSize = 2
    NumPages = 4
    MaxBytes = 2
PROPERTIES
    WildAccessIsReported
