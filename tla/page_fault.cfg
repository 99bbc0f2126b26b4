SPECIFICATION FairSpec
CONSTANTS
    n1 = n1
    n2 = n2
    Names <- TwoNames
    PageSize = 2
    NumPages = 5
    MaxBytes = 3
INVARIANTS
    AddrSetMatchesPages LookupFindsOwner
PROPERTIES
    InBoundsAccessCompletes
