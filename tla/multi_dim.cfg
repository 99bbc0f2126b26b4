SPECIFICATION Spec
CONSTANTS
    Values = {0}
    Zero = 0
    Junk = 9
    MaxSize = 2
    Declarations <- Velocities
    Modes = {"MOVE"}
    Waived = {"multi_dim"}
INVARIANTS ByteSizesAgree
