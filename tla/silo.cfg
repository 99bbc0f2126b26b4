SPECIFICATION Spec
CONSTANTS
    Values = {0}
    Zero = 0
    Junk = 9
    MaxSize = 2
    Declarations <- Program
    Modes = {"MOVE", "COPY", "SYNC_AND_MOVE"}
    Waived = {}
INVARIANTS
    OneEntryPerName EntriesFit DeviceFollowsHost CopiesHaveMemory NothingLeft
