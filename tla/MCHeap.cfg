CONSTANTS
    MaxLen = 6
    MaxInt = 2
    MaxDisk = 1
SPECIFICATION Spec
INVARIANT HeapOrdered
CHECK_DEADLOCK FALSE
