CONSTANTS
    NPROC = 4
    PAGES = 4
    MAXPID = 4
    Targets = {0, 3}
SPECIFICATION AllSpec
INVARIANT Inv
INVARIANT SleepsRight
INVARIANT MemoryKept
INVARIANT FailedCallsUndone
INVARIANT HeapSound
INVARIANT ShellRight
INVARIANT ParsesRight
PROPERTY CallsReturn
CHECK_DEADLOCK FALSE
