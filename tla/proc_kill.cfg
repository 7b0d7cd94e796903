CONSTANTS
    NPROC = 2
    PAGES = 2
    MAXPID = 3
    Targets = {0, 2}
SPECIFICATION Spec
INVARIANT KilledByPid
