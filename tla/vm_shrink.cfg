CONSTANTS
    Proc = {1, 2}
    PAGES = 10
    PGSIZE = 6
    NPTE = 2
    KERNBASE = 24
    WRAP = 60
    PHYSTOP = 36
    DEVSPACE = 48
    MAXARG = 2
    Program <- MCProgram
    Grow <- MCGrow
    ToZero = TRUE
SPECIFICATION Spec
INVARIANT FailedCallsUndone
CHECK_DEADLOCK FALSE
