CONSTANTS
    Proc = {p1, p2}
    Killable = {p1}
    Byte = {0, 1}
    None = None
    Eof = Eof
    PIPESIZE = 2
    UMAX = 4
    MAXN = 3
    Counts = {3}
SPECIFICATION FairSpec
INVARIANT Inv
INVARIANT NoUseAfterFree
INVARIANT SleepsForReason
PROPERTY StreamSpec
PROPERTY ClosedEndsCalls
CHECK_DEADLOCK FALSE
