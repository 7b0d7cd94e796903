CONSTANTS
    Proc = {p1, p2}
    Killable = {p1}
    Block = {k1, k2, k3}
    Val = {0, 1}
    None = None
    Changing = {k1}
    NBUF = 2
    MAXPIN = 1
    Errors = {FALSE}
SPECIFICATION AllSpec
INVARIANT DiskSound
INVARIANT ConsoleSound
PROPERTY BlocksSpec
PROPERTY LinesSpec
PROPERTY CallsReturn
CHECK_DEADLOCK FALSE
