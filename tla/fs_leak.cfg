CONSTANTS
    Proc = {p1, p2}
    Name = {"d", "x"}
    NINODES = 5
    Call <- MCCalls
    MAXCALLS = 4
SPECIFICATION Spec
INVARIANT NoOrphans
SYMMETRY Symmetry
CHECK_DEADLOCK FALSE
