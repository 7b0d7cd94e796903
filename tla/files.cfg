CONSTANTS
    User = {p1, p2}
    Call <- MCCalls
    Proc = {1, 2}
    NFILE = 3
    NOFILE = 2
    NPIPE = 1
    Calls <- TableCalls
SPECIFICATION AllSpec
INVARIANT InodesKept
INVARIANT NamesKept
INVARIANT TablesCounted
INVARIANT BlocksKept
INVARIANT ImagesExact
INVARIANT ArgumentsExact
INVARIANT TextExact
PROPERTY BytesSpec
SYMMETRY Symmetry
CHECK_DEADLOCK FALSE
