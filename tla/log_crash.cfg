CONSTANTS
    Proc = {p1, p2}
    Readers = {}
    Block = {b1, b2}
    Val = {0, 1}
    None = None
    MAXOPBLOCKS = 4
    LOGSIZE = 8
    NLog = 8
    OpBlocks = 2
SPECIFICATION Spec
INVARIANT Inv
INVARIANT DurableWhenQuiet
PROPERTY TxnSpec
SYMMETRY Symmetry
