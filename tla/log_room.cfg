CONSTANTS
    Proc = {p1, p2}
    Readers = {}
    Block = {b1, b2, b3, b4}
    Val = {0}
    None = None
    MAXOPBLOCKS = 2
    LOGSIZE = 4
    NLog = 4
    OpBlocks = 1
SPECIFICATION FairSpec
INVARIANT AppendFits
INVARIANT NoPanic
PROPERTY SleepersWoken
PROPERTY ComesBackUp
