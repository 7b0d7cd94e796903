CONSTANTS
    CPU = {c1, c2}
    NPROC = 3
    None = None
SPECIFICATION Spec
INVARIANT Sane
INVARIANT Exclusive
INVARIANT OneCPU
INVARIANT NoLostWakeup
INVARIANT InterruptsMatch
SYMMETRY Symmetry
