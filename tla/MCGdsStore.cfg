SPECIFICATION Spec
CONSTANTS
    Procs = {p1, p2}
    Threads = {t1, t2}
    Files = {f1, f2, f3}
    None = None
    Chunks = 2
SYMMETRY Symmetry
INVARIANT KnownIsStored
PROPERTY ContractSpec
