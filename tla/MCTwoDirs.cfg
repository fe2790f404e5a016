SPECIFICATION Spec
CONSTANTS
    t1 = t1
    t2 = t2
    t3 = t3
    d = d
    e = e
    x = x
    f = f
    Root = Root
    Threads = {t1, t2, t3}
    Paths = {d, e, x, f}
    ParentOf <- MCParentOf
SYMMETRY Symmetry
INVARIANTS Mirrored SecondHalfCompletes
