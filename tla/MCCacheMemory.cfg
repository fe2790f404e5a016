SPECIFICATION Spec
CONSTANTS
    t1 = t1
    t2 = t2
    t3 = t3
    Threads = {t1, t2, t3}
    NumCpus = 2
    EntrySz = 3
    ByteBits = 2
    CpuOf <- MCCpuOf
SYMMETRY Symmetry
INVARIANTS NeverShared BitmapExact
