CONSTANTS
    Tasks = {t1, t2, t3}
    Split = 1
    LowEpochs = 1
    None = None
SPECIFICATION FairSpec
INVARIANTS UsageExact FastBounded
PROPERTIES IdleYields SlotsUsed
