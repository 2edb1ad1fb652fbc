SPECIFICATION AllSpec
CONSTANTS
  none = none
  off = off
  Thread = {t1, t2, t3}
  Two = {x1, x2}
SYMMETRY Symmetry
INVARIANTS
    MutualExclusion
    NoLostWaiter
    LocksOrdered
    ListsHold
    MemoryGiven
    EarlyHeapSound
    FramesSound
    SlabsSound
    ArenasSound
    ImageLoaded
    SymbolsRight
PROPERTIES
    HandedOutZero
