SPECIFICATION AllSpec
CONSTANTS
    t1 = t1
    t2 = t2
    t3 = t3
    x1 = x1
    x2 = x2
    None = None
    NoRegs = NoRegs
    Odd = Odd
    idler = idler
    off = off
INVARIANTS
    BroughtUp
    OutputWhole
PROPERTIES
    Finishes
    
