SPECIFICATION ShareSpec
CONSTANTS
    Two = {u1, u2}
    lone = u1
    c1 = c1
    c2 = c2
    anon = anon
    device = device
    kernel = kernel
    none = none
    NoRegs = NoRegs
    Odd = Odd
    off = off
SYMMETRY Symmetry
INVARIANT
    ZeroPageCurrent
