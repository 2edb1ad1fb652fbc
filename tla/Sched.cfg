SPECIFICATION Spec
CONSTANTS
    Core = {0, 1}
    BootCore = 0
    User = {u1}
    Kernel = {k1}
    reaper = reaper
    Event = {e}
    Bits = {TERM}
    TERMINATED = TERM
    TIMESLICE = 1
    WAKE_BATCH = 1
    MaxDelay = 1
    UserOps = {"timedwait", "exit"}
    KernelOps = {"critical", "sleep", "signal", "kill"}
    Watched = {e}
    RefusedIrq = FALSE
    none = none
INVARIANTS
    Inv
    HeldOnce
    KilledNotParked
    OneCorePerContext
    ReapedIsQuiet
    NothingForgotten
