SPECIFICATION AllSpec
CONSTANTS
    BootCore = 0
    u1 = u1
    u2 = u2
    reaper = reaper
    e = e
    TERMINATED = TERM
    none = none
PROPERTIES
    WaitsEnd
    ReadyRuns
