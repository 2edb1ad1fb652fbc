\* block_if returns early with the scheduler lock held.
SPECIFICATION Spec
CONSTANTS
  Core = {0, 1}
  BootCore = 0
  User = {u1}
  Kernel = {k1}
  reaper = reaper
  Event = {e}
  Bits = {TERM}
  TERMINATED = TERM
  TIMESLICE = 1
  WAKE_BATCH = 1
  MaxDelay = 1
  UserOps = {"exit"}
  KernelOps = {"wait"}
  Watched = {u1}
  RefusedIrq = TRUE
  none = none
INVARIANTS
  LockHeldIrqsOff
CHECK_DEADLOCK FALSE
