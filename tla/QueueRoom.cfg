SPECIFICATION Spec
CONSTANTS
  Core = {c1}
  Spawner = {s1}
  THREADS = 6
  ASLEEP = 1
  DEAD = 0
  SLACK = 2
  OOM = FALSE
  k_block_capacity = 4
  None = None
INVARIANT PushesFit
