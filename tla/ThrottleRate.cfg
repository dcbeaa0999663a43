\* One connection and no eviction: the rate the documentation promises.
SPECIFICATION Spec
CHECK_DEADLOCK FALSE
CONSTANTS
  Conns = {c1}
  Burst = 2
  Idle = 9
  MaxChunk = 2
  MaxTime = 6
INVARIANTS RateLimited
