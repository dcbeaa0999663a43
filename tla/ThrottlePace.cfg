\* Two connections of one address; an eviction refills more than the rate.
SPECIFICATION Spec
CHECK_DEADLOCK FALSE
CONSTANTS
  Conns = {c1, c2}
  Burst = 4
  Idle = 3
  MaxChunk = 4
  MaxTime = 5
SYMMETRY Symmetry
INVARIANTS TypeOK Paced BurstBound NoStarvation TotalBound
