\* Two requests, one address that uploads and solves, and its neighbour.
SPECIFICATION Spec
SYMMETRY Symmetric
CONSTANTS
  i1 = i1
  i2 = i2
  NoAddr = NoAddr
  r1 = r1
  r2 = r2
  Addrs = {i1, i2}
  Solvers = {i1}
  Uploaders = {i1}
  Requests = {r1, r2}
  Ttl = 1
  Life = 2
  Lag = 1
INVARIANTS TypeOK AnsweredExempt MarkedChallenged StaleBound
