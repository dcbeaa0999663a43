\* One key, so that the requests meet at the lock; no symmetry.
SPECIFICATION FairSpec
CONSTANTS
  Keys = {k1}
  Getters = {g1, g2}
  Changers = {c1}
  NoProc = NoProc
  Ttl = 1
  MaxTime = 2
  MaxVersion = 1
PROPERTIES Served
