\* Two keys of the cache, two requests, one admin and one outside process.
SPECIFICATION Spec
CONSTANTS
  Keys = {k1, k2}
  Getters = {g1, g2}
  Changers = {c1}
  NoProc = NoProc
  Ttl = 2
  MaxTime = 3
  MaxVersion = 2
SYMMETRY Symmetry
INVARIANTS TypeOK Freshness Staleness OneFetch
PROPERTIES AtomicSpec
