\* Two concurrent uploads of one file with settings.dedup.
SPECIFICATION Spec
CHECK_DEADLOCK FALSE
CONSTANTS
  Uploads = {u1, u2}
  Slugs = {s1, s2}
  Hashes = {clean}
  Infected = {}
  Readers = {}
  Admins = {}
  Clis = {}
  Nobody = Nobody
  NoSlug = NoSlug
  Dedup = TRUE
  Clamd = FALSE
  MaxFaults = 0
INVARIANTS DedupSingleCopy
