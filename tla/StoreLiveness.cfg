\* Scans, bans and dedup, one failure and a process that deletes expired uploads;
\* without symmetry.  When every posted file has been answered and deleted, nothing
\* is left to do.
SPECIFICATION FairSpec
CHECK_DEADLOCK FALSE
CONSTANTS
  Uploads = {u1, u2}
  Slugs = {s1, s2}
  Hashes = {virus}
  Infected = {virus}
  Readers = {}
  Admins = {}
  Clis = {cli}
  Nobody = Nobody
  NoSlug = NoSlug
  Dedup = TRUE
  Clamd = TRUE
  MaxFaults = 1
INVARIANTS TypeOK
PROPERTIES NoPassAfterBan InfectedGone ExpiredGone
