\* Uploads, deletions and downloads, without scans.
SPECIFICATION Spec
CONSTANTS
  Uploads = {u1, u2}
  Slugs = {s1, s2}
  Hashes = {clean}
  Infected = {}
  Readers = {r1}
  Admins = {admin}
  Clis = {cli}
  Nobody = Nobody
  NoSlug = NoSlug
  Dedup = FALSE
  Clamd = FALSE
  MaxFaults = 2
SYMMETRY Symmetry
INVARIANTS RowHasFile FileHasRow
PROPERTIES HostSpec
