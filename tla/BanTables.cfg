\* Two synchronisations of one list, and the item tables, each half for itself.
SPECIFICATION FairSpec
CONSTRAINT Focus
CONSTANTS
  x = x
  X = X
  long = long
  bad = bad
  Ranges = {r1, r2}
  Lists = {l1}
  NoList = NoList
  ListType <- MCListType
  Syncs = {p1, p2}
  Items = {x, X, long, bad}
  Lower <- MCLower
  Collate <- MCLower
  Cut <- MCCut
  Regex <- MCRegex
  Parts <- MCParts
  Hashes = {x, X}
  Admins = {a1, a2}
  MaxChanges = 1
  MaxItemChanges = 3
  MaxFaults = 1
INVARIANTS TypeOK ItemBanEnforced SyncedExact CopiesBound UpToDateIsWhole
PROPERTIES SyncCompletes
