\* Two uploads at a time against both limits of a day; one with all the rest.
SPECIFICATION Spec
CONSTANTS
  Width = 5
  V4Bits = 2
  NetBits = 3
  MappedBase = 4
  Slots = {s1, s2}
  FileOf <- MCFileOf
  WorldOf <- MCWorldOf
  MaxFiles = 2
  MaxRows = 5
  MinIdLength = 1
  MaxIdLength = 2
  MaxSlugAttempts = 2
  Chunks = 2
  MaxVirus = 2
SYMMETRY Symmetric
CONSTRAINT Focus
INVARIANTS TypeOK QuotaBound SharedOnlyByOverlap ClientKnown BannedRefused FoundTypeKept VerdictHeard CleanWhole
