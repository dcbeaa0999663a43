\* Two uploads where min_id_length and max_id_length are the same.
SPECIFICATION Spec
CONSTANTS
  Width = 5
  V4Bits = 2
  NetBits = 3
  MappedBase = 4
  Slots = {s1, s2}
  FileOf <- MCFileOf
  WorldOf <- MCLinked
  MaxFiles = 2
  MaxRows = 3
  MinIdLength = 1
  MaxIdLength = 1
  MaxSlugAttempts = 3
  Chunks = 2
  MaxVirus = 2
SYMMETRY Symmetric
CONSTRAINT Focus
INVARIANTS IdLengthBounded
