\* Two runs of dedup and a rehash over three uploads, two of which go away.
SPECIFICATION Spec
SYMMETRY Symmetric
CONSTANTS
  a = a
  b = b
  p1 = p1
  p2 = p2
  N = 3
  Contents = {a, b}
  Null = Null
  Dedups = {p1, p2}
  MaxGone = 2
INVARIANTS TypeOK LinksForward Faithful LostOnlyByDeletion
\* When every upload is gone and no command runs, nothing happens.
CHECK_DEADLOCK FALSE
