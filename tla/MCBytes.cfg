SPECIFICATION Spec
CONSTANTS
  s1 = s1
  s2 = s2
  p = p
  o = o
  Vecs = {1,2,3,4,5,6}
  INLINE_CAP = 1
  TrimSlack = 2
  PageCap <- MCPageCap
  CacheSize = 1
  Slots = {s1, s2}
  Streams = {p, o}
  Programs <- MCPrograms
  MaxPages = 2
  InnerCache = 1
INVARIANT StorageSound
PROPERTY HandlesAreValues
SYMMETRY MCSymmetry
CHECK_DEADLOCK FALSE
