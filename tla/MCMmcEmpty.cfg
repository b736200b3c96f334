SPECIFICATION Spec
CONSTANTS
  u1 = u1
  u2 = u2
  m1 = m1
  m2 = m2
  m3 = m3
  a = a
  b = b
  e = e
  g = g
  Nil = Nil
  One = One
  NoFile = NoFile
  Users <- MCUsers
  Maps <- MCMaps
  Files <- MCEmptyFiles
  Size <- MCSize
  HashOf <- MCHashOf
  InitialHashSize = 4
  HashSizes = {4, 8, 16, 32}
  DefaultExpireAge = 4
  DesiredFreeCount = 1
  DesiredMaxMappedFiles = 2
  DesiredMaxMappedBytes = 2
  TickLen = 6
  MaxRefs = 3
SYMMETRY Symmetry
INVARIANT UnmapFinds
