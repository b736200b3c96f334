SPECIFICATION FairSpec
CONSTANTS
  u1 = u1
  u2 = u2
  m1 = m1
  m2 = m2
  m3 = m3
  a = a
  b = b
  e = e
  g = g
  Nil = Nil
  One = One
  NoFile = NoFile
  Users <- MCOneUser
  Maps <- MCTwoMaps
  Files <- MCFullFiles
  Size <- MCSize
  HashOf <- MCHashOf
  InitialHashSize = 4
  HashSizes = {4, 8, 16, 32}
  DefaultExpireAge = 40
  DesiredFreeCount = 0
  DesiredMaxMappedFiles = 2
  DesiredMaxMappedBytes = 1
  TickLen = 40
  MaxRefs = 2
PROPERTIES
  UnusedExpire
  AgeRecovers
