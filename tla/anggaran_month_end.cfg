SPECIFICATION SeededSpec
CONSTANTS
  NoNode = NoNode
  NoRow = NoRow
  Clean = Clean
  Keep = Keep
  Garbled = Garbled
  akar = akar
  k = k
  a = a
  b = b
  Node = {akar, k, a, b}
  Parent <- MCParent
  Depth <- MCDepth
  Tahun = {2025, 2026}
  MaxAmount = 25
  Tx = {t1, t2}
  Request <- MonthEndRequests
INVARIANTS
  ForestConsistent
  DerivedFresh
PROPERTIES
  AtomicSteps
SYMMETRY TxSymmetry
