\* A move concurrent with a removal.
CONSTANTS
  r1 = r1  r2 = r2  r3 = r3  r4 = r4  t1 = t1  t2 = t2  t3 = t3  t4 = t4  t5 = t5  t6 = t6
  Nil = Nil
  Rows = {r1, r2, r3, r4}
  InitRows = {r1, r2, r3, r4}
  Song <- DistinctSongs
  Adders = {}
  Removers = {t1}
  Movers = {t2}
SPECIFICATION Spec
PROPERTY RemoveKeepsOrder
