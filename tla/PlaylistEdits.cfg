\* Any three requests of the kinds of edits; the added track may carry the
\* song of r1, which may be being removed.
CONSTANTS
  r1 = r1  r2 = r2  r3 = r3  r4 = r4  t1 = t1  t2 = t2  t3 = t3  t4 = t4  t5 = t5  t6 = t6
  Nil = Nil
  Rows = {r1, r2, r3, r4, r5}
  InitRows = {r1, r2, r3}
  Song <- SharedSong
  Adders = {t1, t6}
  Removers = {t2, t3}
  Movers = {t4, t5}
SPECIFICATION BoundedSpec
INVARIANTS
  TypeOK
  GaplessUnlessRaced
PROPERTIES
  ImplementsOrder
  RequestsEnd
