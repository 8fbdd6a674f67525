SPECIFICATION FairSpec
CONSTANTS
  root = root
  u1 = u1
  u2 = u2
  u3 = u3
  u4 = u4
  g1 = g1
  a1 = a1
  a2 = a2
  b1 = b1
  None = None
  Units = {root, u1, u2}
  Grants = {g1}
  Root = root
  Cells = {a1, a2, b1}
  KindOf <- AtomKinds
  Offered = {{a1, a2}, {a1, b1}}
  Depths = {0, 1}
  RootDepth = 2
  MaxLevel = 2
  Renewal = TRUE
  Later = TRUE
INVARIANTS TypeOK BooksFollow
PROPERTIES OnlyWideningsWiden HeldComesBack
CHECK_DEADLOCK FALSE
