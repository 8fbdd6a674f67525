SPECIFICATION RenewalsOnly
CONSTANTS
  root = root
  u1 = u1
  u2 = u2
  u3 = u3
  u4 = u4
  g1 = g1
  a1 = a1
  a2 = a2
  b1 = b1
  None = None
  Units = {root, u1, u2, u3, u4}
  Grants = {}
  Root = root
  Cells = {a1}
  KindOf <- AtomKinds
  Offered = {{a1}}
  Depths = {0, 1, 2}
  RootDepth = 3
  MaxLevel = 3
  Renewal = TRUE
  Later = FALSE
INVARIANTS NoUnitUnderItself
CHECK_DEADLOCK FALSE
