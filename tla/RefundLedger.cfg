SPECIFICATION LedgerSpec
CONSTANTS
  c1 = c1  c2 = c2  c3 = c3  o1 = o1  t1 = t1  t2 = t2  t3 = t3  k1 = k1  k2 = k2
  Blank = Blank  Nothing = Nothing
  Calls = {c1, c2, c3}
  Orders = {o1}
  Tenants = {t1, t2, t3}
  Keys = {k1, k2}
  Owned <- SharedOrderId
INVARIANT WinnerIsReadable
PROPERTY AtMostOnce
SYMMETRY CallSymmetry
