CONSTANTS
  p1 = p1
  p2 = p2
  l1 = l1
  l2 = l2
  d1 = d1
  i1 = i1
  i2 = i2
  h1 = h1
  Nobody = Nobody
  Orders = {p1, p2, l1, l2}
  LiveOrders = {l1, l2}
  Gassed = {l1}
  Unbookable = {l2}
  Authorities = {d1, i1, i2}
  AuthorityOf <- MCAuthorityOf
  Runners = {r1, r2}
  HostOf <- OneHost
  Treasurers = {t1, t2}
  MaxCrashes = 2
SPECIFICATION Spec
SYMMETRY Symmetry
INVARIANTS
  TypeOK
  OneRunner
  OneAuthorityOpen
  BookedOnce
  SentOnce
  OutcomeEvidenced
  IInv
PROPERTY LifeSpec
