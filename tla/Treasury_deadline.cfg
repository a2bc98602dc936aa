CONSTANTS
  p1 = p1
  l1 = l1
  d1 = d1
  i1 = i1
  p2 = p2
  l2 = l2
  i2 = i2
  h1 = h1
  Nobody = Nobody
  Orders = {p1, l1}
  LiveOrders = {l1}
  Gassed = {l1}
  Unbookable = {}
  Authorities = {d1, i1}
  AuthorityOf <- MCAuthorityOf
  Runners = {r1, r2}
  HostOf <- OneHost
  Treasurers = {t1, t2}
  MaxCrashes = 0
SPECIFICATION FairSpec
PROPERTY DeadlineResolves
