CONSTANTS
  Users = {u1}
  Products = {p1}
  OwnerOf <- MCOwnerOf
  w1 = w1
  w2 = w2
  s1 = s1
  s2 = s2
  s3 = s3
  Wallets = {w1, w2}
  Splits = {s1, s2, s3}
  WalletsOf <- MCWalletsOf
  Whole = {s1, s2}
  Parts <- MCParts
  Requests = {q1, q2, q3}
  None = None
SPECIFICATION Spec
SYMMETRY RequestSymmetry
INVARIANTS TypeOK SplitReplaced SiteIsOneRequest
