CONSTANTS
  Orders = {o1}
  Products = {p1}
  Creators = {c1}
  ProductOf <- MCProductOf
  CreatorOf <- MCCreatorOf
  Refs = {o1}
  Notifiable <- MCNotifiable
  SerialWebhooks = TRUE
  Addresses = {a1}
  Rosters = {r1, r2, r3}
  NoRoster = {}
  Settleable = {r1, r2}
  Payable = {r1}
  Calls = {n1, n2}
  Conns = {k1}
  Workers = {w1, w2}
  Boot = boot
  Hash = {h1, h2}
  Placeholder = placeholder
  MaxRetries = 2
  Limit <- OnlyRpc
  None = None
SPECIFICATION Spec
CHECK_DEADLOCK FALSE
SYMMETRY HashSymmetry
INVARIANTS FailedMeansUnpaid
