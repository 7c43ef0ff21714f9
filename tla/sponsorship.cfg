CONSTANTS
  Creators = {c1}
  Wallets = {w1, w2}
  OwnerOf <- MCOwnerOf
  Tabs = {t1}
  UserOf <- MCUserOf
  Requests = {q1, q2}
  MaxAttempts = 2
  MaxTx = 2
  MaxNumber = 1
  None = None
SPECIFICATION Spec
SYMMETRY PageSymmetry
INVARIANTS TypeOK  PaidOncePerWallet
VIEW LiveState
