CONSTANTS
  Emails = {e1, e2}
  Names = {n1}
  Wallets = {w1}
  Calls = {q1, q2}
  Flows = {f1, f2}
  FixedSecret = TRUE
  MaxTokens = 2
  MaxChallenges = 1
  MaxBoots = 2
  None = None
SPECIFICATION Spec
CHECK_DEADLOCK FALSE
SYMMETRY BrowserSymmetry
INVARIANTS TypeOK DoneIsRegistered WalletFollowsWizard OneLoginPerChallenge
PROPERTIES SessionStays
VIEW LiveState
