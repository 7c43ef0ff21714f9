CONSTANTS
  p = p
  a = a
  b = b
  Accounts = {p, a, b}
  Usdc = usdc
  OrderRefs = {o1, o2}
  Totals <- MCTotals
  Lists <- MCLists
  FeeBps = 500
  Denominator = 10000
  MaxRecipients = 3
  MaxInt = 120000000
  Deposit = 19050
  MaxDeposits = 2
  Cent = 100
  None = None
SPECIFICATION MirrorSpec
INVARIANTS TypeOK EventsExplainBalances SplitIsExact RecordMatchesPayment PreviewIsClose
PROPERTIES IsAtomic
