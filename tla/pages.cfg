CONSTANTS
  Slots = {s1, s2}
  None = None
  MaxPolls = 2
  MaxOrders = 2
  MaxVisits = 1
  MaxAnchorPolls = 2
  MaxAnchorTx = 1
  MaxSends = 2
  MaxReceipts = 2
  MaxWithdrawals = 2
  MaxOpenings = 2
  MaxProducts = 2
  MaxSheets = 2
  MaxTyped = 3
  MaxSiteVisits = 2
SPECIFICATION FairSpec
CHECK_DEADLOCK FALSE
INVARIANTS PagesTypeOK CardIsTrue SentOnce MadeOnce FieldsStayUncrossed
           EditorShowsStored
PROPERTIES WaitingIsKept PollingEnds
