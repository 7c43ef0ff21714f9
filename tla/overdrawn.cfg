CONSTANTS
  Creators = {c1}
  Addresses = {a1}
  OwnerOf <- MCOwnerOf
  Requests = {q1}
  Amounts = {1}
  MaxSettled = 1
  MaxRows = 2
  MaxAnchored = 0
  MaxDay = 2
  None = None
SPECIFICATION Spec
CHECK_DEADLOCK FALSE
INVARIANTS NeverOverdrawn
