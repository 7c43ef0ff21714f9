CONSTANTS
  Creators = {c1}
  Addresses = {a1}
  OwnerOf <- MCOwnerOf
  Requests = {q1, q2}
  Amounts = {1, 2}
  MaxSettled = 1
  MaxRows = 3
  MaxAnchored = 1
  MaxDay = 2
  None = None
SPECIFICATION Spec
CHECK_DEADLOCK FALSE
SYMMETRY RequestSymmetry
INVARIANTS TypeOK NumbersInSequence
PROPERTIES CompletedForGood
