SPECIFICATION Spec
CONSTANTS
  bob = bob  l1 = l1  l2 = l2  c1 = c1  c2 = c2  p1 = p1  p2 = p2
  LoanIds = {l1, l2}
  Copies = {c1, c2}
  Friends = {bob}
  Named = Named
  Requests = {p1, p2}
  MaxQuantity = 2
SYMMETRY Interchangeable
INVARIANTS TypeOK PinsAreOut OutIsPinned EachCopyOnce
PROPERTIES ImplementsLedger
CHECK_DEADLOCK FALSE
