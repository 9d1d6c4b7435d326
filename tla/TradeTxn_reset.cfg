SPECIFICATION Spec
CONSTANTS
  p1 = p1  p2 = p2  p3 = p3
  c1 = c1  c2 = c2  c3 = c3  c4 = c4  club = club
  Txns = {p1, p2, p3}
  Starts <- ResetStarts
  Copies = {c1, c2, c3, c4}
  Groups = {club}
  Trades = {1, 2}
  TradeRows <- TradesOfGiver
  InitPending = {1}
  Nobody = Nobody
  SupplyOrder <- InOrder
INVARIANTS ReservedIsCovered
CHECK_DEADLOCK FALSE
