SPECIFICATION Spec
CONSTANTS r1 = r1
  ann = ann  ben = ben  cleo = cleo  club = club  team = team
  c1 = c1  c2 = c2  c3 = c3  c4 = c4  c5 = c5
  Users = {ann, ben}
  Groups = {club}
  Copies = {c1, c2, c3}
  Nowhere = Nowhere
  Gone = Gone
  MaxTrades = 1
  MaxAgreed = 1
  MaxQuantity = 2
  Requests = {}
  NoRequest = NoRequest
  SupplyOrder <- InOrder
  InitPlace <- SupplyPlace
  InitOffered <- SupplyOffered
  InitWish <- EveryoneWants
  Collectors = {ann}
  Scope = {"names", "copies", "adding", "lists", "loans", "settling", "members"}
INVARIANTS PromisedOnce LiveTradesAreBetweenMembers
PROPERTIES PromisedCopyKept SettledTradeStaysOpen
CHECK_DEADLOCK FALSE
