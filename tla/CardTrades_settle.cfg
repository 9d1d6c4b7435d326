SPECIFICATION Spec
CONSTANTS r1 = r1
  ann = ann  ben = ben  cleo = cleo  club = club  team = team
  c1 = c1  c2 = c2  c3 = c3  c4 = c4  c5 = c5
  Users = {ann, ben}
  Groups = {club}
  Copies = {c1, c2, c3, c4, c5}
  Nowhere = Nowhere
  Gone = Gone
  MaxTrades = 3
  MaxAgreed = 1
  MaxQuantity = 3
  Requests = {r1}
  NoRequest = NoRequest
  SupplyOrder <- InOrder
  InitPlace <- SettlePlace
  InitOffered <- SettleOffered
  InitWish <- WantsThree
  Collectors = {ann}
  Scope = {"settling"}
INVARIANTS TypeOK OneLiveTrade SplitsConserveQuantity PinsAreOwed
  PinsCoverQuantity RetriesSettleOnce
PROPERTIES ImplementsAgreement
CHECK_DEADLOCK FALSE
