SPECIFICATION ReadingSpec
CONSTANTS
  ann = ann  ben = ben  club = club
  Users = {ann, ben}
  Groups = {club}
  Viewer = ann
  Copies = {1, 2}
  PageLimit = 1
  InitHome <- OneEach
  Absent = Absent
  Unknown = Unknown
  Written = {1, 2}
  OwnOps = {}
  MaxXid = 4
INVARIANT StoreIsExact
CHECK_DEADLOCK FALSE
