SPECIFICATION SyncSpec
CONSTANTS
  ann = ann  ben = ben  club = club
  Users = {ann, ben}
  Groups = {club}
  Viewer = ann
  Copies = {1, 2, 3, 4, 5, 6}
  PageLimit = 1
  InitHome <- OneEach
  Absent = Absent
  Unknown = Unknown
  Written = {1, 2}
  OwnOps = {"add", "move", "dispose"}
  MaxXid = 4
INVARIANTS WatermarkIsSafe StoreCatchesUp ReadsAreBounded OwnWritesStay
CHECK_DEADLOCK FALSE
