----------------------------- MODULE MCCopySync -----------------------------
(* Instances of CopySync for TLC: ann's client, ben the other member.      *)
(* Copies 1 and 2 are written; copies 3 to 6 only fill pages.              *)
EXTENDS CopySync
CONSTANTS ann, ben, club

OneEach == [c \in Copies |-> IF c = 1 THEN ann ELSE IF c = 2 THEN club ELSE Absent]

(* ann's client has read six copies; since then one transaction disposed   *)
(* of four and another touched two.  With pages of one row the changed     *)
(* rows are drained first and start over, and the deletions end between    *)
(* two of their pages: the read takes five requests, not four.             *)
SixRead ==
  /\ nextXid = 4 /\ active = {}
  /\ rows = [c \in Copies |-> IF c > 2 THEN Absent ELSE Row(ann, TRUE, 3)]
  /\ tombs = [c \in Copies |-> IF c > 2 THEN [owner |-> ann, xid |-> 2] ELSE Absent]
  /\ pruned = None
  /\ members = [g \in Groups |-> Users]
  /\ lists = Reachable(Viewer) /\ known = Reachable(Viewer)
  /\ store = [c \in Copies |-> [home |-> ann, reserved |-> FALSE]]
  /\ synced = 2 /\ read = NoRead
  /\ mine = NoWrite
  /\ quiet = FALSE /\ blind = {} /\ replaced = {} /\ inverted = {}
  /\ overtaken = {} /\ own = ReadOnly

(* The same, but ann's client has read both copies and writes too.         *)
Writing ==
  /\ nextXid = 3 /\ active = {}
  /\ rows = [c \in Copies |-> IF InitHome[c] = Absent THEN Absent
                                                     ELSE Row(InitHome[c], FALSE, 1)]
  /\ tombs = [c \in Copies |-> Absent] /\ pruned = None
  /\ members = [g \in Groups |-> Users]
  /\ lists = Reachable(Viewer) /\ known = Reachable(Viewer)
  /\ store = Wanted /\ synced = 3
  /\ read = NoRead /\ mine = NoWrite
  /\ quiet = TRUE /\ blind = {} /\ replaced = {} /\ inverted = {}
  /\ overtaken = {} /\ own = NoOwn

(* The same, but ann is not in the club; one more transaction is left, so  *)
(* that she may join, put a copy into its collection and leave again.      *)
Joining ==
  /\ nextXid = 2 /\ active = {}
  /\ rows = [c \in Copies |-> IF c = 1 THEN Row(ann, FALSE, 1) ELSE Absent]
  /\ tombs = [c \in Copies |-> Absent] /\ pruned = None
  /\ members = [g \in Groups |-> {ben}]
  /\ lists = Reachable(Viewer) /\ known = Reachable(Viewer)
  /\ store = Wanted /\ synced = 2
  /\ read = NoRead /\ mine = NoWrite
  /\ quiet = TRUE /\ blind = {} /\ replaced = {} /\ inverted = {}
  /\ overtaken = {} /\ own = NoOwn

Reading == (Init /\ own = ReadOnly) \/ SixRead
ReadingSpec == Reading /\ [][Next]_vars
SyncSpec == (Reading \/ Writing \/ Joining) /\ [][Next]_vars
=============================================================================
