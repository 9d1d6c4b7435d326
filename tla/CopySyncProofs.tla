-------------------------- MODULE CopySyncProofs --------------------------
(***************************************************************************)
(* Proofs about CopySync, for every set of users, groups and copies, every *)
(* size of a page and any number of transactions: that the watermarks are  *)
(* safe, that the store is right up to them and keeps the client's own     *)
(* writes, and that a read which nothing disturbs comes to an end.         *)
(***************************************************************************)
EXTENDS CopySync, TLAPS, WellFoundedInduction, FiniteSetTheorems

(* A watermark that no transaction, running or to come, is below.          *)
Safe(w) == w \in Nat /\ w <= nextXid /\ \A x \in active : w <= x

XidsInv == nextXid \in Nat \ {0} /\ active \subseteq 1..nextXid - 1

(* Every watermark the client holds or a read carries is safe: they are    *)
(* taken at different requests, and kept while others begin and end.       *)
ReadInv ==
  /\ {"phase", "since", "accessible", "safe", "pin", "xid"} \subseteq DOMAIN read
  /\ Safe(read.safe) /\ Safe(read.pin) /\ Safe(read.xid)

IInv == XidsInv /\ Safe(synced) /\ ReadInv

LEMMA LeastNumber ==
  ASSUME NEW T \in SUBSET Nat, T # {}
  PROVE  \E x \in T : \A y \in T : x <= y
<1> DEFINE less == {s \in Nat \X Nat : s[1] < s[2]}
<1>1. IsWellFoundedOn(less, Nat)
  BY NatLessThanWellFounded DEF OpToRel
<1>2. PICK x \in T : \A y \in T : <<y, x>> \notin less
  <2> HIDE DEF less
  <2> QED
    BY <1>1, WFMin
<1>3. ASSUME NEW y \in T PROVE x <= y
  <2>1. CASE y < x
    <3>1. <<y, x>> \in less
      BY <2>1
    <3> QED
      BY <1>2, <3>1
  <2> QED
    BY <2>1
<1> QED
  BY <1>3

(* pg_snapshot_xmin is safe at the moment it is asked for.                 *)
LEMMA SafeXidIsSafe ==
  ASSUME XidsInv
  PROVE  Safe(SafeXid)
<1> DEFINE T == active \cup {nextXid}
<1>1. T \subseteq Nat /\ T # {}
  BY DEF XidsInv
<1>2. \E x \in T : \A y \in T : x <= y
  BY <1>1, LeastNumber
<1>3. SafeXid \in T /\ \A y \in T : SafeXid <= y
  BY <1>2 DEF SafeXid
<1> QED
  BY <1>1, <1>3 DEF Safe

LEMMA NoneIsSafe ==
  ASSUME XidsInv
  PROVE  Safe(None)
  BY DEF XidsInv, Safe, None

(* Transactions end, and no watermark is taken.                            *)
LEMMA EndingKeepsIInv ==
  ASSUME IInv, nextXid' = nextXid, active' \subseteq active,
         synced' = synced, read' = read
  PROVE  IInv'
  BY DEF IInv, XidsInv, ReadInv, Safe

(* The client takes over a watermark, or goes on reading.                  *)
LEMMA ReadingKeepsIInv ==
  ASSUME IInv, UNCHANGED <<nextXid, active>>, Safe(synced)', ReadInv'
  PROVE  IInv'
  BY DEF IInv, XidsInv

LEMMA NoReadIsSound ==
  ASSUME XidsInv', read' = NoRead
  PROVE  ReadInv'
<1>1. None \in Nat /\ None <= nextXid' /\ \A x \in active' : None <= x
  <2>1. nextXid' \in Nat
    BY DEF XidsInv
  <2>2. active' \subseteq 1..nextXid' - 1
    BY DEF XidsInv
  <2>3. \A x \in active' : x \in Nat
    BY <2>2
  <2> QED
    BY <2>1, <2>3 DEF None
<1>2. /\ {"phase", "since", "accessible", "safe", "pin", "xid"} \subseteq DOMAIN NoRead
      /\ NoRead.safe = None /\ NoRead.pin = None /\ NoRead.xid = None
  BY DEF NoRead
<1> QED
  BY <1>1, <1>2 DEF ReadInv, Safe

LEMMA StartedIsSound ==
  ASSUME XidsInv', NEW cached, read' = Started(cached)
  PROVE  ReadInv'
<1>1. /\ DOMAIN Started(cached) = DOMAIN NoRead
      /\ Started(cached).safe = NoRead.safe /\ Started(cached).pin = NoRead.pin
      /\ Started(cached).xid = NoRead.xid
  BY DEF Started, NoRead
<1>2. /\ {"phase", "since", "accessible", "safe", "pin", "xid"} \subseteq DOMAIN NoRead
      /\ NoRead.safe = None /\ NoRead.pin = None /\ NoRead.xid = None
  BY DEF NoRead
<1>3. None \in Nat /\ None <= nextXid' /\ \A x \in active' : None <= x
  <2>1. nextXid' \in Nat
    BY DEF XidsInv
  <2>2. active' \subseteq 1..nextXid' - 1
    BY DEF XidsInv
  <2>3. \A x \in active' : x \in Nat
    BY <2>2
  <2> QED
    BY <2>1, <2>3 DEF None
<1> QED
  BY <1>1, <1>2, <1>3 DEF ReadInv, Safe

LEMMA FinishedIsSound ==
  ASSUME IInv, UNCHANGED <<nextXid, active>>, NEW r, FinishRead(r), Safe(r.xid)
  PROVE  IInv'
<1>1. read' = NoRead /\ synced' = (IF r.xid = None THEN synced ELSE r.xid)
  BY DEF FinishRead
<1>2. Safe(synced)'
  BY <1>1 DEF IInv, Safe
<1>3. XidsInv'
  BY DEF IInv, XidsInv
<1> QED
  BY <1>1, <1>2, <1>3, NoReadIsSound, ReadingKeepsIInv

-----------------------------------------------------------------------------
LEMMA InitIsSafe == Init => IInv
<1> SUFFICES ASSUME Init PROVE IInv
  OBVIOUS
<1>1. XidsInv /\ Safe(synced)
  BY DEF Init, XidsInv, Safe, None
<1>2. ReadInv
  BY <1>1 DEF Init, ReadInv, NoRead, Safe, None, XidsInv
<1> QED
  BY <1>1, <1>2 DEF IInv

LEMMA WritesAreSafe ==
  ASSUME IInv, NEW x \in active, Write(x)
  PROVE  IInv'
<1> USE DEF client, db, history
<1> DEFINE Kept == /\ nextXid' = nextXid /\ active' \subseteq active
                   /\ synced' = synced /\ read' = read
<1>1. Kept
  <2>1. CASE Serve(x)
    BY <2>1 DEF Serve, AddCopy, MoveCopy, DisposeCopy, Commit, Ended
  <2>2. CASE Rollback(x)
    BY <2>2 DEF Rollback
  <2>3. ASSUME NEW u \in Users, NEW c \in Written, NEW h \in Homes,
               AddCopy(x, u, c, h) \/ MoveCopy(x, u, c, h)
        PROVE  Kept
    BY <2>3 DEF AddCopy, MoveCopy, Commit, Ended
  <2>4. ASSUME NEW c \in Written, TouchCopy(x, c) \/ \E u \in Users : DisposeCopy(x, u, c)
        PROVE  Kept
    BY <2>4 DEF TouchCopy, DisposeCopy, Commit, Ended
  <2>5. ASSUME NEW old, Purge(x, old)
        PROVE  Kept
    BY <2>5 DEF Purge, Ended
  <2>6. ASSUME NEW g \in Groups, LeaveGroup(x, g) \/ JoinGroup(x, g) \/ DeleteGroup(x, g)
        PROVE  Kept
    BY <2>6 DEF LeaveGroup, JoinGroup, ChangeMembership, DeleteGroup, Commit, Ended
  <2> QED
    BY <2>1, <2>2, <2>3, <2>4, <2>5, <2>6 DEF Write
<1> QED
  BY <1>1, EndingKeepsIInv

LEMMA ServerIsSafe ==
  ASSUME IInv, Server
  PROVE  IInv'
<1>1. CASE Begin
  <2>1. /\ nextXid' = nextXid + 1 /\ active' = active \cup {nextXid}
        /\ synced' = synced /\ read' = read
    BY <1>1 DEF Begin, client
  <2>2. XidsInv'
    BY <2>1 DEF IInv, XidsInv
  <2>3. \A w : Safe(w) => Safe(w)'
    BY <2>1 DEF IInv, XidsInv, Safe
  <2> QED
    BY <2>1, <2>2, <2>3 DEF IInv, ReadInv, Safe
<1>2. CASE \E x \in active : Write(x)
  BY <1>2, WritesAreSafe
<1> QED
  BY <1>1, <1>2 DEF Server

LEMMA ReadStepsAreSafe ==
  ASSUME IInv, ReadStep
  PROVE  IInv'
<1> USE DEF db
<1>1. CASE CheckWatermark
  <2>1. Safe(PinWatermark(read.pin)) /\ Safe(SafeXid)
    BY SafeXidIsSafe DEF IInv, ReadInv, PinWatermark
  <2>2. UNCHANGED <<nextXid, active, synced>>
    BY <1>1 DEF CheckWatermark
  <2>3. /\ DOMAIN read' = DOMAIN read
        /\ read'.safe = SafeXid /\ read'.pin = PinWatermark(read.pin) /\ read'.xid = read.xid
    BY <1>1 DEF CheckWatermark, IInv, ReadInv
  <2> QED
    BY <2>1, <2>2, <2>3, ReadingKeepsIInv DEF IInv, ReadInv, Safe
<1>2. CASE ReadChanged \/ ReadDeletions \/ FallBack
  <2>1. /\ UNCHANGED <<nextXid, active, synced>>
        /\ DOMAIN read' = DOMAIN read
        /\ read'.safe = read.safe /\ read'.pin = read.pin /\ read'.xid = read.xid
    BY <1>2 DEF ReadChanged, ReadDeletions, FallBack, IInv, ReadInv
  <2> QED
    BY <2>1, ReadingKeepsIInv DEF IInv, ReadInv, Safe
<1>3. CASE TakeDeltaPage
  <2> DEFINE before == IF read.deleted = Unknown THEN {} ELSE read.deleted
             taken == [read EXCEPT !.items = Over(read.rows.items, @),
                                   !.deleted = before \cup Ids(read.gone.page)]
             last == [taken EXCEPT !.xid = read.pin]
             more == [taken EXCEPT !.phase = "check", !.rowAt = NextAt(read.rows.page),
                                   !.goneAt = NextAt(read.gone.page)]
  <2>1. UNCHANGED <<nextXid, active>>
    BY <1>3 DEF TakeDeltaPage
  <2>2. FinishRead(last) \/ (read' = more /\ UNCHANGED synced)
    BY <1>3 DEF TakeDeltaPage
  <2>3. DOMAIN taken = DOMAIN read /\ taken.xid = read.xid
        /\ taken.safe = read.safe /\ taken.pin = read.pin
    OBVIOUS
  <2>4. last.xid = read.pin
    BY <2>3 DEF IInv, ReadInv
  <2>5. DOMAIN more = DOMAIN taken /\ more.xid = taken.xid
        /\ more.safe = taken.safe /\ more.pin = taken.pin
    OBVIOUS
  <2> HIDE DEF taken, last, more
  <2>6. CASE FinishRead(last)
    BY <2>1, <2>4, <2>6, FinishedIsSound DEF IInv, ReadInv
  <2>7. CASE read' = more /\ UNCHANGED synced
    BY <2>1, <2>3, <2>5, <2>7, ReadingKeepsIInv DEF IInv, ReadInv, Safe
  <2> QED
    BY <2>2, <2>6, <2>7
<1>4. CASE TakeFullPage
  <2> DEFINE found == Found({[id |-> c, xid |-> None] : c \in VisibleRows},
                              [xid |-> None, id |-> read.cursor])
             clean == IF read.deleted = Unknown THEN read
                      ELSE [read EXCEPT !.items = <<>>, !.deleted = Unknown, !.xid = None]
             taken == [clean EXCEPT !.items = Over(AsItems(Page(found)), @),
                                    !.xid = IF @ = None THEN read.safe ELSE @]
             more == [taken EXCEPT !.phase = "check", !.pin = None,
                                   !.cursor = LastOf(Page(found)).id,
                                   !.rowAt = Start, !.goneAt = Start]
  <2>1. UNCHANGED <<nextXid, active>>
    BY <1>4 DEF TakeFullPage
  <2>2. FinishRead(taken) \/ (read' = more /\ UNCHANGED synced)
    BY <1>4 DEF TakeFullPage
  <2>3. /\ DOMAIN clean = DOMAIN read /\ clean.xid \in {read.xid, None}
        /\ clean.safe = read.safe /\ clean.pin = read.pin
    BY DEF IInv, ReadInv
  <2> HIDE DEF clean
  <2>4. /\ DOMAIN taken = DOMAIN clean /\ taken.xid \in {read.xid, read.safe, None}
        /\ taken.safe = clean.safe /\ taken.pin = clean.pin
    BY <2>3 DEF IInv, ReadInv
  <2>5. /\ DOMAIN more = DOMAIN taken /\ more.xid = taken.xid
        /\ more.safe = taken.safe /\ more.pin = None
    BY <2>3, <2>4 DEF IInv, ReadInv
  <2>6. Safe(taken.xid) /\ Safe(None)
    BY <2>4, NoneIsSafe DEF IInv, ReadInv
  <2> HIDE DEF found, taken, more
  <2>7. CASE FinishRead(taken)
    BY <2>1, <2>6, <2>7, FinishedIsSound
  <2>8. CASE read' = more /\ UNCHANGED synced
    BY <2>1, <2>3, <2>4, <2>5, <2>6, <2>8, ReadingKeepsIInv DEF IInv, ReadInv, Safe
  <2> QED
    BY <2>2, <2>7, <2>8
<1> QED
  BY <1>1, <1>2, <1>3, <1>4 DEF ReadStep

LEMMA OwnWritesAreSafe ==
  ASSUME IInv, OwnWrite
  PROVE  IInv'
<1> USE DEF db, client, history
<1>1. UNCHANGED <<nextXid, active, synced>>
  BY DEF OwnWrite, Send, TakeAnswer, GiveUp
<1>2. \/ read' = read
      \/ \E cached : read' = Started(cached)
  BY DEF OwnWrite, Send, TakeAnswer, GiveUp, Settle
<1>3. ReadInv'
  BY <1>1, <1>2, StartedIsSound DEF IInv, XidsInv, ReadInv, Safe
<1> QED
  BY <1>1, <1>3, ReadingKeepsIInv DEF IInv, Safe

(* Every step keeps every watermark safe.                                  *)
LEMMA NextIsSafe == IInv /\ [Next]_vars => IInv'
<1> SUFFICES ASSUME IInv, [Next]_vars PROVE IInv'
  OBVIOUS
<1>1. CASE Server
  BY <1>1, ServerIsSafe
<1>2. CASE RefreshLists
  BY <1>2, EndingKeepsIInv DEF RefreshLists, db
<1>3. CASE StartRead
  <2>1. UNCHANGED <<nextXid, active, synced>> /\ read' = Started(store)
    BY <1>3 DEF StartRead, db
  <2> QED
    BY <2>1, StartedIsSound, ReadingKeepsIInv DEF IInv, XidsInv, Safe
<1>4. CASE ReadStep
  BY <1>4, ReadStepsAreSafe
<1>5. CASE AbandonRead
  <2>1. UNCHANGED <<nextXid, active, synced>> /\ read' = NoRead
    BY <1>5 DEF AbandonRead, db
  <2> QED
    BY <2>1, NoReadIsSound, ReadingKeepsIInv DEF IInv, XidsInv, Safe
<1>6. CASE OwnWrite
  BY <1>6, OwnWritesAreSafe
<1>7. CASE UNCHANGED vars
  BY <1>7, EndingKeepsIInv DEF vars, db, client
<1> QED
  BY <1>1, <1>2, <1>3, <1>4, <1>5, <1>6, <1>7 DEF Next

(* Every watermark of the client, of a read or of one of its pages is safe *)
(* from the moment it is taken and stays so.                               *)
THEOREM WatermarksInvariant == Spec => []IInv
  BY InitIsSafe, NextIsSafe, PTL DEF Spec

(* The client never holds a watermark that a running transaction is below. *)
THEOREM WatermarkStaysSafe == Spec => []WatermarkIsSafe
<1>1. IInv => WatermarkIsSafe
  BY DEF IInv, Safe, WatermarkIsSafe
<1> QED
  BY <1>1, WatermarksInvariant, PTL

-----------------------------------------------------------------------------
(* What a watermark is worth: whatever a transaction commits is stamped at *)
(* or past the watermark the client holds, so that its next delta has the  *)
(* change, or the tombstone, in its window.                                *)
LaterChangesShow ==
  [][\A c \in Copies :
       /\ rows'[c] \notin {rows[c], Absent} => synced <= rows'[c].xid
       /\ tombs'[c] \notin {tombs[c], Absent} => synced <= tombs'[c].xid]_vars

TablesInv == DOMAIN rows = Copies /\ DOMAIN tombs = Copies

(* A transaction stamps what it changes with its own id.                   *)
Stamped(table, changed, x) ==
  /\ DOMAIN changed = Copies
  /\ \A c \in Copies : changed[c] \in {table[c], Absent} \/ changed[c].xid = x

LEMMA WritesStamp ==
  ASSUME TablesInv, NEW x, Write(x)
  PROVE  Stamped(rows, rows', x) /\ Stamped(tombs, tombs', x)
<1> DEFINE Done == Stamped(rows, rows', x) /\ Stamped(tombs, tombs', x)
<1>1. ASSUME NEW u, NEW c, NEW h, AddCopy(x, u, c, h)
      PROVE  Done
  BY <1>1 DEF AddCopy, Commit, Stamped, Row, TablesInv
<1>2. ASSUME NEW c, rows[c] # Absent
      PROVE  Stamped(tombs, Buried(c, x), x)
  BY DEF Buried, Stamped, TablesInv
<1>3. ASSUME NEW u, NEW c, NEW h, MoveCopy(x, u, c, h)
      PROVE  Done
  BY <1>2, <1>3 DEF MoveCopy, Commit, Stamped, Row, TablesInv, Existing
<1>4. ASSUME NEW c, TouchCopy(x, c)
      PROVE  Done
  BY <1>4 DEF TouchCopy, Commit, Stamped, Row, TablesInv
<1>5. ASSUME NEW u, NEW c, DisposeCopy(x, u, c)
      PROVE  Done
  BY <1>2, <1>5 DEF DisposeCopy, Commit, Stamped, TablesInv, Existing
<1>6. ASSUME NEW g, DeleteGroup(x, g)
      PROVE  Done
  BY <1>6 DEF DeleteGroup, Commit, Stamped, TablesInv
<1>7. ASSUME NEW old, Purge(x, old)
      PROVE  Done
  BY <1>7 DEF Purge, Stamped, TablesInv
<1>8. ASSUME Rollback(x) \/ \E g \in Groups : LeaveGroup(x, g) \/ JoinGroup(x, g)
      PROVE  Done
  BY <1>8 DEF Rollback, LeaveGroup, JoinGroup, ChangeMembership, Stamped, TablesInv
<1>9. CASE Serve(x)
  BY <1>1, <1>3, <1>5, <1>9 DEF Serve
<1> QED
  BY <1>1, <1>3, <1>4, <1>5, <1>6, <1>7, <1>8, <1>9 DEF Write

LEMMA OthersStamp ==
  ASSUME TablesInv, [Next]_vars
  PROVE  \/ \E x \in active : Write(x)
         \/ UNCHANGED <<rows, tombs>>
<1> USE DEF db, client, history
<1>1. CASE Begin \/ RefreshLists \/ StartRead \/ AbandonRead \/ UNCHANGED vars
  BY <1>1 DEF Begin, RefreshLists, StartRead, AbandonRead, vars
<1>2. CASE ReadStep
  BY <1>2 DEF ReadStep, CheckWatermark, ReadChanged, ReadDeletions, TakeDeltaPage,
              FallBack, TakeFullPage
<1>3. CASE OwnWrite
  BY <1>3 DEF OwnWrite, Send, TakeAnswer, GiveUp
<1> QED
  BY <1>1, <1>2, <1>3 DEF Next, Server

LEMMA TablesInvariant == Spec => []TablesInv
<1>1. Init => TablesInv
  BY DEF Init, TablesInv
<1>2. TablesInv /\ [Next]_vars => TablesInv'
  <2> SUFFICES ASSUME TablesInv, [Next]_vars PROVE TablesInv'
    OBVIOUS
  <2>1. ASSUME NEW x \in active, Write(x) PROVE TablesInv'
    BY <2>1, WritesStamp DEF Stamped, TablesInv
  <2>2. CASE UNCHANGED <<rows, tombs>>
    BY <2>2 DEF TablesInv
  <2> QED
    BY <2>1, <2>2, OthersStamp
<1> QED
  BY <1>1, <1>2, PTL DEF Spec

(* No change is ever committed behind the watermark of the client.         *)
THEOREM NothingCommitsBehind == Spec => LaterChangesShow
<1> DEFINE Shows == \A c \in Copies :
              /\ rows'[c] \notin {rows[c], Absent} => synced <= rows'[c].xid
              /\ tombs'[c] \notin {tombs[c], Absent} => synced <= tombs'[c].xid
<1>1. IInv /\ TablesInv /\ [Next]_vars => [Shows]_vars
  <2> SUFFICES ASSUME IInv, TablesInv, [Next]_vars PROVE Shows
    OBVIOUS
  <2>1. ASSUME NEW x \in active, Write(x) PROVE Shows
    <3>1. synced <= x
      BY DEF IInv, Safe
    <3> QED
      BY <2>1, <3>1, WritesStamp DEF Stamped
  <2> QED
    BY <2>1, OthersStamp
<1>2. Spec => [][Shows]_vars
  <2> HIDE DEF Shows
  <2> QED
    BY <1>1, WatermarksInvariant, TablesInvariant, PTL DEF Spec
<1> QED
  BY <1>2 DEF LaterChangesShow

-----------------------------------------------------------------------------
(* What the client's store holds.  A copy is followed through the tables d *)
(* of the database: the rows, the tombstones and how far these are pruned. *)
Tables == [rows |-> rows, tombs |-> tombs, pruned |-> pruned]

RowSet   == [home : Homes, reserved : BOOLEAN, xid : Nat]
TombSet  == [owner : Homes, xid : Nat]
Stamp(x) == x \in 1..nextXid - 1 /\ x \notin active

(* Every stamp is the id of a transaction that ended.                      *)
TypesInv ==
  /\ rows \in [Copies -> RowSet \cup {Absent}]
  /\ tombs \in [Copies -> TombSet \cup {Absent}]
  /\ \A c \in Copies : /\ rows[c] # Absent => Stamp(rows[c].xid)
                       /\ tombs[c] # Absent => Stamp(tombs[c].xid)
  /\ pruned = None \/ Stamp(pruned)
  /\ lists \in (SUBSET Homes) \cup {Unknown}
  /\ DOMAIN members = Groups

(* A copy stamped below its tombstone is known to be so.                   *)
StampOrder(d, c) ==
  d.rows[c] # Absent /\ d.tombs[c] # Absent => d.tombs[c].xid <= d.rows[c].xid
StampsInOrder == \A c \in Copies \ inverted : StampOrder(Tables, c)

(* What a read has behind it tells how it can go on.                       *)
Underway   == read.phase # "idle"
KeySet     == [id : Nat, xid : Nat]
ReadFields == {"phase", "since", "accessible", "cursor", "pin", "rowAt", "goneAt", "safe",
               "rows", "gone", "items", "deleted", "xid", "previous", "requests", "most"}
Shape(r) ==
  /\ DOMAIN r = ReadFields
  /\ r.phase \in {"idle", "check", "delta", "full"}
  /\ r.accessible \in (SUBSET Homes) \cup {Unknown}
  /\ r.deleted \in (SUBSET Copies) \cup {Unknown}
  /\ r.cursor \in Nat
  /\ r.pin = None => r.rowAt = Start /\ r.goneAt = Start /\ r.deleted = Unknown
  /\ r.phase = "delta" => r.since # None /\ r.pin # None
  /\ r.phase \in {"delta", "full"} => r.safe # None
  /\ r.phase = "delta" /\ r.rows # Unknown =>
       IsFiniteSet(r.rows.page) /\ r.rows.page \subseteq KeySet
  /\ r.phase = "delta" /\ r.gone # Unknown =>
       /\ IsFiniteSet(r.gone.page) /\ r.gone.page \subseteq KeySet
       /\ Ids(r.gone.page) \subseteq Copies
  /\ r.deleted # Unknown => r.since # None /\ r.xid = None
  /\ r.cursor = None /\ r.deleted = Unknown => DOMAIN r.items = {} /\ r.xid = None
  /\ r.cursor # None => r.deleted = Unknown /\ r.phase # "delta" /\ r.xid # None
(* A read that is answered in full is so to its end.                       *)
InFull(r) == r.phase = "full" \/ r.cursor # None => r.since = None \/ r.since <= pruned

(* How a read in progress relates to the store it will replace.            *)
ReadFits ==
  /\ lists = Unknown => known = Unknown
  /\ "read" \in blind => Underway
  /\ Underway =>
       /\ read.previous = store /\ read.since \in {None, synced}
       /\ read.accessible = Unknown => known = Unknown
       /\ lists = Unknown => read.accessible = Unknown
       /\ read.since # None /\ read.accessible # Unknown =>
            known # Unknown /\ read.accessible \subseteq known

(* A copy was last seen in home h, with everything below the watermark P   *)
(* known: it is still there, or something at or past P tells that it left. *)
Traced(d, h, P, c) ==
  \/ d.rows[c] # Absent /\ d.rows[c].home = h
  \/ P <= d.pruned
  \/ d.tombs[c] # Absent /\ d.tombs[c].owner = h /\ P <= d.tombs[c].xid

(* S is right about copy c and the homes H, but for what is stamped at or  *)
(* past P.                                                                 *)
Right(d, S, P, H, c) ==
  /\ d.rows[c] # Absent /\ d.rows[c].home \in H =>
       P <= d.rows[c].xid \/ (c \in DOMAIN S /\ S[c] = ToCopy(d.rows[c]))
  /\ c \in DOMAIN S => S[c].home \in H /\ Traced(d, S[c].home, P, c)

Excepted == replaced \cup inverted \cup overtaken
StoreRight ==
  known # Unknown /\ "store" \notin blind =>
    \A c \in Copies \ Excepted : Right(Tables, store, synced, known, c)

RowKey(d, c)  == [id |-> c, xid |-> d.rows[c].xid]
TombKey(d, c) == [id |-> c, xid |-> d.tombs[c].xid]
Within(r, x)  == r.since <= x /\ x < r.pin
Changed(d, r, c) ==
  d.rows[c] # Absent /\ d.rows[c].home \in r.accessible /\ Within(r, d.rows[c].xid)
Removed(d, r, c) ==
  d.tombs[c] # Absent /\ d.tombs[c].owner \in r.accessible /\ Within(r, d.tombs[c].xid)
Told(d, r, c) == r.since <= d.pruned \/ (d.tombs[c] # Absent /\ r.since <= d.tombs[c].xid)
GoneIds(r)    == IF r.deleted = Unknown THEN {} ELSE r.deleted

(* The full pages taken so far are right up to the cursor.                 *)
FullRight(d, r, but) ==
  r.cursor # None =>
    \A c \in Copies \ but :
      IF c <= r.cursor THEN Right(d, r.items, r.xid, r.accessible, c)
                       ELSE c \notin DOMAIN r.items

(* The delta pages taken so far are right, and have what is not past their *)
(* keysets.                                                                *)
ItemsRight(d, r, items, but) ==
  \A c \in (Copies \cap DOMAIN items) \ but : Right(d, items, r.pin, r.accessible, c)
RowsTaken(d, r) ==
  \A c \in Copies : Changed(d, r, c) => After(RowKey(d, c), r.rowAt) \/ c \in DOMAIN r.items
TombsTaken(d, r) ==
  \A c \in Copies : Removed(d, r, c) => After(TombKey(d, c), r.goneAt) \/ c \in GoneIds(r)
DeltaRight(d, r, but) ==
  r.cursor = None =>
    /\ ItemsRight(d, r, r.items, but) /\ RowsTaken(d, r) /\ TombsTaken(d, r)
    /\ \A c \in GoneIds(r) : Told(d, r, c)

(* The pages that are read and not yet taken.                              *)
RowPageRight(d, r, but) ==
  r.phase = "delta" /\ r.rows # Unknown =>
    /\ DOMAIN r.rows.items = Ids(r.rows.page)
    /\ ItemsRight(d, r, r.rows.items, but)
    /\ \A c \in Copies : Changed(d, r, c) /\ After(RowKey(d, c), r.rowAt) =>
         \/ c \in Ids(r.rows.page)
         \/ ~r.rows.drained /\ \A k \in r.rows.page : After(RowKey(d, c), k)
GonePageRight(d, r) ==
  r.phase = "delta" /\ r.gone # Unknown =>
    /\ \A c \in Ids(r.gone.page) : Told(d, r, c)
    /\ \A c \in Copies : Removed(d, r, c) /\ After(TombKey(d, c), r.goneAt) =>
         \/ c \in Ids(r.gone.page)
         \/ ~r.gone.drained /\ \A k \in r.gone.page : After(TombKey(d, c), k)
PagesRight(d, r, but) ==
  FullRight(d, r, but) /\ DeltaRight(d, r, but)
  /\ RowPageRight(d, r, but) /\ GonePageRight(d, r)

ReadRight ==
  Underway /\ read.accessible # Unknown /\ "read" \notin blind =>
    read.accessible = Reachable(Viewer) /\ PagesRight(Tables, read, replaced)

(* While nothing is committed beside a read, every stamp is below what the *)
(* read takes for its watermark.                                           *)
Below(d, w) ==
  /\ \A c \in Copies : /\ d.rows[c] # Absent => d.rows[c].xid < w
                       /\ d.tombs[c] # Absent => d.tombs[c].xid < w
  /\ d.pruned < w
QuietInv ==
  quiet =>
    /\ \A y \in active \cup {nextXid} : Below(Tables, y)
    /\ Underway => /\ read.accessible = Reachable(Viewer)
                   /\ \A w \in {read.safe, read.pin, read.xid} : w # None => Below(Tables, w)
    /\ ~Underway => known = Reachable(Viewer) /\ Below(Tables, synced)

(* The client's own write.  What a served write leaves until somebody else *)
(* changes the copy:                                                       *)
Ops == {"add", "move", "dispose"}
Left(d, w) ==
  w.op # "dispose" /\ d.rows[w.copy] # Absent /\ d.rows[w.copy].xid = w.xid =>
    /\ d.rows[w.copy].home = w.home
    /\ w.op = "add" => ~d.rows[w.copy].reserved
    /\ d.tombs[w.copy] = Absent \/ d.tombs[w.copy].xid = w.xid

MineInv ==
  /\ DOMAIN mine = {"op", "copy", "home", "xid", "fetched"}
  /\ mine.op \in Ops \cup {"none"}
  /\ mine.op = "none" => mine.xid = None
  /\ mine.op \in Ops => mine.copy \in Copies /\ mine.home \in Homes /\ lists # Unknown
  /\ mine.xid # None => Stamp(mine.xid) /\ Left(Tables, mine)

(* The client's last write stands, and a store shows it.                   *)
Stands(d, w, H) ==
  IF w.op = "dispose"
  THEN d.rows[w.copy] = Absent /\ d.tombs[w.copy] = [owner |-> w.home, xid |-> w.xid]
  ELSE d.rows[w.copy] # Absent /\ d.rows[w.copy].xid = w.xid /\ d.rows[w.copy].home \in H
ShownIn(S, d, w) ==
  IF w.op = "dispose" THEN w.copy \notin DOMAIN S
  ELSE w.copy \in DOMAIN S /\ S[w.copy].home = d.rows[w.copy].home
NotUndone(S, d, w) == w.copy \in DOMAIN S => ShownIn(S, d, w)
(* A read that lists the copy as deleted has its row too.                  *)
Covers(d, r, w, ids) ==
  w.copy \in ids /\ w.op # "dispose" => r.since <= d.pruned \/ Within(r, w.xid)

OwnPages(d, r, w) ==
  /\ r.cursor # None /\ w.copy <= r.cursor => ShownIn(r.items, d, w)
  /\ NotUndone(r.items, d, w) /\ Covers(d, r, w, GoneIds(r))
  /\ r.phase = "delta" /\ r.rows # Unknown => NotUndone(r.rows.items, d, w)
  /\ r.phase = "delta" /\ r.gone # Unknown => Covers(d, r, w, Ids(r.gone.page))

OwnInv ==
  /\ DOMAIN own = {"op", "copy", "home", "xid", "settled"}
  /\ own.op \in Ops =>
       /\ own.copy \in Copies /\ own.home \in Homes /\ lists # Unknown
       /\ Stamp(own.xid) /\ Left(Tables, own)
       /\ Underway => read.accessible # Unknown
       /\ Stands(Tables, own, Reachable(Viewer)) =>
            /\ "store" \notin blind => ShownIn(store, Tables, own)
            /\ Underway /\ "read" \notin blind => OwnPages(Tables, read, own)

ReadShape == Shape(read) /\ (Underway => InFull(read))
-----------------------------------------------------------------------------
(* Keyset pages *)

LEMMA KeysAreOrdered ==
  ASSUME NEW j \in KeySet, NEW k \in KeySet, NEW l \in KeySet
  PROVE  /\ ~After(k, k)
         /\ j # k => After(j, k) \/ After(k, j)
         /\ After(j, k) /\ After(k, l) => After(j, l)
<1>1. /\ j.id \in Nat /\ j.xid \in Nat /\ k.id \in Nat
        /\ k.xid \in Nat /\ l.id \in Nat /\ l.xid \in Nat
  BY DEF KeySet
<1>2. j # k => j.id # k.id \/ j.xid # k.xid
  BY DEF KeySet
<1> QED
  BY <1>1, <1>2 DEF After

(* A page is the beginning of what is found, and all of it if it drains it. *)
LEMMA PageIsFirst ==
  ASSUME NEW found, IsFiniteSet(found), found \subseteq KeySet
  PROVE  /\ Page(found) \subseteq found
         /\ Drained(found) => Page(found) = found
         /\ \A k \in found \ Page(found) : \A p \in Page(found) : After(k, p)
<1> DEFINE ahead(k) == {j \in found : After(k, j)}
<1>1. Page(found) = {k \in found : Cardinality(ahead(k)) < PageLimit}
  BY DEF Page
<1>2. ASSUME NEW k \in found
      PROVE  IsFiniteSet(ahead(k)) /\ Cardinality(ahead(k)) \in Nat
  BY FS_Subset, FS_CardinalityType
<1> HIDE DEF ahead
<1>3. ASSUME Drained(found), NEW k \in found
      PROVE  Cardinality(ahead(k)) < PageLimit
  <2>1. ahead(k) \subseteq found \ {k}
    BY KeysAreOrdered DEF ahead
  <2>2. IsFiniteSet(found \ {k}) /\ Cardinality(found \ {k}) = Cardinality(found) - 1
    BY FS_RemoveElement
  <2>3. Cardinality(ahead(k)) <= Cardinality(found \ {k})
    BY <2>1, <2>2, FS_Subset
  <2>4. Cardinality(found) \in Nat
    BY FS_CardinalityType
  <2> QED
    BY <1>2, <1>3, <2>2, <2>3, <2>4, SyncAssumption DEF Drained
<1>4. ASSUME NEW k \in found, k \notin Page(found), NEW p \in Page(found), ~After(k, p)
      PROVE  FALSE
  <2>1. p \in found /\ p # k
    BY <1>1, <1>4
  <2>2. After(p, k)
    BY <2>1, <1>4, KeysAreOrdered
  <2>3. ahead(k) \subseteq ahead(p)
    BY <2>1, <2>2, KeysAreOrdered DEF ahead
  <2>4. Cardinality(ahead(k)) <= Cardinality(ahead(p))
    BY <1>2, <2>1, <2>3, FS_Subset
  <2> QED
    BY <1>1, <1>2, <1>4, <2>1, <2>4, SyncAssumption
<1> QED
  BY <1>1, <1>3, <1>4

(* The keyset of the next page is that of the last row of this one.        *)
LEMMA LastIsLast ==
  ASSUME NEW page, IsFiniteSet(page), page \subseteq KeySet, page # {}
  PROVE  LastOf(page) \in page /\ \A j \in page : ~After(j, LastOf(page))
<1> DEFINE behind(k) == {j \in page : After(j, k)}
           T == {Cardinality(behind(k)) : k \in page}
<1>1. ASSUME NEW k \in page
      PROVE  IsFiniteSet(behind(k)) /\ Cardinality(behind(k)) \in Nat
  BY FS_Subset, FS_CardinalityType
<1>2. T \in SUBSET Nat /\ T # {}
  BY <1>1
<1>3. PICK least \in T : \A n \in T : least <= n
  BY <1>2, LeastNumber
<1>4. PICK k \in page : least = Cardinality(behind(k))
  BY <1>3
<1> HIDE DEF behind
<1>5. ASSUME NEW j \in page, After(j, k) PROVE FALSE
  <2>1. behind(j) \subseteq behind(k) \ {j}
    BY <1>5, KeysAreOrdered DEF behind
  <2>2. j \in behind(k)
    BY <1>5 DEF behind
  <2>3. IsFiniteSet(behind(k) \ {j}) /\ Cardinality(behind(k) \ {j}) = Cardinality(behind(k)) - 1
    BY <1>1, <2>2, FS_RemoveElement
  <2>4. Cardinality(behind(j)) <= Cardinality(behind(k) \ {j})
    BY <2>1, <2>3, FS_Subset
  <2>5. Cardinality(behind(k)) <= Cardinality(behind(j))
    BY <1>3, <1>4
  <2> QED
    BY <1>1, <2>3, <2>4, <2>5
<1> QED
  BY <1>5 DEF LastOf
-----------------------------------------------------------------------------
(* A commit *)

(* What transaction x may do to a copy: nothing; write the row where it is; *)
(* bury the row and perhaps write it elsewhere; purge the tombstone.       *)
CopyStep(d, e, c, x) ==
  \/ e.rows[c] = d.rows[c] /\ e.tombs[c] = d.tombs[c]
  \/ /\ e.rows[c] # Absent /\ e.rows[c].xid = x /\ e.tombs[c] = d.tombs[c]
     /\ IF d.rows[c] = Absent THEN d.tombs[c] = Absent ELSE d.rows[c].home = e.rows[c].home
  \/ /\ d.rows[c] # Absent
     /\ e.tombs[c] # Absent /\ e.tombs[c].owner = d.rows[c].home /\ e.tombs[c].xid = x
     /\ e.rows[c] = Absent \/ e.rows[c].xid = x
  \/ /\ e.rows[c] = d.rows[c]
     /\ d.tombs[c] # Absent /\ e.tombs[c] = Absent /\ d.tombs[c].xid <= e.pruned
DbStep(d, e, x) == d.pruned <= e.pruned /\ \A c \in Copies : CopyStep(d, e, c, x)

Numbers(d) ==
  /\ d.pruned \in Nat
  /\ \A c \in Copies : /\ d.rows[c] # Absent => d.rows[c].xid \in Nat
                       /\ d.tombs[c] # Absent => d.tombs[c].xid \in Nat
SameOwner(d, e, c) ==
  d.tombs[c] # Absent /\ e.tombs[c] # Absent => e.tombs[c].owner = d.tombs[c].owner

LEMMA TracedStays ==
  ASSUME NEW d, NEW e, Numbers(d), Numbers(e), NEW x \in Nat, DbStep(d, e, x),
         NEW c \in Copies, SameOwner(d, e, c), NEW h, NEW P \in Nat, P <= x,
         Traced(d, h, P, c)
  PROVE  Traced(e, h, P, c)
<1>1. d.pruned \in Nat /\ e.pruned \in Nat /\ d.pruned <= e.pruned
  BY DEF Numbers, DbStep
<1>2. CASE P <= d.pruned
  BY <1>1, <1>2 DEF Traced
<1>3. CASE d.rows[c] # Absent /\ d.rows[c].home = h
  BY <1>3 DEF Traced, DbStep, CopyStep
<1>4. CASE d.tombs[c] # Absent /\ d.tombs[c].owner = h /\ P <= d.tombs[c].xid
  <2>1. d.tombs[c].xid \in Nat
    BY <1>4 DEF Numbers
  <2>2. CopyStep(d, e, c, x)
    BY DEF DbStep
  <2>3. CASE e.tombs[c] = d.tombs[c]
    BY <1>4, <2>3 DEF Traced
  <2>4. CASE e.tombs[c] # Absent /\ e.tombs[c].xid = x
    BY <1>4, <2>4 DEF Traced, SameOwner
  <2>5. CASE e.tombs[c] = Absent /\ d.tombs[c].xid <= e.pruned
    BY <1>1, <1>4, <2>1, <2>5 DEF Traced
  <2> QED
    BY <2>2, <2>3, <2>4, <2>5 DEF CopyStep
<1> QED
  BY <1>2, <1>3, <1>4 DEF Traced

(* What was right up to a watermark that is at most x stays so.            *)
LEMMA RightStays ==
  ASSUME NEW d, NEW e, Numbers(d), Numbers(e), NEW x \in Nat, DbStep(d, e, x),
         NEW c \in Copies, SameOwner(d, e, c), NEW S, NEW H, NEW P \in Nat, P <= x,
         Right(d, S, P, H, c)
  PROVE  Right(e, S, P, H, c)
<1>1. ASSUME c \in DOMAIN S PROVE S[c].home \in H /\ Traced(e, S[c].home, P, c)
  BY <1>1, TracedStays DEF Right
<1>2. ASSUME e.rows[c] # Absent, e.rows[c].home \in H
      PROVE  P <= e.rows[c].xid \/ (c \in DOMAIN S /\ S[c] = ToCopy(e.rows[c]))
  <2>1. e.rows[c] = d.rows[c] \/ e.rows[c].xid = x
    BY <1>2 DEF DbStep, CopyStep
  <2> QED
    BY <1>2, <2>1 DEF Right
<1> QED
  BY <1>1, <1>2 DEF Right

(* Rows and tombstones only leave the window of a read, and what leaves it *)
(* is told by later ones.                                                  *)
LEMMA WindowsOnlyShrink ==
  ASSUME NEW d, NEW e, Numbers(d), Numbers(e), NEW x \in Nat, DbStep(d, e, x),
         NEW r, r.pin \in Nat, r.pin <= x, r.since \in Nat, r.since <= x, NEW c \in Copies
  PROVE  /\ Changed(e, r, c) => Changed(d, r, c) /\ RowKey(e, c) = RowKey(d, c)
         /\ Removed(e, r, c) => Removed(d, r, c) /\ TombKey(e, c) = TombKey(d, c)
         /\ Told(d, r, c) => Told(e, r, c)
<1>1. CopyStep(d, e, c, x)
  BY DEF DbStep
<1>2. ASSUME Changed(e, r, c) PROVE Changed(d, r, c) /\ RowKey(e, c) = RowKey(d, c)
  <2>1. e.rows[c] # Absent /\ e.rows[c].xid < r.pin
    BY <1>2 DEF Changed, Within
  <2>2. e.rows[c] = d.rows[c]
    BY <1>1, <2>1 DEF CopyStep
  <2> QED
    BY <1>2, <2>2 DEF Changed, RowKey
<1>3. ASSUME Removed(e, r, c) PROVE Removed(d, r, c) /\ TombKey(e, c) = TombKey(d, c)
  <2>1. e.tombs[c] # Absent /\ e.tombs[c].xid < r.pin
    BY <1>3 DEF Removed, Within
  <2>2. e.tombs[c] = d.tombs[c]
    BY <1>1, <2>1 DEF CopyStep
  <2> QED
    BY <1>3, <2>2 DEF Removed, TombKey
<1>4. ASSUME Told(d, r, c) PROVE Told(e, r, c)
  <2>1. d.pruned \in Nat /\ e.pruned \in Nat /\ d.pruned <= e.pruned
    BY DEF Numbers, DbStep
  <2>2. CASE r.since <= d.pruned
    BY <2>1, <2>2 DEF Told
  <2>3. CASE d.tombs[c] # Absent /\ r.since <= d.tombs[c].xid
    <3>1. d.tombs[c].xid \in Nat
      BY <2>3 DEF Numbers
    <3>2. CASE e.tombs[c] = Absent /\ d.tombs[c].xid <= e.pruned
      BY <2>1, <2>3, <3>1, <3>2 DEF Told
    <3>3. CASE e.tombs[c] = d.tombs[c] \/ (e.tombs[c] # Absent /\ e.tombs[c].xid = x)
      BY <2>3, <3>3 DEF Told
    <3> QED
      BY <1>1, <3>2, <3>3 DEF CopyStep
  <2> QED
    BY <1>4, <2>2, <2>3 DEF Told
<1> QED
  BY <1>2, <1>3, <1>4

(* A commit leaves the pages of a read right, but for copies whose tomb-   *)
(* stone it gives another owner.                                           *)
LEMMA PagesStayRight ==
  ASSUME NEW d, NEW e, Numbers(d), Numbers(e), NEW x \in Nat, DbStep(d, e, x),
         NEW r, r.pin \in Nat, r.pin <= x, r.since \in Nat, r.since <= x,
         r.xid \in Nat, r.xid <= x, GoneIds(r) \subseteq Copies,
         r.phase = "delta" /\ r.gone # Unknown => Ids(r.gone.page) \subseteq Copies,
         NEW but, NEW more, but \subseteq more,
         \A c \in Copies \ more : SameOwner(d, e, c),
         PagesRight(d, r, but)
  PROVE  PagesRight(e, r, more)
<1>1. ASSUME NEW items, ItemsRight(d, r, items, but)
      PROVE  ItemsRight(e, r, items, more)
  BY <1>1, RightStays DEF ItemsRight
<1>2. FullRight(e, r, more)
  BY RightStays DEF PagesRight, FullRight
<1>3. RowsTaken(d, r) => RowsTaken(e, r)
  BY WindowsOnlyShrink DEF RowsTaken
<1>4. TombsTaken(d, r) => TombsTaken(e, r)
  BY WindowsOnlyShrink DEF TombsTaken
<1>5. ASSUME NEW c \in Copies, Told(d, r, c) PROVE Told(e, r, c)
  BY <1>5, WindowsOnlyShrink
<1>6. DeltaRight(e, r, more)
  BY <1>1, <1>3, <1>4, <1>5 DEF PagesRight, DeltaRight
<1>7. RowPageRight(e, r, more)
  <2>1. ASSUME NEW c \in Copies, Changed(e, r, c), After(RowKey(e, c), r.rowAt)
        PROVE  Changed(d, r, c) /\ RowKey(e, c) = RowKey(d, c)
    BY <2>1, WindowsOnlyShrink
  <2> QED
    BY <1>1, <2>1 DEF PagesRight, RowPageRight
<1>8. GonePageRight(e, r)
  <2>1. ASSUME NEW c \in Copies, Removed(e, r, c), After(TombKey(e, c), r.goneAt)
        PROVE  Removed(d, r, c) /\ TombKey(e, c) = TombKey(d, c)
    BY <2>1, WindowsOnlyShrink
  <2> QED
    BY <1>5, <2>1 DEF PagesRight, GonePageRight
<1> QED
  BY <1>2, <1>6, <1>7, <1>8 DEF PagesRight

-----------------------------------------------------------------------------
(* What the write of transaction x does to the state.                      *)
Committed(x) ==
  /\ Ended(x) /\ UNCHANGED <<nextXid, client, overtaken>>
  /\ rows' \in [Copies -> RowSet \cup {Absent}]
  /\ tombs' \in [Copies -> TombSet \cup {Absent}]
  /\ DOMAIN members' = Groups
  /\ DbStep(Tables, Tables', x)
  /\ pruned' = pruned \/ \E c \in Copies : tombs[c] # Absent /\ pruned' = tombs[c].xid
  /\ replaced \subseteq replaced' /\ inverted \subseteq inverted'
  /\ \A c \in Copies \ replaced' : SameOwner(Tables, Tables', c)
  /\ \A c \in Copies \ inverted' : StampOrder(Tables, c) => StampOrder(Tables', c)
  /\ \/ Reachable(Viewer)' = Reachable(Viewer) /\ blind' = blind
     \/ blind' = Overlooked
  /\ own' = OwnForgotten \/ (own' = own /\ Reachable(Viewer)' = Reachable(Viewer))
  /\ quiet' => /\ quiet /\ rows' = rows /\ Reachable(Viewer)' = Reachable(Viewer)
               /\ \A c \in Copies : tombs'[c] \in {tombs[c], Absent}

LEMMA CommitHas ==
  ASSUME TypesInv, XidsInv, NEW x \in active, NEW newRows, NEW newTombs,
         Commit(x, newRows, newTombs),
         newRows \in [Copies -> RowSet \cup {Absent}],
         newTombs \in [Copies -> TombSet \cup {Absent}],
         DbStep(Tables, [rows |-> newRows, tombs |-> newTombs, pruned |-> pruned], x),
         DOMAIN members' = Groups,
         \/ Reachable(Viewer)' = Reachable(Viewer) /\ blind' = blind
         \/ blind' = Overlooked,
         own' = OwnForgotten \/ (own' = own /\ Reachable(Viewer)' = Reachable(Viewer))
  PROVE  Committed(x)
<1>1. /\ Ended(x) /\ UNCHANGED <<nextXid, client, overtaken>> /\ pruned' = pruned
      /\ rows' = newRows /\ tombs' = newTombs /\ quiet' = FALSE
  BY DEF Commit
<1>2. Tables' = [rows |-> newRows, tombs |-> newTombs, pruned |-> pruned]
  BY <1>1 DEF Tables
<1>3. replaced \subseteq replaced' /\ inverted \subseteq inverted'
  BY DEF Commit
<1>4. \A c \in Copies \ replaced' : SameOwner(Tables, Tables', c)
  BY <1>2 DEF Commit, SameOwner, Tables
<1>5. ASSUME NEW c \in Copies \ inverted' PROVE StampOrder(Tables', c)
  <2>1. newRows[c] # Absent => newRows[c].xid \in Nat
    BY DEF RowSet
  <2>2. newTombs[c] # Absent => newTombs[c].xid \in Nat
    BY DEF TombSet
  <2>3. ~(newRows[c] # Absent /\ newTombs[c] # Absent /\ newRows[c].xid < newTombs[c].xid)
    BY DEF Commit
  <2> QED
    BY <1>2, <2>1, <2>2, <2>3 DEF StampOrder
<1> QED
  BY <1>1, <1>2, <1>3, <1>4, <1>5 DEF Committed

(* A copy's row and tombstone are changed together.                        *)
LEMMA OneCopyStep ==
  ASSUME TypesInv, XidsInv, NEW x \in active, NEW c \in Copies,
         NEW row \in RowSet \cup {Absent}, row # Absent => row.xid = x,
         NEW tomb \in TombSet \cup {Absent},
         \/ /\ tomb = tombs[c] /\ row # Absent
            /\ IF rows[c] = Absent THEN tombs[c] = Absent ELSE rows[c].home = row.home
         \/ rows[c] # Absent /\ tomb # Absent /\ tomb.owner = rows[c].home /\ tomb.xid = x
  PROVE  LET newRows == [rows EXCEPT ![c] = row]
             newTombs == [tombs EXCEPT ![c] = tomb]
         IN  /\ newRows \in [Copies -> RowSet \cup {Absent}]
             /\ newTombs \in [Copies -> TombSet \cup {Absent}]
             /\ DbStep(Tables, [rows |-> newRows, tombs |-> newTombs, pruned |-> pruned], x)
<1> DEFINE newRows == [rows EXCEPT ![c] = row]
           newTombs == [tombs EXCEPT ![c] = tomb]
           e == [rows |-> newRows, tombs |-> newTombs, pruned |-> pruned]
<1>1. rows \in [Copies -> RowSet \cup {Absent}] /\ tombs \in [Copies -> TombSet \cup {Absent}]
  BY DEF TypesInv
<1>2. \A a \in Copies : a # c => newRows[a] = rows[a] /\ newTombs[a] = tombs[a]
  BY <1>1
<1>3. newRows[c] = row /\ newTombs[c] = tomb
  BY <1>1
<1>4. newRows \in [Copies -> RowSet \cup {Absent}]
  BY <1>1
<1>5. newTombs \in [Copies -> TombSet \cup {Absent}]
  BY <1>1
<1>6. pruned \in Nat
  BY DEF TypesInv, Stamp, None, XidsInv
<1> HIDE DEF newRows, newTombs
<1>7. ASSUME NEW a \in Copies PROVE CopyStep(Tables, e, a, x)
  <2>1. CASE a # c
    BY <1>2, <2>1 DEF CopyStep, Tables
  <2>2. CASE a = c
    BY <1>3, <2>2 DEF CopyStep, Tables
  <2> QED
    BY <2>1, <2>2
<1>8. DbStep(Tables, e, x)
  BY <1>6, <1>7 DEF DbStep, Tables
<1> QED
  BY <1>4, <1>5, <1>8 DEF newRows, newTombs

LEMMA XidIsNumber ==
  ASSUME XidsInv, NEW x \in active
  PROVE  x \in Nat /\ x # None
  BY DEF XidsInv, None

LEMMA RowsAreRecords ==
  ASSUME TypesInv, NEW c \in Copies
  PROVE  /\ rows[c] # Absent => rows[c] \in RowSet /\ rows[c].home \in Homes
                               /\ rows[c].reserved \in BOOLEAN /\ rows[c].xid \in Nat
         /\ tombs[c] # Absent => tombs[c] \in TombSet /\ tombs[c].owner \in Homes
                                 /\ tombs[c].xid \in Nat
<1>1. rows[c] \in RowSet \cup {Absent} /\ tombs[c] \in TombSet \cup {Absent}
  BY DEF TypesInv
<1> QED
  BY <1>1 DEF RowSet, TombSet

LEMMA NewRow ==
  ASSUME XidsInv, NEW x \in active, NEW h \in Homes, NEW r \in BOOLEAN
  PROVE  /\ Row(h, r, x) \in RowSet /\ Row(h, r, x) # Absent
         /\ Row(h, r, x).home = h /\ Row(h, r, x).reserved = r /\ Row(h, r, x).xid = x
<1>1. x \in Nat
  BY XidIsNumber
<1>2. Row(h, r, x) \in RowSet
  BY <1>1 DEF Row, RowSet
<1>3. Absent \notin RowSet
  BY SyncAssumption DEF RowSet
<1> QED
  BY <1>2, <1>3 DEF Row

LEMMA NewTomb ==
  ASSUME XidsInv, NEW x \in active, NEW h \in Homes
  PROVE  [owner |-> h, xid |-> x] \in TombSet /\ [owner |-> h, xid |-> x] # Absent
<1>1. x \in Nat
  BY XidIsNumber
<1>2. [owner |-> h, xid |-> x] \in TombSet
  BY <1>1 DEF TombSet
<1>3. Absent \notin TombSet
  BY SyncAssumption DEF TombSet
<1> QED
  BY <1>2, <1>3

LEMMA AddCommits ==
  ASSUME TypesInv, XidsInv, NEW x \in active, NEW u, NEW c \in Copies, NEW h \in Homes,
         AddCopy(x, u, c, h)
  PROVE  Committed(x)
         /\ rows'[c] = Row(h, FALSE, x) /\ tombs'[c] = Absent
<1> DEFINE row == Row(h, FALSE, x)
<1>1. row \in RowSet /\ row # Absent /\ row.xid = x
  BY NewRow
<1>2. rows[c] = Absent /\ tombs[c] = Absent /\ Commit(x, [rows EXCEPT ![c] = row], tombs)
      /\ UNCHANGED <<members, blind, own>>
  BY DEF AddCopy, Existing
<1>3. tombs = [tombs EXCEPT ![c] = Absent]
  BY <1>2 DEF TypesInv
<1>4. rows'[c] = row /\ tombs'[c] = Absent
  BY <1>2 DEF Commit, TypesInv
<1>5. Reachable(Viewer)' = Reachable(Viewer) /\ DOMAIN members' = Groups
  BY <1>2 DEF Reachable, TypesInv
<1> HIDE DEF row
<1>6. LET newRows == [rows EXCEPT ![c] = row]
      IN  /\ newRows \in [Copies -> RowSet \cup {Absent}]
          /\ tombs \in [Copies -> TombSet \cup {Absent}]
          /\ DbStep(Tables, [rows |-> newRows, tombs |-> tombs, pruned |-> pruned], x)
  BY <1>1, <1>2, <1>3, OneCopyStep
<1> QED
  BY <1>2, <1>4, <1>5, <1>6, CommitHas DEF row
LEMMA MoveCommits ==
  ASSUME TypesInv, XidsInv, NEW x \in active, NEW u, NEW c \in Copies, NEW h \in Homes,
         MoveCopy(x, u, c, h)
  PROVE  Committed(x) /\ rows'[c] = Row(h, rows[c].reserved, x)
         /\ rows[c] # Absent /\ tombs'[c] = [owner |-> rows[c].home, xid |-> x]
<1> DEFINE row == Row(h, rows[c].reserved, x)
           tomb == [owner |-> rows[c].home, xid |-> x]
<1>1. /\ rows[c] # Absent /\ Commit(x, [rows EXCEPT ![c] = row], [tombs EXCEPT ![c] = tomb])
      /\ UNCHANGED <<members, blind, own>>
  BY DEF MoveCopy, Existing, Buried
<1>2. rows[c].home \in Homes /\ rows[c].reserved \in BOOLEAN
  BY <1>1, RowsAreRecords
<1>3. row \in RowSet /\ row # Absent /\ row.xid = x
  BY <1>2, NewRow
<1>4. tomb \in TombSet /\ tomb # Absent /\ tomb.owner = rows[c].home /\ tomb.xid = x
  BY <1>2, NewTomb
<1>5. Reachable(Viewer)' = Reachable(Viewer) /\ DOMAIN members' = Groups
  BY <1>1 DEF Reachable, TypesInv
<1> HIDE DEF row, tomb
<1>6. rows'[c] = row /\ tombs'[c] = tomb
  BY <1>1 DEF Commit, TypesInv
<1>7. LET newRows == [rows EXCEPT ![c] = row]
          newTombs == [tombs EXCEPT ![c] = tomb]
      IN  /\ newRows \in [Copies -> RowSet \cup {Absent}]
          /\ newTombs \in [Copies -> TombSet \cup {Absent}]
          /\ DbStep(Tables, [rows |-> newRows, tombs |-> newTombs, pruned |-> pruned], x)
  BY <1>1, <1>3, <1>4, OneCopyStep
<1> QED
  BY <1>1, <1>5, <1>6, <1>7, CommitHas DEF row, tomb

LEMMA DisposeCommits ==
  ASSUME TypesInv, XidsInv, NEW x \in active, NEW u, NEW c \in Copies,
         DisposeCopy(x, u, c)
  PROVE  Committed(x)
<1> DEFINE tomb == [owner |-> rows[c].home, xid |-> x]
<1>1. /\ rows[c] # Absent /\ Commit(x, [rows EXCEPT ![c] = Absent], [tombs EXCEPT ![c] = tomb])
      /\ UNCHANGED <<members, blind, own>>
  BY DEF DisposeCopy, Existing, Buried
<1>2. rows[c].home \in Homes
  BY <1>1, RowsAreRecords
<1>4. tomb \in TombSet /\ tomb # Absent /\ tomb.owner = rows[c].home /\ tomb.xid = x
  BY <1>2, NewTomb
<1>5. Reachable(Viewer)' = Reachable(Viewer) /\ DOMAIN members' = Groups
  BY <1>1 DEF Reachable, TypesInv
<1> HIDE DEF tomb
<1>7. LET newRows == [rows EXCEPT ![c] = Absent]
          newTombs == [tombs EXCEPT ![c] = tomb]
      IN  /\ newRows \in [Copies -> RowSet \cup {Absent}]
          /\ newTombs \in [Copies -> TombSet \cup {Absent}]
          /\ DbStep(Tables, [rows |-> newRows, tombs |-> newTombs, pruned |-> pruned], x)
  BY <1>1, <1>4, OneCopyStep
<1> QED
  BY <1>1, <1>5, <1>7, CommitHas

LEMMA TouchCommits ==
  ASSUME TypesInv, XidsInv, NEW x \in active, NEW c \in Copies, TouchCopy(x, c)
  PROVE  Committed(x)
<1> DEFINE row == Row(rows[c].home, ~rows[c].reserved, x)
<1>1. /\ rows[c] # Absent /\ Commit(x, [rows EXCEPT ![c] = row], tombs)
      /\ UNCHANGED <<members, blind, own>>
  BY DEF TouchCopy, Existing
<1>2. rows[c].home \in Homes /\ (~rows[c].reserved) \in BOOLEAN
  BY <1>1, RowsAreRecords
<1>3. \E r \in BOOLEAN : row = Row(rows[c].home, r, x)
  OBVIOUS
<1>4. tombs = [tombs EXCEPT ![c] = tombs[c]] /\ tombs[c] \in TombSet \cup {Absent}
  BY DEF TypesInv
<1>5. Reachable(Viewer)' = Reachable(Viewer) /\ DOMAIN members' = Groups
  BY <1>1 DEF Reachable, TypesInv
<1> HIDE DEF row
<1>6. row \in RowSet /\ row # Absent /\ row.xid = x /\ row.home = rows[c].home
  BY <1>2, <1>3, NewRow
<1>7. LET newRows == [rows EXCEPT ![c] = row]
      IN  /\ newRows \in [Copies -> RowSet \cup {Absent}]
          /\ tombs \in [Copies -> TombSet \cup {Absent}]
          /\ DbStep(Tables, [rows |-> newRows, tombs |-> tombs, pruned |-> pruned], x)
  BY <1>1, <1>4, <1>6, OneCopyStep
<1> QED
  BY <1>1, <1>5, <1>7, CommitHas

LEMMA GroupCommits ==
  ASSUME TypesInv, XidsInv, NEW x \in active, NEW g \in Groups, DeleteGroup(x, g)
  PROVE  Committed(x)
<1> DEFINE pooled == {c \in Existing : rows[c].home = g}
           newRows == [c \in Copies |-> IF c \in pooled THEN Absent ELSE rows[c]]
           newTombs == [c \in Copies |-> IF c \in pooled THEN [owner |-> g, xid |-> x]
                                                         ELSE tombs[c]]
           e == [rows |-> newRows, tombs |-> newTombs, pruned |-> pruned]
<1>1. /\ Commit(x, newRows, newTombs)
      /\ members' = [members EXCEPT ![g] = {}]
      /\ blind' = IF Viewer \in members[g] THEN Overlooked ELSE blind
      /\ own' = OwnForgotten
  BY DEF DeleteGroup
<1>2. [owner |-> g, xid |-> x] \in TombSet /\ [owner |-> g, xid |-> x] # Absent
  BY NewTomb DEF Homes
<1>3. newRows \in [Copies -> RowSet \cup {Absent}]
  BY DEF TypesInv
<1>4. newTombs \in [Copies -> TombSet \cup {Absent}]
  BY <1>2 DEF TypesInv
<1>5. pruned \in Nat
  BY DEF TypesInv, Stamp, None, XidsInv
<1>6. ASSUME NEW c \in Copies PROVE CopyStep(Tables, e, c, x)
  <2>1. CASE c \in pooled
    BY <1>2, <2>1 DEF CopyStep, Tables, Existing
  <2>2. CASE c \notin pooled
    BY <2>2 DEF CopyStep, Tables
  <2> QED
    BY <2>1, <2>2
<1>7. DbStep(Tables, e, x)
  BY <1>5, <1>6 DEF DbStep, Tables
<1>8. DOMAIN members' = Groups
  BY <1>1 DEF TypesInv
<1>9. Viewer \notin members[g] => Reachable(Viewer)' = Reachable(Viewer)
  BY <1>1 DEF Reachable, TypesInv
<1> HIDE DEF newRows, newTombs
<1> QED
  BY <1>1, <1>3, <1>4, <1>7, <1>8, <1>9, CommitHas
LEMMA Greatest ==
  ASSUME NEW T \in SUBSET Nat, T # {}, NEW b \in Nat, \A x \in T : x <= b
  PROVE  Max(T) \in T /\ \A y \in T : Max(T) >= y
<1> DEFINE U == {b - x : x \in T}
<1>1. U \subseteq Nat /\ U # {}
  <2>1. \A x \in T : x \in Nat /\ b - x \in Nat
    OBVIOUS
  <2> QED
    BY <2>1
<1>2. PICK u \in U : \A v \in U : u <= v
  <2> HIDE DEF U
  <2> QED
    BY <1>1, LeastNumber
<1>3. PICK x \in T : u = b - x
  BY <1>2
<1>4. \A y \in T : x >= y
  BY <1>2, <1>3
<1> QED
  BY <1>4 DEF Max

LEMMA PurgeCommits ==
  ASSUME TypesInv, XidsInv, NEW x \in active,
         NEW old \in SUBSET {c \in Copies : tombs[c] # Absent}, Purge(x, old)
  PROVE  Committed(x)
<1> DEFINE through == Max({tombs[c].xid : c \in old})
<1>1. /\ Ended(x) /\ UNCHANGED <<nextXid, rows, members, client, history>>
      /\ old # {} /\ pruned' = IF through > pruned THEN through ELSE pruned
      /\ tombs' = [c \in Copies |-> IF c \in old THEN Absent ELSE tombs[c]]
  BY DEF Purge
<1>2. \A c \in old : tombs[c].xid \in Nat /\ tombs[c].xid <= nextXid
  BY DEF TypesInv, Stamp, XidsInv
<1>3. through \in {tombs[c].xid : c \in old} /\ \A c \in old : through >= tombs[c].xid
  <2> DEFINE T == {tombs[c].xid : c \in old}
  <2>1. T \in SUBSET Nat /\ T # {} /\ \A y \in T : y <= nextXid
    BY <1>1, <1>2
  <2>2. Max(T) \in T /\ \A y \in T : Max(T) >= y
    <3> HIDE DEF T
    <3> QED
      BY <2>1, Greatest DEF XidsInv
  <2> QED
    BY <2>2
<1>4. pruned \in Nat
  BY DEF TypesInv, Stamp, None, XidsInv
<1> HIDE DEF through
<1>5. through \in Nat /\ pruned' \in Nat /\ pruned <= pruned' /\ through <= pruned'
  BY <1>1, <1>2, <1>3, <1>4
<1>6. ASSUME NEW c \in Copies PROVE CopyStep(Tables, Tables', c, x)
  <2>1. CASE c \in old
    <3>1. tombs[c].xid <= pruned'
      BY <1>2, <1>3, <1>5, <2>1
    <3> QED
      BY <1>1, <2>1, <3>1 DEF CopyStep, Tables
  <2>2. CASE c \notin old
    BY <1>1, <2>2 DEF CopyStep, Tables
  <2> QED
    BY <2>1, <2>2
<1>7. DbStep(Tables, Tables', x)
  BY <1>5, <1>6 DEF DbStep, Tables
<1>8. rows' \in [Copies -> RowSet \cup {Absent}] /\ tombs' \in [Copies -> TombSet \cup {Absent}]
  BY <1>1 DEF TypesInv
<1>9. \A c \in Copies : tombs'[c] \in {tombs[c], Absent}
  BY <1>1
<1>10. pruned' = pruned \/ \E c \in Copies : tombs[c] # Absent /\ pruned' = tombs[c].xid
  BY <1>1, <1>3
<1>11. \A c \in Copies : /\ SameOwner(Tables, Tables', c)
                         /\ StampOrder(Tables, c) => StampOrder(Tables', c)
  BY <1>1, <1>9 DEF SameOwner, StampOrder, Tables
<1>12. /\ UNCHANGED <<nextXid, rows, client, overtaken, blind, own, quiet, replaced, inverted>>
       /\ DOMAIN members' = Groups /\ Reachable(Viewer)' = Reachable(Viewer)
  BY <1>1 DEF history, Reachable, TypesInv
<1> QED
  BY <1>1, <1>7, <1>8, <1>9, <1>10, <1>11, <1>12 DEF Committed

LEMMA SameTablesStep ==
  ASSUME TypesInv, XidsInv, NEW x, UNCHANGED <<rows, tombs, pruned>>
  PROVE  /\ DbStep(Tables, Tables', x)
         /\ \A c \in Copies : /\ SameOwner(Tables, Tables', c)
                              /\ StampOrder(Tables, c) => StampOrder(Tables', c)
         /\ rows' \in [Copies -> RowSet \cup {Absent}]
         /\ tombs' \in [Copies -> TombSet \cup {Absent}]
<1>1. Tables' = Tables
  BY DEF Tables
<1>2. pruned \in Nat
  BY DEF TypesInv, Stamp, None, XidsInv
<1>3. DbStep(Tables, Tables', x)
  BY <1>1, <1>2 DEF DbStep, CopyStep, Tables
<1> QED
  BY <1>1, <1>3 DEF SameOwner, StampOrder, Tables, TypesInv

LEMMA RollbackCommits ==
  ASSUME TypesInv, XidsInv, NEW x \in active, Rollback(x)
  PROVE  Committed(x)
<1>1. /\ Ended(x)
      /\ UNCHANGED <<nextXid, rows, tombs, pruned, members, client, overtaken, blind,
                     own, quiet, replaced, inverted>>
  BY DEF Rollback, Ended, history
<1>2. DOMAIN members' = Groups /\ Reachable(Viewer)' = Reachable(Viewer)
  BY <1>1 DEF TypesInv, Reachable
<1> QED
  BY <1>1, <1>2, SameTablesStep DEF Committed

LEMMA MembershipCommits ==
  ASSUME TypesInv, XidsInv, NEW x \in active, NEW g \in Groups,
         LeaveGroup(x, g) \/ JoinGroup(x, g)
  PROVE  Committed(x)
<1>1. PICK present \in BOOLEAN : ChangeMembership(x, g, present)
  BY DEF LeaveGroup, JoinGroup
<1>2. /\ Ended(x) /\ quiet' = FALSE /\ blind' = Overlooked /\ own' = OwnForgotten
      /\ UNCHANGED <<nextXid, rows, tombs, pruned, client, replaced, inverted, overtaken>>
  BY <1>1 DEF ChangeMembership
<1>3. DOMAIN members' = Groups
  BY <1>1 DEF ChangeMembership, TypesInv
<1> QED
  BY <1>2, <1>3, SameTablesStep DEF Committed

(* The server serves the client's write.                                   *)
Served(x) ==
  /\ mine.op \in Ops /\ mine.xid = None
  /\ mine' = [mine EXCEPT !.xid = x] /\ Left(Tables', mine')

LEMMA ServeCommits ==
  ASSUME TypesInv, XidsInv, MineInv, NEW x \in active, Serve(x)
  PROVE  Committed(x) /\ Served(x)
<1> DEFINE c == mine.copy
           h == mine.home
<1>1. mine.op \in Ops /\ mine.xid = None /\ c \in Copies /\ h \in Homes
  BY DEF Serve, MineInv
<1>2. mine' = [mine EXCEPT !.xid = x]
  BY DEF Serve
<1>3. mine'.op = mine.op /\ mine'.copy = c /\ mine'.home = h /\ mine'.xid = x
  BY <1>2 DEF MineInv
<1> HIDE DEF c, h
<1>4. CASE mine.op = "add" /\ AddCopy(x, Viewer, c, h)
  <2>1. Committed(x) /\ rows'[c] = Row(h, FALSE, x) /\ tombs'[c] = Absent
    BY <1>1, <1>4, AddCommits
  <2>2. Left(Tables', mine')
    BY <1>3, <1>4, <2>1 DEF Left, Tables, Row
  <2> QED
    BY <1>1, <1>2, <2>1, <2>2 DEF Served
<1>5. CASE mine.op = "move" /\ MoveCopy(x, Viewer, c, h)
  <2>1. /\ Committed(x) /\ rows'[c] = Row(h, rows[c].reserved, x)
        /\ tombs'[c] = [owner |-> rows[c].home, xid |-> x]
    BY <1>1, <1>5, MoveCommits
  <2>2. Left(Tables', mine')
    BY <1>3, <1>5, <2>1 DEF Left, Tables, Row
  <2> QED
    BY <1>1, <1>2, <2>1, <2>2 DEF Served
<1>6. CASE mine.op = "dispose" /\ DisposeCopy(x, Viewer, c)
  <2>1. Committed(x)
    BY <1>1, <1>6, DisposeCommits
  <2>2. Left(Tables', mine')
    BY <1>3, <1>6 DEF Left
  <2> QED
    BY <1>1, <1>2, <2>1, <2>2 DEF Served
<1> QED
  BY <1>4, <1>5, <1>6 DEF Serve, c, h

LEMMA WriteCommits ==
  ASSUME TypesInv, XidsInv, MineInv, NEW x \in active, Write(x)
  PROVE  Committed(x) /\ (mine' = mine \/ Served(x))
<1>0. Written \subseteq Copies
  BY SyncAssumption
<1>1. CASE Serve(x)
  BY <1>1, ServeCommits
<1>2. CASE mine' = mine /\ Rollback(x)
  BY <1>2, RollbackCommits
<1>3. ASSUME mine' = mine, NEW u \in Users, NEW c \in Written, NEW h \in Homes,
             AddCopy(x, u, c, h) \/ MoveCopy(x, u, c, h)
      PROVE  Committed(x)
  BY <1>0, <1>3, AddCommits, MoveCommits
<1>4. ASSUME mine' = mine, NEW c \in Written,
             TouchCopy(x, c) \/ \E u \in Users : DisposeCopy(x, u, c)
      PROVE  Committed(x)
  BY <1>0, <1>4, TouchCommits, DisposeCommits
<1>5. ASSUME mine' = mine, NEW old \in SUBSET {c \in Copies : tombs[c] # Absent}, Purge(x, old)
      PROVE  Committed(x)
  BY <1>5, PurgeCommits
<1>6. ASSUME mine' = mine, NEW g \in Groups,
             LeaveGroup(x, g) \/ JoinGroup(x, g) \/ DeleteGroup(x, g)
      PROVE  Committed(x)
  BY <1>6, MembershipCommits, GroupCommits
<1> QED
  BY <1>1, <1>2, <1>3, <1>4, <1>5, <1>6 DEF Write

-----------------------------------------------------------------------------
(* The inductive invariant                                                 *)
SInv ==
  /\ IInv /\ TypesInv /\ StampsInOrder
  /\ ReadShape /\ ReadFits /\ StoreRight /\ ReadRight
  /\ QuietInv /\ MineInv /\ OwnInv

LEMMA TablesAreNumbers ==
  ASSUME TypesInv, XidsInv
  PROVE  Numbers(Tables) /\ pruned \in Nat
<1>1. pruned \in Nat
  BY DEF TypesInv, Stamp, None, XidsInv
<1> QED
  BY <1>1, RowsAreRecords DEF Numbers, Tables

(* A commit leaves what a transaction stamped before it.                   *)
LEMMA WhatIsLeftStays ==
  ASSUME NEW d, NEW e, NEW x, DbStep(d, e, x),
         NEW w, w.copy \in Copies, w.home \in Homes, w.xid \in Nat, w.xid # x
  PROVE  /\ Left(d, w) => Left(e, w)
         /\ \A H : Stands(e, w, H) => Stands(d, w, H)
                     /\ (w.op # "dispose" => e.rows[w.copy] = d.rows[w.copy])
<1> DEFINE c == w.copy
<1>1. CopyStep(d, e, c, x)
  BY DEF DbStep
<1>2. [owner |-> w.home, xid |-> w.xid] # Absent
  BY SyncAssumption
<1>3. Left(d, w) => Left(e, w)
  BY <1>1 DEF Left, CopyStep
<1>4. ASSUME NEW H, Stands(e, w, H)
      PROVE  Stands(d, w, H) /\ (w.op # "dispose" => e.rows[c] = d.rows[c])
  <2>1. CASE w.op = "dispose"
    <3>1. e.rows[c] = Absent /\ e.tombs[c] = [owner |-> w.home, xid |-> w.xid]
      BY <1>4, <2>1 DEF Stands
    <3>2. e.rows[c] = d.rows[c] /\ e.tombs[c] = d.tombs[c]
      BY <1>1, <1>2, <3>1 DEF CopyStep
    <3> QED
      BY <2>1, <3>1, <3>2 DEF Stands
  <2>2. CASE w.op # "dispose"
    <3>1. e.rows[c] # Absent /\ e.rows[c].xid = w.xid
      BY <1>4, <2>2 DEF Stands
    <3>2. e.rows[c] = d.rows[c]
      BY <1>1, <3>1 DEF CopyStep
    <3> QED
      BY <1>4, <2>2, <3>2 DEF Stands
  <2> QED
    BY <2>1, <2>2
<1> QED
  BY <1>3, <1>4

LEMMA OwnPagesStay ==
  ASSUME NEW d, NEW e, Numbers(d), Numbers(e), d.pruned <= e.pruned,
         NEW r, r.since \in Nat, NEW w,
         w.op # "dispose" => e.rows[w.copy] = d.rows[w.copy],
         OwnPages(d, r, w)
  PROVE  OwnPages(e, r, w)
<1>1. \A S : ShownIn(S, d, w) => ShownIn(S, e, w)
  BY DEF ShownIn
<1>2. \A S : NotUndone(S, d, w) => NotUndone(S, e, w)
  BY <1>1 DEF NotUndone
<1>3. r.since <= d.pruned => r.since <= e.pruned
  BY DEF Numbers
<1>4. \A ids : Covers(d, r, w, ids) => Covers(e, r, w, ids)
  BY <1>3 DEF Covers
<1> QED
  BY <1>1, <1>2, <1>4 DEF OwnPages

LEMMA ReadIsNumbers ==
  ASSUME XidsInv, Safe(synced), ReadInv, ReadFits, Underway
  PROVE  /\ read.since \in Nat /\ read.pin \in Nat /\ read.xid \in Nat /\ read.safe \in Nat
         /\ \A x \in active : /\ read.since <= x /\ read.pin <= x
                              /\ read.xid <= x /\ read.safe <= x
         /\ read.since <= nextXid
<1>1. Safe(None)
  BY NoneIsSafe
<1>2. Safe(read.since)
  BY <1>1 DEF ReadFits
<1> QED
  BY <1>2 DEF ReadInv, Safe

LEMMA WritesKeepSInv ==
  ASSUME SInv, NEW x \in active, Write(x)
  PROVE  SInv'
<1>1. Committed(x) /\ (mine' = mine \/ Served(x)) /\ IInv'
  BY WriteCommits, WritesAreSafe DEF SInv, IInv
<1>2. /\ x \in Nat /\ active' = active \ {x} /\ nextXid' = nextXid /\ synced <= x
      /\ synced \in Nat /\ x \in 1..nextXid - 1
  BY <1>1 DEF Committed, Ended, SInv, IInv, XidsInv, Safe
<1>3. /\ lists' = lists /\ known' = known /\ store' = store /\ synced' = synced
      /\ read' = read /\ overtaken' = overtaken /\ Underway' = Underway
  BY <1>1 DEF Committed, client, Underway
<1>4. \A y : Stamp(y) => y \in 1..nextXid' - 1 /\ y \notin active'
  BY <1>2 DEF Stamp
<1>5. x \in 1..nextXid' - 1 /\ x \notin active'
  BY <1>2
<1>6. TypesInv'
  <2>1. rows' \in [Copies -> RowSet \cup {Absent}] /\ tombs' \in [Copies -> TombSet \cup {Absent}]
        /\ DOMAIN members' = Groups
    BY <1>1 DEF Committed
  <2>2. ASSUME NEW c \in Copies
        PROVE  /\ rows'[c] # Absent => Stamp(rows[c].xid)'
               /\ tombs'[c] # Absent => Stamp(tombs[c].xid)'
    <3>1. CopyStep(Tables, Tables', c, x)
      BY <1>1 DEF Committed, DbStep
    <3>2. rows'[c] = Absent \/ rows'[c] = rows[c] \/ rows'[c].xid = x
      BY <3>1 DEF CopyStep, Tables
    <3>3. tombs'[c] = Absent \/ tombs'[c] = tombs[c] \/ tombs'[c].xid = x
      BY <3>1 DEF CopyStep, Tables
    <3>4. /\ rows[c] # Absent => Stamp(rows[c].xid)
          /\ tombs[c] # Absent => Stamp(tombs[c].xid)
      BY DEF SInv, TypesInv
    <3> QED
      BY <1>4, <1>5, <3>2, <3>3, <3>4 DEF Stamp
  <2>3. pruned' = None \/ Stamp(pruned)'
    <3>1. pruned = None \/ Stamp(pruned)
      BY DEF SInv, TypesInv
    <3>2. \A c \in Copies : tombs[c] # Absent => Stamp(tombs[c].xid)
      BY DEF SInv, TypesInv
    <3> QED
      BY <1>1, <1>4, <3>1, <3>2 DEF Committed, Stamp
  <2>4. lists' \in (SUBSET Homes) \cup {Unknown}
    BY <1>3 DEF SInv, TypesInv
  <2> QED
    BY <2>1, <2>2, <2>3, <2>4 DEF TypesInv
<1>7. /\ Numbers(Tables) /\ Numbers(Tables') /\ pruned \in Nat /\ pruned' \in Nat
      /\ pruned <= pruned' /\ DbStep(Tables, Tables', x)
  <2>1. XidsInv /\ XidsInv'
    BY <1>1 DEF SInv, IInv
  <2>2. Numbers(Tables) /\ pruned \in Nat
    BY <2>1, TablesAreNumbers DEF SInv
  <2>3. Numbers(Tables') /\ pruned' \in Nat
    <3>1. pruned' \in Nat
      BY <1>6, <2>1 DEF TypesInv, Stamp, None, XidsInv
    <3>2. ASSUME NEW c \in Copies
          PROVE  /\ rows'[c] # Absent => rows'[c].xid \in Nat
                 /\ tombs'[c] # Absent => tombs'[c].xid \in Nat
      BY <1>6 DEF TypesInv, RowSet, TombSet
    <3> QED
      BY <3>1, <3>2 DEF Numbers, Tables
  <2>4. DbStep(Tables, Tables', x)
    BY <1>1 DEF Committed
  <2>5. pruned <= pruned'
    BY <2>4 DEF DbStep, Tables
  <2> QED
    BY <2>2, <2>3, <2>4, <2>5
<1>8. StampsInOrder'
  <2>1. ASSUME NEW c \in Copies \ inverted' PROVE StampOrder(Tables', c)
    BY <1>1 DEF Committed, SInv, StampsInOrder
  <2> QED
    BY <2>1 DEF StampsInOrder
<1>9. ReadShape' /\ ReadFits'
  <2>1. Shape(read)
    BY DEF SInv, ReadShape
  <2>2. Underway => InFull(read)
    BY DEF SInv, ReadShape
  <2>3. Underway => read.since \in Nat
    BY ReadIsNumbers DEF SInv, IInv
  <2>4. Underway => InFull(read)'
    BY <1>3, <1>7, <2>2, <2>3 DEF InFull
  <2>5. Shape(read)'
    BY <1>3, <2>1 DEF Shape
  <2>6. "read" \in blind' => Underway
    BY <1>1 DEF Committed, Overlooked, Underway, SInv, ReadFits
  <2>7. ReadFits'
    BY <1>3, <2>6 DEF SInv, ReadFits, Underway
  <2> QED
    BY <1>3, <2>4, <2>5, <2>7 DEF ReadShape
<1>10. StoreRight'
  <2>1. SUFFICES ASSUME known # Unknown, "store" \notin blind', NEW c \in Copies \ Excepted'
                 PROVE  Right(Tables', store, synced, known, c)
    BY <1>3 DEF StoreRight
  <2>2. "store" \notin blind /\ c \notin Excepted
    BY <1>1, <1>3, <2>1 DEF Committed, Overlooked, Excepted
  <2>3. Right(Tables, store, synced, known, c)
    BY <2>1, <2>2 DEF SInv, StoreRight
  <2>4. SameOwner(Tables, Tables', c)
    BY <1>1, <2>1 DEF Committed, Excepted
  <2> QED
    BY <1>2, <1>7, <2>3, <2>4, RightStays
<1>11. ReadRight'
  <2>1. SUFFICES ASSUME Underway, read.accessible # Unknown, "read" \notin blind'
                 PROVE  /\ read.accessible = Reachable(Viewer)'
                        /\ PagesRight(Tables', read, replaced')
    BY <1>3 DEF ReadRight
  <2>2. Reachable(Viewer)' = Reachable(Viewer) /\ blind' = blind
    BY <1>1, <2>1 DEF Committed, Overlooked, Underway
  <2>3. read.accessible = Reachable(Viewer) /\ PagesRight(Tables, read, replaced)
    BY <2>1, <2>2 DEF SInv, ReadRight
  <2>4. /\ read.since \in Nat /\ read.pin \in Nat /\ read.xid \in Nat
        /\ read.since <= x /\ read.pin <= x /\ read.xid <= x
    BY <2>1, ReadIsNumbers DEF SInv, IInv
  <2>5. /\ GoneIds(read) \subseteq Copies
        /\ read.phase = "delta" /\ read.gone # Unknown => Ids(read.gone.page) \subseteq Copies
    BY DEF SInv, ReadShape, Shape, GoneIds
  <2>6. replaced \subseteq replaced' /\ \A c \in Copies \ replaced' : SameOwner(Tables, Tables', c)
    BY <1>1 DEF Committed
  <2>7. PagesRight(Tables', read, replaced')
    BY <1>2, <1>7, <2>3, <2>4, <2>5, <2>6, PagesStayRight
  <2> QED
    BY <2>2, <2>3, <2>7
<1>12. QuietInv'
  <2>1. SUFFICES ASSUME quiet' PROVE QuietInv'
    BY DEF QuietInv
  <2>2. /\ quiet /\ rows' = rows /\ Reachable(Viewer)' = Reachable(Viewer)
        /\ \A c \in Copies : tombs'[c] \in {tombs[c], Absent}
    BY <1>1, <2>1 DEF Committed
  <2>3. pruned' = pruned \/ \E c \in Copies : tombs[c] # Absent /\ pruned' = tombs[c].xid
    BY <1>1 DEF Committed
  <2>4. ASSUME NEW y, Below(Tables, y) PROVE Below(Tables', y)
    BY <2>2, <2>3, <2>4 DEF Below, Tables
  <2>5. active' \cup {nextXid'} \subseteq active \cup {nextXid}
    BY <1>2
  <2> QED
    BY <1>3, <2>2, <2>4, <2>5 DEF SInv, QuietInv
<1>13. MineInv'
  <2>1. CASE mine' = mine
    <3>1. mine.xid # None => Stamp(mine.xid) /\ Stamp(mine.xid)' /\ mine.xid # x /\ mine.xid \in Nat
      BY <1>2, <1>4, <2>1 DEF SInv, MineInv, Stamp
    <3>2. ASSUME mine.xid # None PROVE Left(Tables', mine)
      <4>1. mine.op \in Ops
        BY <3>2 DEF SInv, MineInv
      <4> QED
        BY <1>7, <3>1, <3>2, <4>1, WhatIsLeftStays DEF SInv, MineInv
    <3> QED
      BY <1>3, <2>1, <3>1, <3>2 DEF SInv, MineInv
  <2>2. CASE Served(x)
    <3>1. /\ DOMAIN mine' = DOMAIN mine /\ mine'.op = mine.op /\ mine'.copy = mine.copy
          /\ mine'.home = mine.home /\ mine'.xid = x /\ mine.op \in Ops
      BY <2>2 DEF Served, SInv, MineInv
    <3>2. Stamp(mine.xid)'
      BY <1>5, <3>1 DEF Stamp
    <3>3. Left(Tables', mine')
      BY <2>2 DEF Served
    <3> QED
      BY <1>3, <3>1, <3>2, <3>3 DEF SInv, MineInv, Ops
  <2> QED
    BY <1>1, <2>1, <2>2
<1>14. OwnInv'
  <2>1. CASE own' = OwnForgotten
    <3>1. DOMAIN own' = {"op", "copy", "home", "xid", "settled"} /\ own'.op \notin Ops
      BY <2>1 DEF OwnForgotten, ReadOnly, NoOwn, Ops
    <3> QED
      BY <3>1 DEF OwnInv
  <2>2. CASE own' = own /\ Reachable(Viewer)' = Reachable(Viewer)
    <3>0. DOMAIN own = {"op", "copy", "home", "xid", "settled"}
      BY DEF SInv, OwnInv
    <3>1. CASE own.op \notin Ops
      BY <2>2, <3>0, <3>1 DEF OwnInv
    <3>2. CASE own.op \in Ops
      <4>1. /\ own.copy \in Copies /\ own.home \in Homes /\ lists # Unknown
            /\ Stamp(own.xid) /\ Left(Tables, own) /\ own.xid # x /\ own.xid \in Nat
            /\ Underway => read.accessible # Unknown
        BY <1>2, <3>2 DEF SInv, OwnInv, Stamp
      <4>2. Left(Tables', own) /\ Stamp(own.xid)'
        BY <1>4, <1>7, <2>2, <4>1, WhatIsLeftStays DEF Stamp
      <4>3. ASSUME Stands(Tables', own, Reachable(Viewer))
            PROVE  /\ Stands(Tables, own, Reachable(Viewer))
                   /\ own.op # "dispose" => Tables'.rows[own.copy] = Tables.rows[own.copy]
        BY <1>7, <4>1, <4>3, WhatIsLeftStays
      <4>4. "store" \notin blind' => "store" \notin blind
        BY <1>1 DEF Committed, Overlooked
      <4>5. "read" \notin blind' => "read" \notin blind
        BY <1>1 DEF Committed, Overlooked
      <4>6. ASSUME Stands(Tables', own, Reachable(Viewer)), "store" \notin blind'
            PROVE  ShownIn(store, Tables', own)
        <5>1. ShownIn(store, Tables, own)
          BY <3>2, <4>3, <4>4, <4>6 DEF SInv, OwnInv
        <5> QED
          BY <4>3, <4>6, <5>1 DEF ShownIn
      <4>7. ASSUME Stands(Tables', own, Reachable(Viewer)), "read" \notin blind', Underway
            PROVE  OwnPages(Tables', read, own)
        <5>1. OwnPages(Tables, read, own)
          BY <3>2, <4>3, <4>5, <4>7 DEF SInv, OwnInv
        <5>2. read.since \in Nat
          BY <4>7, ReadIsNumbers DEF SInv, IInv
        <5>3. Tables.pruned <= Tables'.pruned
          BY <1>7 DEF DbStep
        <5> QED
          BY <1>7, <4>3, <4>7, <5>1, <5>2, <5>3, OwnPagesStay
      <4> QED
        BY <1>3, <2>2, <3>0, <3>2, <4>1, <4>2, <4>6, <4>7 DEF OwnInv
    <3> QED
      BY <3>1, <3>2
  <2> QED
    BY <1>1, <2>1, <2>2 DEF Committed
<1> QED
  BY <1>1, <1>6, <1>8, <1>9, <1>10, <1>11, <1>12, <1>13, <1>14 DEF SInv

-----------------------------------------------------------------------------
(* The steps of the client                                                 *)

LEMMA AccessIsHomes ==
  ASSUME DOMAIN members = Groups
  PROVE  Reachable(Viewer) \subseteq Homes /\ Reachable(Viewer) # Unknown
<1>1. Reachable(Viewer) \subseteq Homes
  BY SyncAssumption DEF Reachable, Homes
<1> QED
  BY <1>1, SyncAssumption

LEMMA ClientKeepsTables ==
  ASSUME TypesInv, XidsInv, UNCHANGED db
  PROVE  /\ Tables' = Tables /\ Reachable(Viewer)' = Reachable(Viewer)
         /\ \A y : Stamp(y)' <=> Stamp(y)
         /\ lists' \in (SUBSET Homes) \cup {Unknown} => TypesInv'
         /\ inverted' = inverted => (StampsInOrder => StampsInOrder')
<1>1. /\ nextXid' = nextXid /\ active' = active /\ rows' = rows /\ tombs' = tombs
      /\ pruned' = pruned /\ members' = members
  BY DEF db
<1>2. Tables' = Tables /\ Reachable(Viewer)' = Reachable(Viewer)
  BY <1>1 DEF Tables, Reachable
<1>3. \A y : Stamp(y)' <=> Stamp(y)
  BY <1>1 DEF Stamp
<1>4. ASSUME lists' \in (SUBSET Homes) \cup {Unknown} PROVE TypesInv'
  BY <1>1, <1>4 DEF TypesInv, RowSet, TombSet, Stamp
<1>5. ASSUME inverted' = inverted, StampsInOrder PROVE StampsInOrder'
  BY <1>2, <1>5 DEF StampsInOrder
<1> QED
  BY <1>2, <1>3, <1>4, <1>5

(* Nothing that the invariant of the client's own write says changes.      *)
LEMMA MineStays ==
  ASSUME TypesInv, XidsInv, MineInv, UNCHANGED db, lists' = lists \/ lists' # Unknown,
         \/ mine' = mine \/ mine' = Watched \/ mine' = NoWrite
  PROVE  MineInv'
<1>1. Tables' = Tables /\ \A y : Stamp(y)' <=> Stamp(y)
  BY ClientKeepsTables
<1>2. CASE mine' = NoWrite
  BY <1>2 DEF NoWrite, MineInv, None, Ops
<1>3. CASE mine' = mine \/ mine' = Watched
  <2>1. /\ DOMAIN mine' = DOMAIN mine /\ mine'.op = mine.op /\ mine'.copy = mine.copy
        /\ mine'.home = mine.home /\ mine'.xid = mine.xid
    BY <1>3 DEF Watched, MineInv
  <2>2. Left(Tables, mine) => Left(Tables', mine')
    BY <1>1, <2>1 DEF Left
  <2>3. mine.xid # None /\ Stamp(mine.xid) => Stamp(mine.xid)'
    BY <1>1, <2>1
  <2> QED
    BY <1>1, <2>1, <2>2, <2>3 DEF MineInv
<1> QED
  BY <1>2, <1>3

(* What a fresh read knows.                                                *)
LEMMA FreshRead ==
  ASSUME NEW cached
  PROVE  LET r == Started(cached)
         IN  /\ r.phase = "check" /\ r.accessible = lists /\ r.previous = cached
             /\ r.since \in {None, synced}
             /\ r.since # None => cached # Unknown /\ ~GainedAccess /\ ~ReachableUnknown
             /\ r.cursor = None /\ r.pin = None /\ r.rowAt = Start /\ r.goneAt = Start
             /\ r.safe = None /\ r.xid = None /\ r.deleted = Unknown
             /\ DOMAIN r.items = {} /\ DOMAIN r = ReadFields
BY DEF Started, NoRead, ReadFields

LEMMA FreshPages ==
  ASSUME Numbers(Tables), NEW cached, NEW but
  PROVE  PagesRight(Tables, Started(cached), but)
<1> DEFINE r == Started(cached)
<1>1. /\ r.phase = "check" /\ r.cursor = None /\ r.pin = 0 /\ r.deleted = Unknown
      /\ DOMAIN r.items = {}
  BY FreshRead DEF None
<1> HIDE DEF r
<1>2. \A c \in Copies : ~Changed(Tables, r, c) /\ ~Removed(Tables, r, c)
  <2> SUFFICES ASSUME NEW c \in Copies PROVE ~Changed(Tables, r, c) /\ ~Removed(Tables, r, c)
    OBVIOUS
  <2>1. /\ Tables.rows[c] # Absent => ~(Tables.rows[c].xid < 0)
        /\ Tables.tombs[c] # Absent => ~(Tables.tombs[c].xid < 0)
    BY DEF Numbers
  <2> QED
    BY <1>1, <2>1 DEF Changed, Removed, Within
<1>3. GoneIds(r) = {}
  BY <1>1 DEF GoneIds
<1>4. FullRight(Tables, r, but)
  BY <1>1 DEF FullRight
<1>5. DeltaRight(Tables, r, but)
  BY <1>1, <1>2, <1>3 DEF DeltaRight, ItemsRight, RowsTaken, TombsTaken
<1>6. RowPageRight(Tables, r, but) /\ GonePageRight(Tables, r)
  BY <1>1 DEF RowPageRight, GonePageRight
<1> QED
  BY <1>4, <1>5, <1>6 DEF PagesRight, r

LEMMA FreshOwnPages ==
  ASSUME NEW d, NEW cached, NEW w
  PROVE  OwnPages(d, Started(cached), w)
<1> DEFINE r == Started(cached)
<1>1. /\ r.phase = "check" /\ r.cursor = None /\ r.deleted = Unknown /\ DOMAIN r.items = {}
  BY FreshRead
<1> HIDE DEF r
<1> QED
  BY <1>1 DEF OwnPages, NotUndone, Covers, GoneIds, r

(* A read that starts, or starts again after the client's own write.       *)
LEMMA FreshKeeps ==
  ASSUME TypesInv, XidsInv, ReadFits, UNCHANGED <<db, lists, known, synced>>,
         read' = Started(store'), StartHistory, replaced' = replaced
  PROVE  /\ ReadShape' /\ ReadFits' /\ ReadRight' /\ QuietInv' /\ Underway'
         /\ read'.accessible = lists
         /\ \A d, w : OwnPages(d, read', w)
<1> DEFINE r == Started(store')
<1>1. /\ r.phase = "check" /\ r.accessible = lists /\ r.previous = store'
      /\ r.since \in {None, synced}
      /\ r.since # None => ~GainedAccess /\ ~ReachableUnknown
      /\ r.cursor = None /\ r.pin = None /\ r.rowAt = Start /\ r.goneAt = Start
      /\ r.safe = None /\ r.xid = None /\ r.deleted = Unknown
      /\ DOMAIN r.items = {} /\ DOMAIN r = ReadFields
  BY FreshRead
<1>2. \A d, w : OwnPages(d, r, w)
  BY FreshOwnPages
<1>3. Numbers(Tables) /\ PagesRight(Tables, r, replaced)
  BY FreshPages, TablesAreNumbers
<1> HIDE DEF r
<1>4. read' = r
  BY DEF r
<1>5. Tables' = Tables /\ Reachable(Viewer)' = Reachable(Viewer)
  BY ClientKeepsTables
<1>6. Underway'
  BY <1>1, <1>4 DEF Underway
<1>7. lists \in (SUBSET Homes) \cup {Unknown}
  BY DEF TypesInv
<1>8. ReadShape'
  <2>1. Shape(r)
    BY <1>1, <1>7 DEF Shape, None
  <2>2. InFull(r)
    BY <1>1 DEF InFull
  <2>3. Shape(read)'
    BY <1>4, <2>1 DEF Shape
  <2>4. InFull(read)'
    BY <1>1, <1>4 DEF InFull
  <2> QED
    BY <2>3, <2>4 DEF ReadShape
<1>9. ReadFits'
  <2>1. known' = known /\ lists' = lists /\ synced' = synced
    OBVIOUS
  <2>2. r.accessible = Unknown => known = Unknown
    BY <1>1 DEF ReadFits
  <2>3. r.since # None /\ r.accessible # Unknown => known # Unknown /\ r.accessible \subseteq known
    BY <1>1 DEF GainedAccess, ReachableUnknown
  <2> QED
    BY <1>1, <1>4, <1>6, <2>1, <2>2, <2>3 DEF ReadFits
<1>10. ReadRight'
  <2>1. ASSUME lists # Unknown, "read" \notin blind' PROVE lists = Reachable(Viewer)
    BY <2>1 DEF StartHistory, Outdated
  <2> QED
    BY <1>1, <1>3, <1>4, <1>5, <2>1 DEF ReadRight
<1>11. QuietInv'
  <2>1. SUFFICES ASSUME quiet' PROVE QuietInv'
    BY DEF QuietInv
  <2>2. active = {} /\ lists = Reachable(Viewer)
    BY <2>1 DEF StartHistory
  <2>3. active' = {} /\ nextXid' = nextXid
    BY <2>2 DEF db
  <2>4. ASSUME NEW z, Stamp(z) PROVE z < nextXid
    BY <2>4 DEF Stamp, XidsInv
  <2>5. Below(Tables, nextXid)
    <3>1. pruned < nextXid
      BY <2>4 DEF TypesInv, None, XidsInv
    <3> QED
      BY <2>4, <3>1 DEF Below, Tables, TypesInv
  <2> QED
    BY <1>1, <1>4, <1>5, <1>6, <2>2, <2>3, <2>5 DEF QuietInv
<1> QED
  BY <1>1, <1>2, <1>4, <1>6, <1>8, <1>9, <1>10, <1>11
(* What the invariant says of the client's last write, for another store   *)
(* and another read.                                                       *)
LEMMA OwnStays ==
  ASSUME TypesInv, XidsInv, OwnInv, UNCHANGED db,
         DOMAIN own' = DOMAIN own, own'.op = own.op, own'.copy = own.copy,
         own'.home = own.home, own'.xid = own.xid,
         lists # Unknown => lists' # Unknown,
         own.op \in Ops /\ Underway' => read'.accessible # Unknown,
         own.op \in Ops /\ Stands(Tables, own, Reachable(Viewer)) =>
           /\ "store" \notin blind' => ShownIn(store', Tables, own)
           /\ Underway' /\ "read" \notin blind' => OwnPages(Tables, read', own)
  PROVE  OwnInv'
<1>1. /\ Tables' = Tables /\ Reachable(Viewer)' = Reachable(Viewer)
      /\ \A y : Stamp(y)' <=> Stamp(y)
  BY ClientKeepsTables
<1>2. \A H : Stands(Tables, own', H) => Stands(Tables, own, H)
  BY DEF Stands
<1>3. \A S : ShownIn(S, Tables, own) => ShownIn(S, Tables, own')
  BY DEF ShownIn
<1>4. \A S : NotUndone(S, Tables, own) => NotUndone(S, Tables, own')
  BY <1>3 DEF NotUndone
<1>5. \A r, ids : Covers(Tables, r, own, ids) => Covers(Tables, r, own', ids)
  BY DEF Covers
<1>6. \A r : OwnPages(Tables, r, own) => OwnPages(Tables, r, own')
  BY <1>3, <1>4, <1>5 DEF OwnPages
<1>7. Left(Tables, own) => Left(Tables, own')
  BY DEF Left
<1>8. Stamp(own.xid) => Stamp(own.xid)'
  BY <1>1
<1> QED
  BY <1>1, <1>2, <1>3, <1>6, <1>7, <1>8 DEF OwnInv

LEMMA BeginKeepsSInv ==
  ASSUME SInv, Begin
  PROVE  SInv'
<1>1. /\ nextXid \in Nat /\ nextXid' = nextXid + 1 /\ active' = active \cup {nextXid}
      /\ UNCHANGED <<rows, tombs, pruned, members, lists, known, store, synced, read, mine,
                     quiet, blind, replaced, inverted, overtaken, own>>
  BY DEF Begin, client, history, SInv, IInv, XidsInv
<1>2. IInv'
  BY ServerIsSafe DEF SInv, Server
<1>3. Tables' = Tables /\ Reachable(Viewer)' = Reachable(Viewer) /\ Underway' = Underway
  BY <1>1 DEF Tables, Reachable, Underway
<1>4. ASSUME NEW y, Stamp(y)
      PROVE  y \in 1..nextXid' - 1 /\ y \notin active' /\ y < nextXid
  BY <1>1, <1>4 DEF Stamp
<1>5. TypesInv'
  <2>1. \A c \in Copies : /\ rows[c] # Absent => Stamp(rows[c].xid)'
                          /\ tombs[c] # Absent => Stamp(tombs[c].xid)'
    BY <1>1, <1>4 DEF SInv, TypesInv, Stamp
  <2>2. pruned' = None \/ Stamp(pruned)'
    BY <1>1, <1>4 DEF SInv, TypesInv, Stamp
  <2> QED
    BY <1>1, <2>1, <2>2 DEF SInv, TypesInv, RowSet, TombSet
<1>6. StampsInOrder' /\ ReadShape' /\ ReadFits' /\ StoreRight' /\ ReadRight'
  BY <1>1, <1>3 DEF SInv, StampsInOrder, ReadShape, Shape, InFull, ReadFits, StoreRight,
                    ReadRight, Excepted
<1>7. QuietInv'
  <2>1. SUFFICES ASSUME quiet PROVE QuietInv'
    BY <1>1 DEF QuietInv
  <2>2. Below(Tables, nextXid)
    BY <2>1 DEF SInv, QuietInv
  <2>3. Below(Tables, nextXid + 1)
    <3>1. Numbers(Tables)
      BY TablesAreNumbers DEF SInv, IInv
    <3> QED
      BY <1>1, <2>2, <3>1 DEF Below, Numbers
  <2>4. \A y \in active' \cup {nextXid'} : Below(Tables, y)
    BY <1>1, <2>1, <2>2, <2>3 DEF SInv, QuietInv
  <2> QED
    BY <1>1, <1>3, <2>1, <2>4 DEF SInv, QuietInv
<1>8. MineInv'
  <2>1. mine.xid # None => Stamp(mine.xid)'
    BY <1>1, <1>4 DEF SInv, MineInv, Stamp
  <2> QED
    BY <1>1, <1>3, <2>1 DEF SInv, MineInv
<1>9. OwnInv'
  <2>1. own.op \in Ops => Stamp(own.xid)'
    BY <1>1, <1>4 DEF SInv, OwnInv, Stamp
  <2> QED
    BY <1>1, <1>3, <2>1 DEF SInv, OwnInv
<1> QED
  BY <1>2, <1>5, <1>6, <1>7, <1>8, <1>9 DEF SInv

LEMMA RefreshKeepsSInv ==
  ASSUME SInv, RefreshLists
  PROVE  SInv'
<1>1. /\ UNCHANGED <<db, known, store, synced, read, mine, quiet, blind, replaced, inverted,
                     overtaken, own>>
      /\ lists' = Reachable(Viewer)
  BY DEF RefreshLists, history
<1>2. lists' \in SUBSET Homes /\ lists' # Unknown
  BY <1>1, AccessIsHomes DEF SInv, TypesInv
<1>3. IInv'
  BY <1>1, EndingKeepsIInv DEF SInv, db
<1>4. Tables' = Tables /\ Reachable(Viewer)' = Reachable(Viewer) /\ TypesInv' /\ StampsInOrder'
  BY <1>1, <1>2, ClientKeepsTables DEF SInv, IInv
<1>5. Underway' = Underway
  BY <1>1 DEF Underway
<1>6. pruned' = pruned /\ active' = active /\ nextXid' = nextXid
  BY <1>1 DEF db
<1>7. ReadShape' /\ StoreRight' /\ ReadRight' /\ QuietInv'
  BY <1>1, <1>4, <1>5, <1>6 DEF SInv, ReadShape, Shape, InFull, StoreRight, ReadRight,
                                Excepted, QuietInv
<1>8. ReadFits'
  BY <1>1, <1>2, <1>5 DEF SInv, ReadFits
<1>9. MineInv'
  BY <1>1, <1>2, MineStays DEF SInv, IInv
<1>10. OwnInv'
  BY <1>1, <1>2, <1>5, OwnStays DEF SInv, IInv, OwnInv
<1> QED
  BY <1>3, <1>4, <1>7, <1>8, <1>9, <1>10 DEF SInv

LEMMA StartKeepsSInv ==
  ASSUME SInv, StartRead
  PROVE  SInv'
<1>1. /\ UNCHANGED <<db, lists, known, store, synced, replaced, inverted, overtaken, own>>
      /\ read' = Started(store) /\ StartHistory /\ mine' = Watched
  BY DEF StartRead
<1>2. IInv'
  BY NextIsSafe DEF SInv, Next
<1>3. Tables' = Tables /\ TypesInv' /\ StampsInOrder'
  BY <1>1, ClientKeepsTables DEF SInv, IInv, TypesInv
<1>4. /\ ReadShape' /\ ReadFits' /\ ReadRight' /\ QuietInv' /\ Underway'
      /\ read'.accessible = lists /\ \A d, w : OwnPages(d, read', w)
  <2>1. read' = Started(store')
    BY <1>1
  <2> QED
    BY <1>1, <2>1, FreshKeeps DEF SInv, IInv
<1>5. "store" \notin blind' => "store" \notin blind
  BY <1>1 DEF StartHistory
<1>6. StoreRight'
  BY <1>1, <1>3, <1>5 DEF SInv, StoreRight, Excepted
<1>7. MineInv'
  BY <1>1, MineStays DEF SInv, IInv
<1>8. OwnInv'
  BY <1>1, <1>4, <1>5, OwnStays DEF SInv, IInv, OwnInv
<1> QED
  BY <1>2, <1>3, <1>4, <1>6, <1>7, <1>8 DEF SInv

LEMMA AbandonKeepsSInv ==
  ASSUME SInv, AbandonRead
  PROVE  SInv'
<1>1. /\ UNCHANGED <<db, lists, known, store, synced, mine, replaced, inverted, overtaken, own>>
      /\ read' = NoRead /\ quiet' = FALSE /\ blind' = blind \ {"read"}
  BY DEF AbandonRead
<1>2. IInv'
  BY NextIsSafe DEF SInv, Next
<1>3. Tables' = Tables /\ TypesInv' /\ StampsInOrder'
  BY <1>1, ClientKeepsTables DEF SInv, IInv, TypesInv
<1>4. ~Underway'
  BY <1>1 DEF Underway, NoRead
<1>5. ReadShape'
  <2>1. Shape(NoRead)
    BY DEF Shape, NoRead, ReadFields, None
  <2> QED
    BY <1>1, <1>4, <2>1 DEF ReadShape, Shape
<1>6. ReadFits' /\ ReadRight' /\ QuietInv'
  BY <1>1, <1>4 DEF SInv, ReadFits, ReadRight, QuietInv
<1>7. StoreRight'
  BY <1>1, <1>3 DEF SInv, StoreRight, Excepted
<1>8. MineInv'
  BY <1>1, MineStays DEF SInv, IInv
<1>9. OwnInv'
  BY <1>1, <1>4, OwnStays DEF SInv, IInv, OwnInv
<1> QED
  BY <1>2, <1>3, <1>5, <1>6, <1>7, <1>8, <1>9 DEF SInv

LEMMA SendKeepsSInv ==
  ASSUME SInv, NEW op \in OwnOps, NEW c \in Written, NEW h \in Homes, Send(op, c, h)
  PROVE  SInv'
<1>1. /\ UNCHANGED <<db, lists, known, store, synced, read, quiet, blind, replaced, inverted,
                     overtaken, own>>
      /\ mine' = [NoWrite EXCEPT !.op = op, !.copy = c, !.home = h] /\ lists # Unknown
  BY DEF Send, client, history
<1>2. IInv'
  BY <1>1, EndingKeepsIInv DEF SInv, db
<1>3. Tables' = Tables /\ TypesInv' /\ StampsInOrder' /\ Reachable(Viewer)' = Reachable(Viewer)
  BY <1>1, ClientKeepsTables DEF SInv, IInv, TypesInv
<1>4. Underway' = Underway /\ pruned' = pruned /\ active' = active /\ nextXid' = nextXid
  BY <1>1 DEF Underway, db
<1>5. ReadShape' /\ ReadFits' /\ StoreRight' /\ ReadRight' /\ QuietInv'
  BY <1>1, <1>3, <1>4 DEF SInv, ReadShape, Shape, InFull, ReadFits, StoreRight, ReadRight,
                          QuietInv, Excepted
<1>6. MineInv'
  <2>1. op \in Ops /\ c \in Copies
    BY SyncAssumption DEF Ops
  <2> QED
    BY <1>1, <2>1 DEF MineInv, NoWrite, None, Ops
<1>7. OwnInv'
  BY <1>1, <1>4, OwnStays DEF SInv, IInv, OwnInv
<1> QED
  BY <1>2, <1>3, <1>5, <1>6, <1>7 DEF SInv

LEMMA GiveUpKeepsSInv ==
  ASSUME SInv, GiveUp
  PROVE  SInv'
<1>1. /\ UNCHANGED <<db, lists, known, store, synced, replaced, inverted, overtaken, own>>
      /\ mine' = NoWrite
      /\ (read' = Started(store) /\ StartHistory) \/ UNCHANGED <<read, quiet, blind>>
  BY DEF GiveUp, Settle
<1>2. IInv'
  BY OwnWritesAreSafe DEF SInv, OwnWrite
<1>3. Tables' = Tables /\ TypesInv' /\ StampsInOrder' /\ Reachable(Viewer)' = Reachable(Viewer)
  BY <1>1, ClientKeepsTables DEF SInv, IInv, TypesInv
<1>4. MineInv'
  BY <1>1, MineStays DEF SInv, IInv
<1>5. CASE read' = Started(store) /\ StartHistory
  <2>1. /\ ReadShape' /\ ReadFits' /\ ReadRight' /\ QuietInv' /\ Underway'
        /\ read'.accessible = lists /\ \A d, w : OwnPages(d, read', w)
    <3>1. read' = Started(store')
      BY <1>1, <1>5
    <3> QED
      BY <1>1, <1>5, <3>1, FreshKeeps DEF SInv, IInv
  <2>2. "store" \notin blind' => "store" \notin blind
    BY <1>5 DEF StartHistory
  <2>3. StoreRight'
    BY <1>1, <1>3, <2>2 DEF SInv, StoreRight, Excepted
  <2>4. OwnInv'
    BY <1>1, <2>1, <2>2, OwnStays DEF SInv, IInv, OwnInv
  <2> QED
    BY <1>2, <1>3, <1>4, <2>1, <2>3, <2>4 DEF SInv
<1>6. CASE UNCHANGED <<read, quiet, blind>>
  <2>1. Underway' = Underway /\ pruned' = pruned /\ active' = active /\ nextXid' = nextXid
    BY <1>1, <1>6 DEF Underway, db
  <2>2. ReadShape' /\ ReadFits' /\ StoreRight' /\ ReadRight' /\ QuietInv'
    BY <1>1, <1>3, <1>6, <2>1 DEF SInv, ReadShape, Shape, InFull, ReadFits, StoreRight, ReadRight,
                            QuietInv, Excepted
  <2>3. OwnInv'
    BY <1>1, <1>6, <2>1, OwnStays DEF SInv, IInv, OwnInv
  <2> QED
    BY <1>2, <1>3, <1>4, <2>2, <2>3 DEF SInv
<1> QED
  BY <1>1, <1>5, <1>6

-----------------------------------------------------------------------------
(* The pages of a read                                                     *)

(* A step that changes the read in progress and nothing else.              *)
LEMMA ReadGoesOn ==
  ASSUME SInv, ReadStep, UNCHANGED <<db, lists, known, store, synced, mine, history>>,
         Underway, read'.phase # "idle", Shape(read'), InFull(read'),
         read'.since = read.since, read'.accessible = read.accessible,
         read'.previous = read.previous,
         /\ read.accessible # Unknown /\ read.accessible = Reachable(Viewer)
         /\ PagesRight(Tables, read, replaced)
         => PagesRight(Tables, read', replaced),
         quiet => \A w \in {read'.safe, read'.pin, read'.xid} : w # None => Below(Tables, w),
         /\ own.op \in Ops /\ Left(Tables, own) /\ Stands(Tables, own, Reachable(Viewer))
         /\ OwnPages(Tables, read, own)
         => OwnPages(Tables, read', own)
  PROVE  SInv'
<1>1. IInv'
  BY ReadStepsAreSafe DEF SInv
<1>2. /\ nextXid' = nextXid /\ active' = active /\ pruned' = pruned
      /\ quiet' = quiet /\ blind' = blind /\ replaced' = replaced /\ inverted' = inverted
      /\ overtaken' = overtaken /\ own' = own
  BY DEF db, history
<1>3. Tables' = Tables /\ TypesInv' /\ StampsInOrder' /\ Reachable(Viewer)' = Reachable(Viewer)
  BY <1>2, ClientKeepsTables DEF SInv, IInv, TypesInv
<1>4. Underway'
  BY DEF Underway
<1>5. ReadShape'
  BY <1>2 DEF ReadShape, Shape, InFull
<1>6. ReadFits'
  BY <1>2, <1>4 DEF SInv, ReadFits
<1>7. StoreRight'
  BY <1>2, <1>3 DEF SInv, StoreRight, Excepted
<1>8. ReadRight'
  BY <1>2, <1>3 DEF SInv, ReadRight
<1>9. QuietInv'
  BY <1>2, <1>3, <1>4 DEF SInv, QuietInv
<1>10. MineInv'
  BY MineStays DEF SInv, IInv
<1>11. OwnInv'
  BY <1>2, <1>4, OwnStays DEF SInv, IInv, OwnInv
<1> QED
  BY <1>1, <1>3, <1>5, <1>6, <1>7, <1>8, <1>9, <1>10, <1>11 DEF SInv

LEMMA SafeXidIs ==
  ASSUME XidsInv
  PROVE  /\ SafeXid \in active \cup {nextXid} /\ SafeXid \in Nat /\ SafeXid # None
         /\ \A w : Safe(w) => w <= SafeXid
<1> DEFINE T == active \cup {nextXid}
<1>1. T \subseteq Nat \ {0} /\ T # {}
  BY DEF XidsInv
<1>2. \E x \in T : \A y \in T : x <= y
  BY <1>1, LeastNumber
<1>3. SafeXid \in T
  BY <1>2 DEF SafeXid
<1> QED
  BY <1>1, <1>3 DEF Safe, None

LEMMA CopiesAreNumbers ==
  /\ IsFiniteSet(Copies) /\ PageLimit \in Nat \ {0}
  /\ \A c \in Copies : c \in Nat /\ c > 0
<1>1. Copies \subseteq Nat \ {0} /\ IsFiniteSet(Copies) /\ PageLimit \in Nat \ {0}
  BY SyncAssumption
<1> QED
  BY <1>1

LEMMA EveryKeyIsAfterStart ==
  ASSUME Numbers(Tables), NEW c \in Copies
  PROVE  /\ rows[c] # Absent => After(RowKey(Tables, c), Start)
         /\ tombs[c] # Absent => After(TombKey(Tables, c), Start)
<1>1. c \in Nat /\ c > 0
  BY CopiesAreNumbers
<1>2. /\ rows[c] # Absent => rows[c].xid \in Nat
      /\ tombs[c] # Absent => tombs[c].xid \in Nat
  BY DEF Numbers, Tables
<1> QED
  BY <1>1, <1>2 DEF After, RowKey, TombKey, Start, None, Tables

LEMMA CheckKeepsSInv ==
  ASSUME SInv, CheckWatermark
  PROVE  SInv'
<1> DEFINE delta == read.since # None /\ read.since <= SafeXid /\ Covered(read.since)
           pin == PinWatermark(read.pin)
<1>1. /\ read.phase = "check" /\ UNCHANGED <<db, lists, known, store, synced, mine, history>>
      /\ \E m : read' = [read EXCEPT !.phase = IF delta THEN "delta" ELSE "full",
                              !.safe = SafeXid, !.pin = pin,
                              !.rows = Unknown, !.gone = Unknown,
                              !.requests = @ + 1, !.most = m]
  BY DEF CheckWatermark
<1>2. Shape(read) /\ InFull(read) /\ Underway
  BY <1>1 DEF SInv, ReadShape, Underway
<1>3. /\ read'.phase = (IF delta THEN "delta" ELSE "full") /\ read'.safe = SafeXid
      /\ read'.pin = pin /\ read'.rows = Unknown /\ read'.gone = Unknown
      /\ read'.since = read.since /\ read'.accessible = read.accessible
      /\ read'.cursor = read.cursor /\ read'.rowAt = read.rowAt /\ read'.goneAt = read.goneAt
      /\ read'.items = read.items /\ read'.deleted = read.deleted /\ read'.xid = read.xid
      /\ read'.previous = read.previous /\ DOMAIN read' = ReadFields
  BY <1>1, <1>2 DEF Shape, ReadFields
<1> HIDE DEF delta, pin
<1>4. /\ SafeXid \in active \cup {nextXid} /\ SafeXid \in Nat /\ SafeXid # None
      /\ \A w : Safe(w) => w <= SafeXid
  BY SafeXidIs DEF SInv, IInv
<1>5. Safe(read.since) /\ Safe(read.pin)
  <2>1. Safe(None)
    BY NoneIsSafe DEF SInv, IInv
  <2> QED
    BY <1>2, <2>1 DEF SInv, IInv, ReadInv, ReadFits
<1>6. read.since <= SafeXid /\ read.pin <= SafeXid /\ read.pin \in Nat /\ read.since \in Nat
  BY <1>4, <1>5 DEF Safe
<1>7. pin # None /\ (read.pin # None => pin = read.pin) /\ pin \in {read.pin, SafeXid}
  BY <1>4, <1>6 DEF pin, PinWatermark, None
<1>8. pruned \in Nat /\ Numbers(Tables)
  BY TablesAreNumbers DEF SInv, IInv
<1>9. delta <=> read.since # None /\ ~(read.since <= pruned)
  BY <1>6, <1>8 DEF delta, Covered
<1>10. Shape(read') /\ InFull(read')
  <2>1. InFull(read')
    BY <1>2, <1>3, <1>9 DEF InFull
  <2>2. read.cursor # None => ~delta
    BY <1>2, <1>9 DEF InFull
  <2>3. Shape(read')
    BY <1>2, <1>3, <1>4, <1>7, <1>9, <2>2 DEF Shape
  <2> QED
    BY <2>1, <2>3
<1>11. ASSUME PagesRight(Tables, read, replaced)
       PROVE  PagesRight(Tables, read', replaced)
  <2>1. FullRight(Tables, read', replaced)
    BY <1>3, <1>11 DEF PagesRight, FullRight
  <2>2. RowPageRight(Tables, read', replaced) /\ GonePageRight(Tables, read')
    BY <1>3 DEF RowPageRight, GonePageRight
  <2>3. CASE read.pin # None
    <3>1. read'.pin = read.pin
      BY <1>3, <1>7, <2>3
    <3>2. DeltaRight(Tables, read', replaced)
      BY <1>3, <1>11, <3>1 DEF PagesRight, DeltaRight, ItemsRight, RowsTaken, TombsTaken, Changed,
                               Removed, Within, GoneIds, Told
    <3> QED
      BY <2>1, <2>2, <3>2 DEF PagesRight
  <2>4. CASE read.pin = None
    <3>1. ASSUME read.cursor = None
          PROVE  /\ read'.rowAt = Start /\ read'.goneAt = Start /\ GoneIds(read') = {}
                 /\ DOMAIN read'.items = {}
      BY <1>2, <1>3, <2>4, <3>1 DEF Shape, GoneIds
    <3>2. read.cursor = None => RowsTaken(Tables, read') /\ TombsTaken(Tables, read')
      BY <1>8, <3>1, EveryKeyIsAfterStart DEF RowsTaken, TombsTaken, Changed, Removed, Tables
    <3>3. DeltaRight(Tables, read', replaced)
      BY <1>3, <3>1, <3>2 DEF DeltaRight, ItemsRight
    <3> QED
      BY <2>1, <2>2, <3>3 DEF PagesRight
  <2> QED
    BY <2>3, <2>4
<1>12. quiet => \A w \in {read'.safe, read'.pin, read'.xid} : w # None => Below(Tables, w)
  BY <1>2, <1>3, <1>4, <1>7 DEF SInv, QuietInv
<1>13. ASSUME OwnPages(Tables, read, own) PROVE OwnPages(Tables, read', own)
  <2>1. Covers(Tables, read', own, GoneIds(read'))
    <3>1. CASE read.pin # None
      BY <1>3, <1>7, <1>13, <3>1 DEF OwnPages, Covers, GoneIds, Within
    <3>2. CASE read.pin = None
      BY <1>2, <1>3, <3>2 DEF Shape, Covers, GoneIds
    <3> QED
      BY <3>1, <3>2
  <2> QED
    BY <1>3, <1>13, <2>1 DEF OwnPages
<1> QED
  BY <1>1, <1>2, <1>3, <1>10, <1>11, <1>12, <1>13, ReadGoesOn DEF ReadStep

LEMMA FallBackKeepsSInv ==
  ASSUME SInv, FallBack
  PROVE  SInv'
<1>1. /\ read.phase = "delta" /\ ~StillCovered(read.since)
      /\ read' = [read EXCEPT !.phase = "full"]
      /\ UNCHANGED <<db, lists, known, store, synced, mine, history>>
  BY DEF FallBack
<1>2. Shape(read) /\ InFull(read) /\ Underway
  BY <1>1 DEF SInv, ReadShape, Underway
<1>3. /\ read'.phase = "full" /\ DOMAIN read' = ReadFields
      /\ \A f \in ReadFields \ {"phase"} : read'[f] = read[f]
  BY <1>1, <1>2 DEF Shape, ReadFields
<1>4. /\ read'.safe = read.safe
      /\ read'.pin = read.pin /\ read'.rows = read.rows /\ read'.gone = read.gone
      /\ read'.since = read.since /\ read'.accessible = read.accessible
      /\ read'.cursor = read.cursor /\ read'.rowAt = read.rowAt /\ read'.goneAt = read.goneAt
      /\ read'.items = read.items /\ read'.deleted = read.deleted /\ read'.xid = read.xid
      /\ read'.previous = read.previous
  BY <1>3 DEF ReadFields
<1>5. read.since <= pruned
  <2>1. read.since \in Nat /\ pruned \in Nat
    BY <1>2, ReadIsNumbers, TablesAreNumbers DEF SInv, IInv
  <2> QED
    BY <1>1, <2>1 DEF StillCovered, Covered
<1>6. Shape(read') /\ InFull(read')
  BY <1>1, <1>2, <1>3, <1>4, <1>5 DEF Shape, InFull
<1>7. ASSUME PagesRight(Tables, read, replaced)
      PROVE  PagesRight(Tables, read', replaced)
  <2>1. RowPageRight(Tables, read', replaced) /\ GonePageRight(Tables, read')
    BY <1>3 DEF RowPageRight, GonePageRight
  <2>2. FullRight(Tables, read', replaced)
    BY <1>4, <1>7 DEF PagesRight, FullRight
  <2>3. DeltaRight(Tables, read', replaced)
    BY <1>4, <1>7 DEF PagesRight, DeltaRight, ItemsRight, RowsTaken, TombsTaken, Changed,
                      Removed, Within, GoneIds, Told
  <2> QED
    BY <2>1, <2>2, <2>3 DEF PagesRight
<1>8. ASSUME OwnPages(Tables, read, own) PROVE OwnPages(Tables, read', own)
  BY <1>3, <1>4, <1>8 DEF OwnPages, Covers, GoneIds, Within
<1>9. quiet => \A w \in {read'.safe, read'.pin, read'.xid} : w # None => Below(Tables, w)
  BY <1>2, <1>4 DEF SInv, QuietInv
<1> QED
  BY <1>1, <1>2, <1>3, <1>4, <1>6, <1>7, <1>8, <1>9, ReadGoesOn DEF ReadStep
LEMMA NamesOf ==
  ASSUME NEW S, IsFiniteSet(S), NEW f
  PROVE  IsFiniteSet({f[s] : s \in S}) /\ Cardinality({f[s] : s \in S}) <= Cardinality(S)
<1> DEFINE T == {f[s] : s \in S}
           g == [s \in S |-> f[s]]
<1>1. g \in Surjection(S, T)
  BY DEF Surjection
<1> HIDE DEF T, g
<1>2. IsFiniteSet(T) /\ Cardinality(T) <= Cardinality(S)
  BY <1>1, FS_Surjection
<1> QED
  BY <1>2 DEF T

LEMMA CopyHas ==
  ASSUME NEW row
  PROVE  ToCopy(row).home = row.home /\ ToCopy(row).reserved = row.reserved
  BY DEF ToCopy

(* The keys of rows and of tombstones.                                     *)
LEMMA KeysAreFinite ==
  ASSUME TypesInv, XidsInv, NEW C \in SUBSET Copies
  PROVE  /\ (\A c \in C : rows[c] # Absent) =>
              LET K == {[id |-> c, xid |-> rows[c].xid] : c \in C}
              IN  IsFiniteSet(K) /\ K \subseteq KeySet
         /\ (\A c \in C : tombs[c] # Absent) =>
              LET K == {[id |-> c, xid |-> tombs[c].xid] : c \in C}
              IN  IsFiniteSet(K) /\ K \subseteq KeySet
         /\ LET K == {[id |-> c, xid |-> None] : c \in C}
            IN  IsFiniteSet(K) /\ K \subseteq KeySet
<1>1. IsFiniteSet(C)
  BY CopiesAreNumbers, FS_Subset
<1>2. \A c \in C : c \in Nat
  BY CopiesAreNumbers
<1>3. ASSUME \A c \in C : rows[c] # Absent
      PROVE  LET K == {[id |-> c, xid |-> rows[c].xid] : c \in C}
             IN  IsFiniteSet(K) /\ K \subseteq KeySet
  <2>1. \A c \in C : [id |-> c, xid |-> rows[c].xid] \in KeySet
    BY <1>2, <1>3, RowsAreRecords DEF KeySet
  <2> DEFINE f == [c \in C |-> [id |-> c, xid |-> rows[c].xid]]
  <2>2. {f[c] : c \in C} = {[id |-> c, xid |-> rows[c].xid] : c \in C}
    OBVIOUS
  <2>3. IsFiniteSet({f[c] : c \in C})
    <3> HIDE DEF f
    <3> QED
      BY <1>1, NamesOf
  <2> QED
    BY <2>1, <2>2, <2>3
<1>4. ASSUME \A c \in C : tombs[c] # Absent
      PROVE  LET K == {[id |-> c, xid |-> tombs[c].xid] : c \in C}
             IN  IsFiniteSet(K) /\ K \subseteq KeySet
  <2>1. \A c \in C : [id |-> c, xid |-> tombs[c].xid] \in KeySet
    BY <1>2, <1>4, RowsAreRecords DEF KeySet
  <2> DEFINE f == [c \in C |-> [id |-> c, xid |-> tombs[c].xid]]
  <2>2. {f[c] : c \in C} = {[id |-> c, xid |-> tombs[c].xid] : c \in C}
    OBVIOUS
  <2>3. IsFiniteSet({f[c] : c \in C})
    <3> HIDE DEF f
    <3> QED
      BY <1>1, NamesOf
  <2> QED
    BY <2>1, <2>2, <2>3
<1>5. LET K == {[id |-> c, xid |-> None] : c \in C}
      IN  IsFiniteSet(K) /\ K \subseteq KeySet
  <2>1. \A c \in C : [id |-> c, xid |-> None] \in KeySet
    BY <1>2 DEF KeySet, None
  <2> DEFINE f == [c \in C |-> [id |-> c, xid |-> None]]
  <2>2. {f[c] : c \in C} = {[id |-> c, xid |-> None] : c \in C}
    OBVIOUS
  <2>3. IsFiniteSet({f[c] : c \in C})
    <3> HIDE DEF f
    <3> QED
      BY <1>1, NamesOf
  <2> QED
    BY <2>1, <2>2, <2>3
<1> QED
  BY <1>3, <1>4, <1>5

(* What a page that is cut from keys holds, and what it leaves.            *)
LEMMA PageOfKeys ==
  ASSUME NEW keys, IsFiniteSet(keys), keys \subseteq KeySet, NEW at
  PROVE  LET page == Page(Found(keys, at))
         IN  /\ IsFiniteSet(page) /\ page \subseteq keys
             /\ Drained(Found(keys, at)) => page = Found(keys, at)
             /\ \A k \in keys : After(k, at) =>
                  \/ k \in page
                  \/ ~Drained(Found(keys, at)) /\ \A p \in page : After(k, p)
<1> DEFINE found == Found(keys, at)
<1>1. found \subseteq keys /\ \A k \in keys : After(k, at) => k \in found
  BY DEF Found
<1>2. IsFiniteSet(found) /\ found \subseteq KeySet
  BY <1>1, FS_Subset
<1> HIDE DEF found
<1>3. /\ Page(found) \subseteq found /\ (Drained(found) => Page(found) = found)
      /\ \A k \in found \ Page(found) : \A p \in Page(found) : After(k, p)
  BY <1>2, PageIsFirst
<1>4. IsFiniteSet(Page(found))
  BY <1>2, <1>3, FS_Subset
<1> QED
  BY <1>1, <1>3, <1>4 DEF found

LEMMA ChangedKeepsSInv ==
  ASSUME SInv, ReadChanged
  PROVE  SInv'
<1> DEFINE C == {c \in VisibleRows : InWindow(rows[c].xid)}
           keys == {[id |-> c, xid |-> rows[c].xid] : c \in C}
           found == Found(keys, read.rowAt)
           page == Page(found)
           got == [page |-> page, drained |-> Drained(found), items |-> AsItems(page)]
<1>1. /\ read.phase = "delta" /\ read.rows = Unknown
      /\ read' = [read EXCEPT !.rows = got]
      /\ UNCHANGED <<db, lists, known, store, synced, mine, history>>
  BY DEF ReadChanged
<1>2. Shape(read) /\ InFull(read) /\ Underway
  BY <1>1 DEF SInv, ReadShape, Underway
<1>3. C \subseteq Copies /\ \A c \in C : rows[c] # Absent
  BY DEF VisibleRows, Existing
<1>4. IsFiniteSet(keys) /\ keys \subseteq KeySet
  BY <1>3, KeysAreFinite DEF SInv, IInv
<1> HIDE DEF keys
<1>5. /\ IsFiniteSet(page) /\ page \subseteq KeySet /\ page \subseteq keys
      /\ \A k \in keys : After(k, read.rowAt) =>
           k \in page \/ (~Drained(found) /\ \A p \in page : After(k, p))
  BY <1>4, PageOfKeys
<1>6. /\ got.page = page /\ got.drained = Drained(found) /\ got.items = AsItems(page)
  OBVIOUS
<1> HIDE DEF found, page, got
<1>7. /\ DOMAIN read' = ReadFields /\ read'.rows = got
      /\ \A f \in ReadFields \ {"rows"} : read'[f] = read[f]
  BY <1>1, <1>2 DEF Shape, ReadFields
<1>8. /\ read'.phase = read.phase /\ read'.safe = read.safe
      /\ read'.pin = read.pin /\ read'.gone = read.gone
      /\ read'.since = read.since /\ read'.accessible = read.accessible
      /\ read'.cursor = read.cursor /\ read'.rowAt = read.rowAt /\ read'.goneAt = read.goneAt
      /\ read'.items = read.items /\ read'.deleted = read.deleted /\ read'.xid = read.xid
      /\ read'.previous = read.previous
  BY <1>7 DEF ReadFields
<1>9. Shape(read') /\ InFull(read')
  BY <1>2, <1>5, <1>6, <1>7, <1>8 DEF Shape, InFull
<1>10. /\ Ids(page) \subseteq VisibleRows /\ DOMAIN got.items = Ids(page)
       /\ \A c \in Ids(page) : got.items[c] = ToCopy(rows[c])
  <2>1. \A k \in keys : k.id \in VisibleRows
    BY DEF keys
  <2> QED
    BY <1>5, <1>6, <2>1 DEF Ids, AsItems
<1>11. ASSUME read.accessible = Reachable(Viewer), PagesRight(Tables, read, replaced)
       PROVE  PagesRight(Tables, read', replaced)
  <2>1. FullRight(Tables, read', replaced)
    BY <1>8, <1>11 DEF PagesRight, FullRight
  <2>2. DeltaRight(Tables, read', replaced)
    BY <1>8, <1>11 DEF PagesRight, DeltaRight, ItemsRight, RowsTaken, TombsTaken, Changed,
                       Removed, Within, GoneIds, Told
  <2>3. GonePageRight(Tables, read')
    BY <1>8, <1>11 DEF PagesRight, GonePageRight, Removed, Within, Told
  <2>4. ItemsRight(Tables, read', got.items, replaced)
    <3>1. ASSUME NEW c \in Ids(page)
          PROVE  Right(Tables, got.items, read'.pin, read'.accessible, c)
      <4>1. rows[c] # Absent /\ rows[c].home \in read'.accessible
        BY <1>8, <1>10, <1>11 DEF VisibleRows, Existing
      <4>2. got.items[c].home = rows[c].home
        BY <1>10, CopyHas
      <4> QED
        BY <1>10, <4>1, <4>2 DEF Right, Traced, Tables
    <3> QED
      BY <1>10, <3>1 DEF ItemsRight
  <2>5. ASSUME NEW c \in Copies, Changed(Tables, read', c), After(RowKey(Tables, c), read'.rowAt)
        PROVE  \/ c \in Ids(page)
               \/ ~got.drained /\ \A k \in page : After(RowKey(Tables, c), k)
    <3>1. c \in C
      BY <1>8, <1>11, <2>5 DEF Changed, Within, Tables, VisibleRows, Existing, InWindow
    <3>2. RowKey(Tables, c) \in keys
      BY <3>1 DEF keys, RowKey, Tables
    <3>3. RowKey(Tables, c) \in page => c \in Ids(page)
      BY DEF Ids, RowKey
    <3> QED
      BY <1>5, <1>6, <1>8, <2>5, <3>2, <3>3
  <2>6. RowPageRight(Tables, read', replaced)
    BY <1>6, <1>7, <1>10, <2>4, <2>5 DEF RowPageRight
  <2> QED
    BY <2>1, <2>2, <2>3, <2>6 DEF PagesRight
<1>12. quiet => \A w \in {read'.safe, read'.pin, read'.xid} : w # None => Below(Tables, w)
  BY <1>2, <1>8 DEF SInv, QuietInv
<1>13. ASSUME Stands(Tables, own, Reachable(Viewer)), OwnPages(Tables, read, own)
       PROVE  OwnPages(Tables, read', own)
  <2>1. NotUndone(got.items, Tables, own)
    <3>1. ASSUME own.copy \in Ids(page) PROVE ShownIn(got.items, Tables, own)
      <4>1. rows[own.copy] # Absent
        BY <1>10, <3>1 DEF VisibleRows, Existing
      <4>2. got.items[own.copy].home = rows[own.copy].home
        BY <1>10, <3>1, CopyHas
      <4> QED
        BY <1>10, <1>13, <3>1, <4>1, <4>2 DEF ShownIn, Stands, Tables
    <3> QED
      BY <1>10, <3>1 DEF NotUndone
  <2> QED
    BY <1>7, <1>8, <1>13, <2>1 DEF OwnPages, Covers, GoneIds, Within
<1> QED
  BY <1>1, <1>2, <1>8, <1>9, <1>11, <1>12, <1>13, ReadGoesOn DEF ReadStep

LEMMA DeletionsKeepSInv ==
  ASSUME SInv, ReadDeletions
  PROVE  SInv'
<1> DEFINE visible == {c \in Copies : tombs[c] # Absent /\ tombs[c].owner \in Reachable(Viewer)}
           C == {c \in visible : InWindow(tombs[c].xid)}
           keys == {[id |-> c, xid |-> tombs[c].xid] : c \in C}
           found == Found(keys, read.goneAt)
           page == Page(found)
           got == [page |-> page, drained |-> Drained(found)]
<1>1. /\ read.phase = "delta" /\ read.gone = Unknown
      /\ read' = [read EXCEPT !.gone = got]
      /\ UNCHANGED <<db, lists, known, store, synced, mine, history>>
  BY DEF ReadDeletions
<1>2. Shape(read) /\ InFull(read) /\ Underway
  BY <1>1 DEF SInv, ReadShape, Underway
<1>3. C \subseteq Copies /\ \A c \in C : tombs[c] # Absent
  OBVIOUS
<1>4. IsFiniteSet(keys) /\ keys \subseteq KeySet
  BY <1>3, KeysAreFinite DEF SInv, IInv
<1> HIDE DEF keys
<1>5. /\ IsFiniteSet(page) /\ page \subseteq KeySet /\ page \subseteq keys
      /\ \A k \in keys : After(k, read.goneAt) =>
           k \in page \/ (~Drained(found) /\ \A p \in page : After(k, p))
  BY <1>4, PageOfKeys
<1>6. got.page = page /\ got.drained = Drained(found)
  OBVIOUS
<1> HIDE DEF found, page, got
<1>7. /\ DOMAIN read' = ReadFields /\ read'.gone = got
      /\ \A f \in ReadFields \ {"gone"} : read'[f] = read[f]
  BY <1>1, <1>2 DEF Shape, ReadFields
<1>8. /\ read'.phase = read.phase /\ read'.safe = read.safe
      /\ read'.pin = read.pin /\ read'.rows = read.rows
      /\ read'.since = read.since /\ read'.accessible = read.accessible
      /\ read'.cursor = read.cursor /\ read'.rowAt = read.rowAt /\ read'.goneAt = read.goneAt
      /\ read'.items = read.items /\ read'.deleted = read.deleted /\ read'.xid = read.xid
      /\ read'.previous = read.previous
  BY <1>7 DEF ReadFields
<1>9. Ids(page) \subseteq C
  <2>1. \A k \in keys : k.id \in C
    BY DEF keys
  <2> QED
    BY <1>5, <2>1 DEF Ids
<1>10. Shape(read') /\ InFull(read')
  BY <1>2, <1>3, <1>5, <1>6, <1>7, <1>8, <1>9 DEF Shape, InFull
<1>11. ASSUME read.accessible = Reachable(Viewer), PagesRight(Tables, read, replaced)
       PROVE  PagesRight(Tables, read', replaced)
  <2>1. FullRight(Tables, read', replaced)
    BY <1>8, <1>11 DEF PagesRight, FullRight
  <2>2. DeltaRight(Tables, read', replaced)
    BY <1>8, <1>11 DEF PagesRight, DeltaRight, ItemsRight, RowsTaken, TombsTaken, Changed,
                       Removed, Within, GoneIds, Told
  <2>3. RowPageRight(Tables, read', replaced)
    BY <1>8, <1>11 DEF PagesRight, RowPageRight, ItemsRight, Changed, Within
  <2>4. \A c \in Ids(page) : Told(Tables, read', c)
    BY <1>8, <1>9 DEF Told, InWindow, Tables
  <2>5. ASSUME NEW c \in Copies, Removed(Tables, read', c), After(TombKey(Tables, c), read'.goneAt)
        PROVE  \/ c \in Ids(page)
               \/ ~got.drained /\ \A k \in page : After(TombKey(Tables, c), k)
    <3>1. c \in C
      BY <1>8, <1>11, <2>5 DEF Removed, Within, Tables, InWindow
    <3>2. TombKey(Tables, c) \in keys
      BY <3>1 DEF keys, TombKey, Tables
    <3>3. TombKey(Tables, c) \in page => c \in Ids(page)
      BY DEF Ids, TombKey
    <3> QED
      BY <1>5, <1>6, <1>8, <2>5, <3>2, <3>3
  <2>6. GonePageRight(Tables, read')
    BY <1>3, <1>6, <1>7, <1>9, <2>4, <2>5 DEF GonePageRight
  <2> QED
    BY <2>1, <2>2, <2>3, <2>6 DEF PagesRight
<1>12. quiet => \A w \in {read'.safe, read'.pin, read'.xid} : w # None => Below(Tables, w)
  BY <1>2, <1>8 DEF SInv, QuietInv
<1>13. ASSUME own.op \in Ops, Left(Tables, own), Stands(Tables, own, Reachable(Viewer)),
              OwnPages(Tables, read, own)
       PROVE  OwnPages(Tables, read', own)
  <2>1. Covers(Tables, read', own, Ids(page))
    <3>1. SUFFICES ASSUME own.copy \in Ids(page), own.op # "dispose"
                   PROVE  Within(read', own.xid)
      BY DEF Covers
    <3>2. tombs[own.copy] # Absent /\ InWindow(tombs[own.copy].xid)
      BY <1>9, <3>1
    <3>3. tombs[own.copy].xid = own.xid
      BY <1>13, <3>1, <3>2 DEF Left, Stands, Tables
    <3> QED
      BY <1>8, <3>2, <3>3 DEF InWindow, Within
  <2> QED
    BY <1>6, <1>7, <1>8, <1>13, <2>1 DEF OwnPages, Covers, GoneIds, Within
<1> QED
  BY <1>1, <1>2, <1>8, <1>10, <1>11, <1>12, <1>13, ReadGoesOn DEF ReadStep

-----------------------------------------------------------------------------
(* A page that is taken                                                    *)

LEMMA OverHas ==
  ASSUME NEW top, NEW under
  PROVE  /\ DOMAIN Over(top, under) = DOMAIN top \cup DOMAIN under
         /\ \A c \in DOMAIN top : Over(top, under)[c] = top[c]
         /\ \A c \in DOMAIN under \ DOMAIN top : Over(top, under)[c] = under[c]
BY DEF Over

(* Whether a store is right about a copy depends on its entry only.        *)
LEMMA RightAt ==
  ASSUME NEW d, NEW S, NEW T, NEW P, NEW H, NEW c,
         c \in DOMAIN S <=> c \in DOMAIN T, c \in DOMAIN S => S[c] = T[c],
         Right(d, S, P, H, c)
  PROVE  Right(d, T, P, H, c)
BY DEF Right

LEMMA ShownAt ==
  ASSUME NEW d, NEW S, NEW T, NEW w,
         w.copy \in DOMAIN S <=> w.copy \in DOMAIN T,
         w.copy \in DOMAIN S => S[w.copy] = T[w.copy],
         ShownIn(S, d, w)
  PROVE  ShownIn(T, d, w)
BY DEF ShownIn

ItemsTaken(r) == Over(r.rows.items, r.items)
GoneTaken(r)  == GoneIds(r) \cup Ids(r.gone.page)

(* What is past every row of a page is past the keyset of the next one.    *)
LEMMA NextIsPast ==
  ASSUME NEW page, IsFiniteSet(page), page \subseteq KeySet, NEW k, After(k, Start),
         \A p \in page : After(k, p)
  PROVE  After(k, NextAt(page))
<1>1. CASE page = {}
  BY <1>1 DEF NextAt
<1>2. CASE page # {}
  BY <1>2, LastIsLast DEF NextAt
<1> QED
  BY <1>1, <1>2

(* The rows and deletions of a delta, with the pages that are now taken.   *)
LEMMA DeltaTaken ==
  ASSUME Numbers(Tables), NEW r, Shape(r), r.phase = "delta", r.rows # Unknown,
         r.gone # Unknown, NEW but, PagesRight(Tables, r, but)
  PROVE  /\ ItemsRight(Tables, r, ItemsTaken(r), but)
         /\ \A c \in Copies : Changed(Tables, r, c) =>
              \/ c \in DOMAIN ItemsTaken(r)
              \/ ~r.rows.drained /\ After(RowKey(Tables, c), NextAt(r.rows.page))
         /\ \A c \in Copies : Removed(Tables, r, c) =>
              \/ c \in GoneTaken(r)
              \/ ~r.gone.drained /\ After(TombKey(Tables, c), NextAt(r.gone.page))
         /\ \A c \in GoneTaken(r) : Told(Tables, r, c)
<1>1. r.cursor = None
  BY DEF Shape
<1>2. /\ ItemsRight(Tables, r, r.items, but) /\ RowsTaken(Tables, r) /\ TombsTaken(Tables, r)
      /\ \A c \in GoneIds(r) : Told(Tables, r, c)
  BY <1>1 DEF PagesRight, DeltaRight
<1>3. /\ DOMAIN r.rows.items = Ids(r.rows.page)
      /\ ItemsRight(Tables, r, r.rows.items, but)
      /\ \A c \in Copies : Changed(Tables, r, c) /\ After(RowKey(Tables, c), r.rowAt) =>
           \/ c \in Ids(r.rows.page)
           \/ ~r.rows.drained /\ \A k \in r.rows.page : After(RowKey(Tables, c), k)
  BY DEF PagesRight, RowPageRight
<1>4. /\ \A c \in Ids(r.gone.page) : Told(Tables, r, c)
      /\ \A c \in Copies : Removed(Tables, r, c) /\ After(TombKey(Tables, c), r.goneAt) =>
           \/ c \in Ids(r.gone.page)
           \/ ~r.gone.drained /\ \A k \in r.gone.page : After(TombKey(Tables, c), k)
  BY DEF PagesRight, GonePageRight
<1>5. /\ DOMAIN ItemsTaken(r) = DOMAIN r.rows.items \cup DOMAIN r.items
      /\ \A c \in DOMAIN r.rows.items : ItemsTaken(r)[c] = r.rows.items[c]
      /\ \A c \in DOMAIN r.items \ DOMAIN r.rows.items : ItemsTaken(r)[c] = r.items[c]
  BY OverHas DEF ItemsTaken
<1>6. ItemsRight(Tables, r, ItemsTaken(r), but)
  <2>1. SUFFICES ASSUME NEW c \in (Copies \cap DOMAIN ItemsTaken(r)) \ but
                 PROVE  Right(Tables, ItemsTaken(r), r.pin, r.accessible, c)
    BY DEF ItemsRight
  <2>2. CASE c \in DOMAIN r.rows.items
    <3>1. Right(Tables, r.rows.items, r.pin, r.accessible, c)
      BY <1>3, <2>2 DEF ItemsRight
    <3> QED
      BY <1>5, <2>2, <3>1, RightAt
  <2>3. CASE c \notin DOMAIN r.rows.items
    <3>1. Right(Tables, r.items, r.pin, r.accessible, c)
      BY <1>2, <1>5, <2>3 DEF ItemsRight
    <3> QED
      BY <1>5, <2>3, <3>1, RightAt
  <2> QED
    BY <2>2, <2>3
<1>7. ASSUME NEW c \in Copies, Changed(Tables, r, c), c \notin DOMAIN ItemsTaken(r)
      PROVE  ~r.rows.drained /\ After(RowKey(Tables, c), NextAt(r.rows.page))
  <2>1. After(RowKey(Tables, c), r.rowAt)
    BY <1>2, <1>5, <1>7 DEF RowsTaken
  <2>2. ~r.rows.drained /\ \A k \in r.rows.page : After(RowKey(Tables, c), k)
    BY <1>3, <1>5, <1>7, <2>1
  <2>3. After(RowKey(Tables, c), Start)
    BY <1>7, EveryKeyIsAfterStart DEF Changed, Tables
  <2>4. IsFiniteSet(r.rows.page) /\ r.rows.page \subseteq KeySet
    BY DEF Shape
  <2> QED
    BY <2>2, <2>3, <2>4, NextIsPast
<1>8. ASSUME NEW c \in Copies, Removed(Tables, r, c), c \notin GoneTaken(r)
      PROVE  ~r.gone.drained /\ After(TombKey(Tables, c), NextAt(r.gone.page))
  <2>1. After(TombKey(Tables, c), r.goneAt)
    BY <1>2, <1>8 DEF TombsTaken, GoneTaken
  <2>2. ~r.gone.drained /\ \A k \in r.gone.page : After(TombKey(Tables, c), k)
    BY <1>4, <1>8, <2>1 DEF GoneTaken
  <2>3. After(TombKey(Tables, c), Start)
    BY <1>8, EveryKeyIsAfterStart DEF Removed, Tables
  <2>4. IsFiniteSet(r.gone.page) /\ r.gone.page \subseteq KeySet
    BY DEF Shape
  <2> QED
    BY <2>2, <2>3, <2>4, NextIsPast
<1> QED
  BY <1>2, <1>4, <1>6, <1>7, <1>8 DEF GoneTaken

LEMMA OwnDeltaTaken ==
  ASSUME NEW d, NEW r, r.phase = "delta", r.rows # Unknown, r.gone # Unknown,
         NEW w, OwnPages(d, r, w)
  PROVE  NotUndone(ItemsTaken(r), d, w) /\ Covers(d, r, w, GoneTaken(r))
<1>1. /\ NotUndone(r.items, d, w) /\ NotUndone(r.rows.items, d, w)
      /\ Covers(d, r, w, GoneIds(r)) /\ Covers(d, r, w, Ids(r.gone.page))
  BY DEF OwnPages
<1>2. Covers(d, r, w, GoneTaken(r))
  BY <1>1 DEF Covers, GoneTaken
<1>3. ASSUME w.copy \in DOMAIN ItemsTaken(r) PROVE ShownIn(ItemsTaken(r), d, w)
  <2>1. /\ DOMAIN ItemsTaken(r) = DOMAIN r.rows.items \cup DOMAIN r.items
        /\ \A c \in DOMAIN r.rows.items : ItemsTaken(r)[c] = r.rows.items[c]
        /\ \A c \in DOMAIN r.items \ DOMAIN r.rows.items : ItemsTaken(r)[c] = r.items[c]
    BY OverHas DEF ItemsTaken
  <2>2. CASE w.copy \in DOMAIN r.rows.items
    <3>1. ShownIn(r.rows.items, d, w)
      BY <1>1, <2>2 DEF NotUndone
    <3> QED
      BY <2>1, <2>2, <3>1, ShownAt
  <2>3. CASE w.copy \notin DOMAIN r.rows.items
    <3>1. ShownIn(r.items, d, w)
      BY <1>1, <1>3, <2>1, <2>3 DEF NotUndone
    <3> QED
      BY <1>3, <2>1, <2>3, <3>1, ShownAt
  <2> QED
    BY <2>2, <2>3
<1> QED
  BY <1>2, <1>3 DEF NotUndone

(* The delta goes on with another page.                                    *)
LEMMA DeltaGoesOn ==
  ASSUME SInv, TakeDeltaPage, ~(read.rows.drained /\ read.gone.drained)
  PROVE  SInv'
<1> DEFINE before == IF read.deleted = Unknown THEN {} ELSE read.deleted
           items == Over(read.rows.items, read.items)
           deleted == before \cup Ids(read.gone.page)
           rowAt == NextAt(read.rows.page)
           goneAt == NextAt(read.gone.page)
<1>1. /\ read.phase = "delta" /\ read.rows # Unknown /\ read.gone # Unknown
      /\ read' = [[read EXCEPT !.items = items, !.deleted = deleted]
                  EXCEPT !.phase = "check", !.rowAt = rowAt, !.goneAt = goneAt]
      /\ UNCHANGED <<db, lists, known, store, synced, mine, history>>
  BY DEF TakeDeltaPage, history, SInv, ReadShape, Shape, ReadFields
<1>2. Shape(read) /\ InFull(read) /\ Underway
  BY <1>1 DEF SInv, ReadShape, Underway
<1>3. items = ItemsTaken(read) /\ deleted = GoneTaken(read)
  BY DEF ItemsTaken, GoneTaken, GoneIds
<1> HIDE DEF before, items, deleted, rowAt, goneAt
<1>4. /\ DOMAIN read' = ReadFields /\ read'.phase = "check"
      /\ read'.items = items /\ read'.deleted = deleted
      /\ read'.rowAt = rowAt /\ read'.goneAt = goneAt
      /\ read'.safe = read.safe /\ read'.pin = read.pin
      /\ read'.since = read.since /\ read'.accessible = read.accessible
      /\ read'.cursor = read.cursor /\ read'.xid = read.xid /\ read'.previous = read.previous
  BY <1>1, <1>2 DEF Shape, ReadFields
<1>5. read.cursor = None /\ read.pin # None /\ read.since # None /\ read.xid = None
  BY <1>1, <1>2 DEF Shape
<1>6. deleted \in SUBSET Copies /\ deleted # Unknown
  <2>1. deleted \in SUBSET Copies
    BY <1>1, <1>2, <1>3 DEF Shape, GoneTaken, GoneIds
  <2> QED
    BY <2>1, SyncAssumption
<1>7. Shape(read') /\ InFull(read')
  BY <1>2, <1>4, <1>5, <1>6 DEF Shape, InFull
<1>8. ASSUME PagesRight(Tables, read, replaced)
      PROVE  PagesRight(Tables, read', replaced)
  <2>1. /\ ItemsRight(Tables, read, items, replaced)
        /\ \A c \in Copies : Changed(Tables, read, c) =>
             c \in DOMAIN items \/ After(RowKey(Tables, c), rowAt)
        /\ \A c \in Copies : Removed(Tables, read, c) =>
             c \in deleted \/ After(TombKey(Tables, c), goneAt)
        /\ \A c \in deleted : Told(Tables, read, c)
    <3>1. Numbers(Tables)
      BY TablesAreNumbers DEF SInv, IInv
    <3> QED
      BY <1>1, <1>2, <1>3, <1>8, <3>1, DeltaTaken DEF rowAt, goneAt
  <2>2. GoneIds(read') = deleted
    BY <1>4, <1>6 DEF GoneIds
  <2>3. DeltaRight(Tables, read', replaced)
    BY <1>4, <2>1, <2>2 DEF DeltaRight, ItemsRight, RowsTaken, TombsTaken, Changed,
                       Removed, Within, Told
  <2>4. FullRight(Tables, read', replaced)
    BY <1>4, <1>5 DEF FullRight
  <2>5. RowPageRight(Tables, read', replaced) /\ GonePageRight(Tables, read')
    BY <1>4 DEF RowPageRight, GonePageRight
  <2> QED
    BY <2>3, <2>4, <2>5 DEF PagesRight
<1>9. ASSUME OwnPages(Tables, read, own) PROVE OwnPages(Tables, read', own)
  <2>1. NotUndone(items, Tables, own) /\ Covers(Tables, read, own, deleted)
    BY <1>1, <1>3, <1>9, OwnDeltaTaken
  <2>2. GoneIds(read') = deleted
    BY <1>4, <1>6 DEF GoneIds
  <2> QED
    BY <1>4, <1>5, <2>1, <2>2 DEF OwnPages, Covers, Within
<1>10. quiet => \A w \in {read'.safe, read'.pin, read'.xid} : w # None => Below(Tables, w)
  BY <1>2, <1>4 DEF SInv, QuietInv
<1>11. ReadStep
  BY DEF ReadStep
<1>12. read'.phase # "idle"
  BY <1>4
<1> QED
  BY <1>1, <1>2, <1>4, <1>7, <1>8, <1>9, <1>10, <1>11, <1>12, ReadGoesOn

(* A page that does not hold all that is found has rows.                   *)
LEMMA PagesHaveRows ==
  ASSUME NEW found, IsFiniteSet(found), found \subseteq KeySet, ~Drained(found)
  PROVE  Page(found) # {}
<1> DEFINE ahead(k) == {j \in found : After(k, j)}
           T == {Cardinality(ahead(k)) : k \in found}
<1>1. found # {}
  BY FS_EmptySet, CopiesAreNumbers DEF Drained
<1>2. ASSUME NEW k \in found
      PROVE  IsFiniteSet(ahead(k)) /\ Cardinality(ahead(k)) \in Nat
  BY FS_Subset, FS_CardinalityType
<1>3. T \in SUBSET Nat /\ T # {}
  BY <1>1, <1>2
<1>4. PICK least \in T : \A n \in T : least <= n
  BY <1>3, LeastNumber
<1>5. PICK k \in found : least = Cardinality(ahead(k))
  BY <1>4
<1>6. Page(found) = {j \in found : Cardinality(ahead(j)) < PageLimit}
  BY DEF Page
<1> HIDE DEF ahead
<1>7. ASSUME NEW j \in ahead(k) PROVE FALSE
  <2>1. j \in found /\ After(k, j)
    BY <1>7 DEF ahead
  <2>2. ahead(j) \subseteq ahead(k) \ {j}
    BY <2>1, KeysAreOrdered DEF ahead
  <2>3. IsFiniteSet(ahead(k) \ {j}) /\ Cardinality(ahead(k) \ {j}) = Cardinality(ahead(k)) - 1
    BY <1>2, <1>7, FS_RemoveElement
  <2>4. Cardinality(ahead(j)) <= Cardinality(ahead(k) \ {j})
    BY <2>2, <2>3, FS_Subset
  <2>5. Cardinality(ahead(k)) <= Cardinality(ahead(j))
    BY <1>4, <1>5, <2>1
  <2> QED
    BY <1>2, <2>1, <2>3, <2>4, <2>5
<1>8. Cardinality(ahead(k)) = 0
  BY <1>7, FS_EmptySet
<1> QED
  BY <1>6, <1>8, CopiesAreNumbers

(* A page of the full list, and what the read has up to there.             *)
FullKeys  == {[id |-> c, xid |-> None] : c \in VisibleRows}
FullFound == Found(FullKeys, [xid |-> None, id |-> read.cursor])
FullPage  == Page(FullFound)
Reached(c) == Drained(FullFound) \/ c <= LastOf(FullPage).id

LEMMA FullPageIs ==
  ASSUME SInv, Underway
  PROVE  /\ Ids(FullPage) \subseteq VisibleRows
         /\ \A c \in Ids(FullPage) : c > read.cursor /\ Reached(c)
         /\ \A c \in VisibleRows : c > read.cursor /\ Reached(c) => c \in Ids(FullPage)
         /\ ~Drained(FullFound) => /\ LastOf(FullPage).id \in Ids(FullPage)
                                   /\ LastOf(FullPage).id \in Nat
                                   /\ LastOf(FullPage).id > read.cursor
<1> DEFINE at == [xid |-> None, id |-> read.cursor]
<1>1. VisibleRows \subseteq Copies
  BY DEF VisibleRows, Existing
<1>2. IsFiniteSet(FullKeys) /\ FullKeys \subseteq KeySet
  BY <1>1, KeysAreFinite DEF SInv, IInv, FullKeys
<1>3. read.cursor \in Nat
  BY DEF SInv, ReadShape, Shape
<1>4. \A k \in FullKeys : k.id \in VisibleRows /\ k.xid = None /\ k.id \in Nat
  BY <1>1, CopiesAreNumbers DEF FullKeys
<1>5. \A c \in VisibleRows : [id |-> c, xid |-> None] \in FullKeys
  BY DEF FullKeys
<1>6. \A k \in FullKeys : After(k, at) <=> k.id > read.cursor
  BY <1>3, <1>4 DEF After, None
<1>7. /\ IsFiniteSet(FullPage) /\ FullPage \subseteq FullKeys
      /\ Drained(FullFound) => FullPage = FullFound
      /\ \A k \in FullKeys : After(k, at) =>
           \/ k \in FullPage
           \/ ~Drained(FullFound) /\ \A p \in FullPage : After(k, p)
  BY <1>2, PageOfKeys DEF FullPage, FullFound
<1>8. FullPage \subseteq FullFound /\ FullFound \subseteq FullKeys
      /\ \A k \in FullFound : After(k, at)
  <2>1. FullFound \subseteq FullKeys /\ \A k \in FullFound : After(k, at)
    BY DEF FullFound, Found
  <2>2. FullPage \subseteq FullFound
    BY DEF FullPage, Page
  <2> QED
    BY <2>1, <2>2
<1> HIDE DEF at
<1>9. ASSUME ~Drained(FullFound)
      PROVE  LastOf(FullPage) \in FullPage /\ \A j \in FullPage : ~After(j, LastOf(FullPage))
  <2>1. IsFiniteSet(FullFound) /\ FullFound \subseteq KeySet
    BY <1>2, <1>8, FS_Subset
  <2>2. FullPage # {}
    BY <1>9, <2>1, PagesHaveRows DEF FullPage
  <2> QED
    BY <1>2, <1>7, <2>2, LastIsLast
<1>10. ASSUME NEW k \in FullKeys, NEW l \in FullKeys
       PROVE  After(k, l) <=> k.id > l.id
  BY <1>4 DEF After, None
<1>11. ASSUME NEW c \in Ids(FullPage)
       PROVE  c \in VisibleRows /\ c > read.cursor /\ Reached(c)
  <2>1. PICK k \in FullPage : c = k.id
    BY DEF Ids
  <2>2. c \in VisibleRows /\ c > read.cursor
    BY <1>4, <1>6, <1>8, <2>1
  <2>3. ASSUME ~Drained(FullFound) PROVE c <= LastOf(FullPage).id
    BY <1>4, <1>7, <1>9, <1>10, <2>1, <2>3
  <2> QED
    BY <2>2, <2>3 DEF Reached
<1>12. ASSUME NEW c \in VisibleRows, c > read.cursor, Reached(c)
       PROVE  c \in Ids(FullPage)
  <2> DEFINE k == [id |-> c, xid |-> None]
  <2>1. k \in FullKeys /\ k.id = c
    BY <1>5
  <2> HIDE DEF k
  <2>2. After(k, at)
    BY <1>6, <1>12, <2>1
  <2>3. ~(~Drained(FullFound) /\ \A p \in FullPage : After(k, p))
    BY <1>4, <1>7, <1>9, <1>10, <1>12, <2>1 DEF Reached
  <2>4. k \in FullPage
    BY <1>7, <2>1, <2>2, <2>3
  <2> QED
    BY <2>1, <2>4 DEF Ids
<1>13. ASSUME ~Drained(FullFound)
       PROVE  /\ LastOf(FullPage).id \in Ids(FullPage) /\ LastOf(FullPage).id \in Nat
              /\ LastOf(FullPage).id > read.cursor
  BY <1>4, <1>7, <1>9, <1>11, <1>13 DEF Ids
<1> QED
  BY <1>11, <1>12, <1>13

(* The items and the watermark of the full list, with this page.           *)
FullItems ==
  Over(AsItems(FullPage), IF read.deleted = Unknown THEN read.items ELSE <<>>)
FullXid ==
  IF read.deleted = Unknown /\ read.xid # None THEN read.xid ELSE read.safe

LEMMA FullTaken ==
  ASSUME SInv, read.phase = "full"
  PROVE  /\ FullXid # None /\ FullXid \in {read.xid, read.safe}
         /\ read.accessible = Reachable(Viewer) /\ PagesRight(Tables, read, replaced) =>
              \A c \in Copies \ replaced :
                IF Reached(c) THEN Right(Tables, FullItems, FullXid, read.accessible, c)
                              ELSE c \notin DOMAIN FullItems
         /\ own.op \in Ops /\ own.copy \in Copies
              /\ Stands(Tables, own, Reachable(Viewer)) /\ OwnPages(Tables, read, own) =>
              /\ NotUndone(FullItems, Tables, own)
              /\ Reached(own.copy) => ShownIn(FullItems, Tables, own)
<1> DEFINE under == IF read.deleted = Unknown THEN read.items ELSE <<>>
<1>1. Shape(read) /\ InFull(read) /\ Underway
  BY DEF SInv, ReadShape, Underway
<1>2. FullXid # None /\ FullXid \in {read.xid, read.safe}
  BY <1>1 DEF Shape, FullXid
<1>3. /\ read.cursor = None => DOMAIN under = {}
      /\ read.cursor # None => under = read.items /\ FullXid = read.xid
      /\ under = read.items \/ DOMAIN under = {}
  BY <1>1 DEF Shape, FullXid
<1> HIDE DEF under
<1>4. /\ Ids(FullPage) \subseteq VisibleRows
      /\ \A c \in Ids(FullPage) : c > read.cursor /\ Reached(c)
      /\ \A c \in VisibleRows : c > read.cursor /\ Reached(c) => c \in Ids(FullPage)
      /\ ~Drained(FullFound) => /\ LastOf(FullPage).id \in Ids(FullPage)
                                /\ LastOf(FullPage).id \in Nat
                                /\ LastOf(FullPage).id > read.cursor
  BY <1>1, FullPageIs
<1>5. DOMAIN AsItems(FullPage) = Ids(FullPage)
  BY DEF AsItems
<1>6. \A c \in Ids(FullPage) : AsItems(FullPage)[c] = ToCopy(rows[c])
  BY DEF AsItems
<1>7. /\ DOMAIN FullItems = Ids(FullPage) \cup DOMAIN under
      /\ \A c \in Ids(FullPage) : FullItems[c] = ToCopy(rows[c])
      /\ \A c \in DOMAIN under \ Ids(FullPage) : FullItems[c] = under[c]
  <2> DEFINE top == AsItems(FullPage)
  <2>1. FullItems = Over(top, under)
    BY DEF FullItems, under
  <2>2. DOMAIN top = Ids(FullPage) /\ \A c \in Ids(FullPage) : top[c] = ToCopy(rows[c])
    BY <1>5, <1>6
  <2> HIDE DEF top
  <2>3. DOMAIN FullItems = Ids(FullPage) \cup DOMAIN under
    BY <2>1, <2>2, OverHas
  <2>4. \A c \in Ids(FullPage) : FullItems[c] = ToCopy(rows[c])
    <3>1. \A c \in DOMAIN top : Over(top, under)[c] = top[c]
      BY OverHas
    <3> QED
      BY <2>1, <2>2, <3>1
  <2>5. \A c \in DOMAIN under \ Ids(FullPage) : FullItems[c] = under[c]
    <3>1. \A c \in DOMAIN under \ DOMAIN top : Over(top, under)[c] = under[c]
      BY OverHas
    <3> QED
      BY <2>1, <2>2, <3>1
  <2> QED
    BY <2>3, <2>4, <2>5
<1>8. read.cursor \in Nat /\ \A c \in Copies : c \in Nat /\ c > 0
  BY <1>1, CopiesAreNumbers DEF Shape
<1>9. ASSUME NEW c \in Copies, c <= read.cursor
      PROVE  read.cursor # None /\ c \notin Ids(FullPage)
  BY <1>4, <1>8, <1>9 DEF None
<1>10. ASSUME read.accessible = Reachable(Viewer), PagesRight(Tables, read, replaced),
              NEW c \in Copies \ replaced
       PROVE  IF Reached(c) THEN Right(Tables, FullItems, FullXid, read.accessible, c)
                            ELSE c \notin DOMAIN FullItems
  <2>1. CASE c <= read.cursor
    <3>1. Right(Tables, read.items, read.xid, read.accessible, c)
      BY <1>9, <1>10, <2>1 DEF PagesRight, FullRight
    <3>2. Right(Tables, FullItems, FullXid, read.accessible, c)
      BY <1>3, <1>7, <1>9, <2>1, <3>1, RightAt
    <3>3. Reached(c)
      BY <1>4, <1>8, <2>1 DEF Reached
    <3> QED
      BY <3>2, <3>3
  <2>2. CASE ~(c <= read.cursor)
    <3>1. c \notin DOMAIN under
      BY <1>3, <1>10, <2>2 DEF PagesRight, FullRight
    <3>2. CASE c \in Ids(FullPage)
      <4>1. rows[c] # Absent /\ rows[c].home \in read.accessible
        BY <1>4, <1>10, <3>2 DEF VisibleRows, Existing
      <4>2. FullItems[c] = ToCopy(rows[c]) /\ FullItems[c].home = rows[c].home
        BY <1>7, <3>2, CopyHas
      <4>3. Right(Tables, FullItems, FullXid, read.accessible, c)
        BY <1>7, <3>2, <4>1, <4>2 DEF Right, Traced, Tables
      <4> QED
        BY <1>4, <3>2, <4>3
    <3>3. CASE c \notin Ids(FullPage)
      <4>1. c \notin DOMAIN FullItems
        BY <1>7, <3>1, <3>3
      <4>2. ASSUME Reached(c) PROVE c \notin VisibleRows
        BY <1>4, <1>8, <2>2, <3>3, <4>2
      <4>3. ASSUME Reached(c) PROVE Right(Tables, FullItems, FullXid, read.accessible, c)
        BY <1>10, <4>1, <4>2, <4>3 DEF Right, Tables, VisibleRows, Existing
      <4> QED
        BY <4>1, <4>3
    <3> QED
      BY <3>2, <3>3
  <2> QED
    BY <2>1, <2>2
<1>11. ASSUME own.op \in Ops, own.copy \in Copies,
              Stands(Tables, own, Reachable(Viewer)), OwnPages(Tables, read, own)
       PROVE  /\ NotUndone(FullItems, Tables, own)
              /\ Reached(own.copy) => ShownIn(FullItems, Tables, own)
  <2> DEFINE c == own.copy
  <2>1. /\ NotUndone(read.items, Tables, own)
        /\ read.cursor # None /\ c <= read.cursor => ShownIn(read.items, Tables, own)
    BY <1>11 DEF OwnPages
  <2>2. CASE c \in Ids(FullPage)
    <3>1. rows[c] # Absent
      BY <1>4, <2>2 DEF VisibleRows, Existing
    <3>2. c \in DOMAIN FullItems /\ FullItems[c].home = rows[c].home
      BY <1>7, <2>2, CopyHas
    <3> QED
      BY <1>11, <3>1, <3>2 DEF NotUndone, ShownIn, Stands, Tables
  <2>3. CASE c \notin Ids(FullPage)
    <3>1. /\ c \in DOMAIN FullItems <=> c \in DOMAIN under
          /\ c \in DOMAIN under => FullItems[c] = under[c]
      BY <1>7, <2>3
    <3>2. ASSUME c \in DOMAIN under PROVE ShownIn(FullItems, Tables, own)
      <4>1. under = read.items
        BY <1>3, <3>2
      <4>2. ShownIn(read.items, Tables, own)
        BY <2>1, <3>2, <4>1 DEF NotUndone
      <4> QED
        BY <3>1, <4>1, <4>2, ShownAt
    <3>3. ASSUME Reached(c), c \notin DOMAIN under PROVE ShownIn(FullItems, Tables, own)
      <4>1. CASE own.op = "dispose"
        BY <3>1, <3>3, <4>1 DEF ShownIn
      <4>2. CASE own.op # "dispose"
        <5>1. c \in VisibleRows
          BY <1>11, <4>2 DEF Stands, Tables, VisibleRows, Existing
        <5>2. c <= read.cursor
          BY <1>4, <1>8, <1>11, <2>3, <3>3, <5>1
        <5>3. ShownIn(read.items, Tables, own) /\ under = read.items
          BY <1>3, <1>9, <1>11, <2>1, <5>2
        <5> QED
          BY <3>3, <4>2, <5>3 DEF ShownIn
      <4> QED
        BY <4>1, <4>2
    <3>4. NotUndone(FullItems, Tables, own)
      BY <3>1, <3>2 DEF NotUndone
    <3> QED
      BY <3>2, <3>3, <3>4
  <2> QED
    BY <2>2, <2>3
<1> QED
  BY <1>2, <1>10, <1>11

(* The full list goes on with another page.                                *)
LEMMA FullGoesOn ==
  ASSUME SInv, TakeFullPage, ~Drained(FullFound)
  PROVE  SInv'
<1> DEFINE clean == IF read.deleted = Unknown THEN read
                    ELSE [read EXCEPT !.items = <<>>, !.deleted = Unknown, !.xid = None]
           taken == [clean EXCEPT !.items = Over(AsItems(FullPage), @),
                                  !.xid = IF @ = None THEN read.safe ELSE @]
           last == LastOf(FullPage).id
<1>1. /\ read.phase = "full"
      /\ read' = [taken EXCEPT !.phase = "check", !.pin = None, !.cursor = last,
                               !.rowAt = Start, !.goneAt = Start]
      /\ UNCHANGED <<db, lists, known, store, synced, mine, history>>
  BY DEF TakeFullPage, history, FullPage, FullFound, FullKeys
<1>2. Shape(read) /\ InFull(read) /\ Underway
  BY <1>1 DEF SInv, ReadShape, Underway
<1>3. DOMAIN read = ReadFields
  BY <1>2 DEF Shape
<1>4. /\ DOMAIN clean = ReadFields /\ clean.deleted = Unknown
      /\ clean.items = (IF read.deleted = Unknown THEN read.items ELSE <<>>)
      /\ clean.xid = (IF read.deleted = Unknown THEN read.xid ELSE None)
      /\ clean.safe = read.safe /\ clean.since = read.since
      /\ clean.accessible = read.accessible /\ clean.previous = read.previous
  BY <1>3 DEF ReadFields
<1> HIDE DEF clean
<1>5. /\ DOMAIN taken = ReadFields /\ taken.deleted = Unknown
      /\ taken.items = FullItems /\ taken.xid = FullXid
      /\ taken.safe = read.safe /\ taken.since = read.since
      /\ taken.accessible = read.accessible /\ taken.previous = read.previous
  BY <1>4 DEF ReadFields, FullItems, FullXid
<1> HIDE DEF taken, last
<1>6. /\ DOMAIN read' = ReadFields /\ read'.phase = "check" /\ read'.pin = None
      /\ read'.cursor = last /\ read'.rowAt = Start /\ read'.goneAt = Start
      /\ read'.deleted = Unknown /\ read'.items = FullItems /\ read'.xid = FullXid
      /\ read'.safe = read.safe /\ read'.since = read.since
      /\ read'.accessible = read.accessible /\ read'.previous = read.previous
  BY <1>1, <1>5 DEF ReadFields
<1>7. last \in Nat /\ last # None
  <2>1. read.cursor \in Nat
    BY <1>2 DEF Shape
  <2>2. last \in Nat /\ last > read.cursor
    BY <1>2, FullPageIs DEF last
  <2> QED
    BY <2>1, <2>2 DEF None
<1>8. /\ FullXid # None /\ FullXid \in {read.xid, read.safe}
      /\ read.accessible = Reachable(Viewer) /\ PagesRight(Tables, read, replaced) =>
           \A c \in Copies \ replaced :
             IF Reached(c) THEN Right(Tables, FullItems, FullXid, read.accessible, c)
                           ELSE c \notin DOMAIN FullItems
  BY <1>1, FullTaken
<1>9. \A c : Reached(c) <=> c <= last
  BY DEF Reached, last
<1>10. Shape(read') /\ InFull(read')
  BY <1>1, <1>2, <1>6, <1>7, <1>8 DEF Shape, InFull
<1>11. ASSUME read.accessible = Reachable(Viewer), PagesRight(Tables, read, replaced)
       PROVE  PagesRight(Tables, read', replaced)
  <2>1. FullRight(Tables, read', replaced)
    BY <1>6, <1>8, <1>9, <1>11 DEF FullRight
  <2>2. DeltaRight(Tables, read', replaced)
    BY <1>6, <1>7 DEF DeltaRight
  <2>3. RowPageRight(Tables, read', replaced) /\ GonePageRight(Tables, read')
    BY <1>6 DEF RowPageRight, GonePageRight
  <2> QED
    BY <2>1, <2>2, <2>3 DEF PagesRight
<1>12. ASSUME own.op \in Ops, Stands(Tables, own, Reachable(Viewer)), OwnPages(Tables, read, own)
       PROVE  OwnPages(Tables, read', own)
  <2>1. own.copy \in Copies
    BY <1>12 DEF SInv, OwnInv
  <2>2. /\ NotUndone(FullItems, Tables, own)
        /\ Reached(own.copy) => ShownIn(FullItems, Tables, own)
    BY <1>1, <1>12, <2>1, FullTaken
  <2> QED
    BY <1>6, <1>9, <2>2 DEF OwnPages, Covers, GoneIds
<1>13. quiet => \A w \in {read'.safe, read'.pin, read'.xid} : w # None => Below(Tables, w)
  BY <1>2, <1>6, <1>8 DEF SInv, QuietInv
<1>14. ReadStep
  BY DEF ReadStep
<1>15. read'.phase # "idle"
  BY <1>6
<1> QED
  BY <1>1, <1>2, <1>6, <1>10, <1>11, <1>12, <1>13, <1>14, <1>15, ReadGoesOn

-----------------------------------------------------------------------------
(* A read that ends                                                        *)

LEMMA FinishKeepsSInv ==
  ASSUME SInv, ReadStep, Underway, NEW r, FinishRead(r),
         UNCHANGED <<db, lists, quiet, replaced, inverted>>,
         r.accessible = read.accessible, r.xid # None, quiet => Below(Tables, r.xid),
         /\ "read" \notin blind /\ "store" \notin blind' /\ read.accessible # Unknown
         => \A c \in Copies \ Excepted' : Right(Tables, store', r.xid, read.accessible, c),
         /\ "read" \notin blind /\ "store" \notin blind'
         /\ own.op \in Ops /\ Stands(Tables, own, Reachable(Viewer))
         => ShownIn(store', Tables, own)
  PROVE  SInv'
<1>1. /\ synced' = r.xid /\ read' = NoRead /\ mine' = Watched
      /\ known' = (IF read.accessible = Unknown THEN known ELSE read.accessible)
      /\ own' = [own EXCEPT !.settled = TRUE]
      /\ "read" \in blind => "store" \in blind'
      /\ "read" \notin blind'
  BY DEF FinishRead
<1>2. IInv'
  BY ReadStepsAreSafe DEF SInv
<1>3. Tables' = Tables /\ TypesInv' /\ StampsInOrder' /\ Reachable(Viewer)' = Reachable(Viewer)
  BY ClientKeepsTables DEF SInv, IInv, TypesInv
<1>4. ~Underway'
  BY <1>1 DEF Underway, NoRead
<1>5. ReadShape'
  <2>1. Shape(NoRead)
    BY DEF Shape, NoRead, ReadFields, None
  <2> QED
    BY <1>1, <1>4, <2>1 DEF ReadShape, Shape
<1>6. /\ read.accessible = Unknown => known = Unknown
      /\ lists = Unknown => read.accessible = Unknown
  BY DEF SInv, ReadFits
<1>7. ReadFits'
  BY <1>1, <1>4, <1>6 DEF ReadFits
<1>8. ReadRight'
  BY <1>4 DEF ReadRight
<1>9. QuietInv'
  <2>1. SUFFICES ASSUME quiet PROVE QuietInv'
    BY DEF QuietInv
  <2>2. read.accessible = Reachable(Viewer) /\ Reachable(Viewer) # Unknown
    BY <2>1, AccessIsHomes DEF SInv, QuietInv, TypesInv
  <2>3. active' = active /\ nextXid' = nextXid
    BY DEF db
  <2> QED
    BY <1>1, <1>3, <1>4, <2>1, <2>2, <2>3 DEF SInv, QuietInv
<1>10. StoreRight'
  BY <1>1, <1>3, <1>6 DEF StoreRight
<1>11. MineInv'
  BY <1>1, MineStays DEF SInv, IInv
<1>12. OwnInv'
  <2>1. /\ DOMAIN own' = DOMAIN own /\ own'.op = own.op /\ own'.copy = own.copy
        /\ own'.home = own.home /\ own'.xid = own.xid
    BY <1>1 DEF SInv, OwnInv
  <2> QED
    BY <1>1, <1>4, <2>1, OwnStays DEF SInv, IInv
<1> QED
  BY <1>2, <1>3, <1>5, <1>7, <1>8, <1>9, <1>10, <1>11, <1>12 DEF SInv

(* The rows that the viewer has lost the access to are dropped.            *)
Kept(result, lost) ==
  [c \in {d \in DOMAIN result : result[d].home \notin lost} |-> result[c]]

LEMMA KeptHas ==
  ASSUME NEW result, NEW lost, NEW c
  PROVE  /\ c \in DOMAIN Kept(result, lost) <=> c \in DOMAIN result /\ result[c].home \notin lost
         /\ c \in DOMAIN Kept(result, lost) => Kept(result, lost)[c] = result[c]
BY DEF Kept

(* A store that is right stays so: it has nothing in the lost homes.       *)
LEMMA KeptIsRight ==
  ASSUME NEW d, NEW S, NEW lost, NEW P, NEW H, H \cap lost = {}, NEW c, Right(d, S, P, H, c)
  PROVE  Right(d, Kept(S, lost), P, H, c)
<1>1. c \in DOMAIN S => S[c].home \notin lost
  BY DEF Right
<1>2. /\ c \in DOMAIN S <=> c \in DOMAIN Kept(S, lost)
      /\ c \in DOMAIN S => S[c] = Kept(S, lost)[c]
  BY <1>1, KeptHas
<1> QED
  BY <1>2, RightAt

LEMMA KeptIsShown ==
  ASSUME NEW d, NEW S, NEW lost, NEW w, NEW H, Stands(d, w, H), H \cap lost = {},
         ShownIn(S, d, w)
  PROVE  ShownIn(Kept(S, lost), d, w)
<1>1. CASE w.op = "dispose"
  BY <1>1, KeptHas DEF ShownIn
<1>2. CASE w.op # "dispose"
  <2>1. w.copy \in DOMAIN S /\ S[w.copy].home \notin lost
    BY <1>2 DEF Stands, ShownIn
  <2>2. w.copy \in DOMAIN Kept(S, lost) /\ Kept(S, lost)[w.copy] = S[w.copy]
    BY <2>1, KeptHas
  <2> QED
    BY <1>2, <2>2 DEF ShownIn
<1> QED
  BY <1>1, <1>2

LEMMA FullEnds ==
  ASSUME SInv, TakeFullPage, Drained(FullFound)
  PROVE  SInv'
<1> DEFINE clean == IF read.deleted = Unknown THEN read
                    ELSE [read EXCEPT !.items = <<>>, !.deleted = Unknown, !.xid = None]
           taken == [clean EXCEPT !.items = Over(AsItems(FullPage), @),
                                  !.xid = IF @ = None THEN read.safe ELSE @]
<1>1. /\ read.phase = "full" /\ FinishRead(taken)
      /\ UNCHANGED <<db, lists, quiet, replaced, inverted>>
  BY DEF TakeFullPage, FullPage, FullFound, FullKeys
<1>2. Shape(read) /\ InFull(read) /\ Underway
  BY <1>1 DEF SInv, ReadShape, Underway
<1>3. DOMAIN read = ReadFields
  BY <1>2 DEF Shape
<1>4. /\ DOMAIN clean = ReadFields /\ clean.deleted = Unknown
      /\ clean.items = (IF read.deleted = Unknown THEN read.items ELSE <<>>)
      /\ clean.xid = (IF read.deleted = Unknown THEN read.xid ELSE None)
      /\ clean.accessible = read.accessible
  BY <1>3 DEF ReadFields
<1> HIDE DEF clean
<1>5. /\ taken.deleted = Unknown /\ taken.items = FullItems /\ taken.xid = FullXid
      /\ taken.accessible = read.accessible
  BY <1>4 DEF ReadFields, FullItems, FullXid
<1> HIDE DEF taken
<1>6. PICK lost : /\ store' = Kept(FullItems, lost)
                  /\ lost = IF known = Unknown \/ read.accessible = Unknown THEN {}
                            ELSE known \ read.accessible
                  /\ overtaken' = {}
  BY <1>1, <1>5 DEF FinishRead, Kept
<1>7. /\ FullXid # None /\ FullXid \in {read.xid, read.safe}
      /\ read.accessible = Reachable(Viewer) /\ PagesRight(Tables, read, replaced) =>
           \A c \in Copies \ replaced :
             IF Reached(c) THEN Right(Tables, FullItems, FullXid, read.accessible, c)
                           ELSE c \notin DOMAIN FullItems
      /\ own.op \in Ops /\ own.copy \in Copies
           /\ Stands(Tables, own, Reachable(Viewer)) /\ OwnPages(Tables, read, own) =>
           /\ NotUndone(FullItems, Tables, own)
           /\ Reached(own.copy) => ShownIn(FullItems, Tables, own)
  BY <1>1, FullTaken
<1>8. \A c : Reached(c)
  BY DEF Reached
<1>9. ASSUME "read" \notin blind, read.accessible # Unknown
      PROVE  /\ read.accessible = Reachable(Viewer) /\ PagesRight(Tables, read, replaced)
             /\ read.accessible \cap lost = {}
  BY <1>2, <1>6, <1>9 DEF SInv, ReadRight
<1>10. ASSUME "read" \notin blind, read.accessible # Unknown, NEW c \in Copies \ Excepted'
       PROVE  Right(Tables, store', FullXid, read.accessible, c)
  <2>1. c \notin replaced
    BY <1>1, <1>10 DEF Excepted
  <2>2. Right(Tables, FullItems, FullXid, read.accessible, c)
    BY <1>7, <1>8, <1>9, <1>10, <2>1
  <2> QED
    BY <1>6, <1>9, <1>10, <2>2, KeptIsRight
<1>11. ASSUME "read" \notin blind, own.op \in Ops, Stands(Tables, own, Reachable(Viewer))
       PROVE  ShownIn(store', Tables, own)
  <2>1. own.copy \in Copies /\ read.accessible # Unknown /\ OwnPages(Tables, read, own)
    BY <1>2, <1>11 DEF SInv, OwnInv
  <2>2. ShownIn(FullItems, Tables, own)
    BY <1>7, <1>8, <1>11, <2>1
  <2>3. Reachable(Viewer) \cap lost = {}
    BY <1>9, <1>11, <2>1
  <2> QED
    BY <1>6, <1>11, <2>2, <2>3, KeptIsShown
<1>12. quiet => Below(Tables, FullXid)
  BY <1>2, <1>7 DEF SInv, QuietInv
<1>13. ReadStep
  BY DEF ReadStep
<1> QED
  BY <1>1, <1>2, <1>5, <1>7, <1>10, <1>11, <1>12, <1>13, FinishKeepsSInv

Merged(items, gone, prev) == Over(items, [a \in DOMAIN prev \ gone |-> prev[a]])

LEMMA MergedHas ==
  ASSUME NEW items, NEW gone, NEW prev, NEW c
  PROVE  /\ c \in DOMAIN Merged(items, gone, prev) <=>
              c \in DOMAIN items \/ (c \in DOMAIN prev /\ c \notin gone)
         /\ c \in DOMAIN items => Merged(items, gone, prev)[c] = items[c]
         /\ c \notin DOMAIN items /\ c \in DOMAIN prev /\ c \notin gone =>
              Merged(items, gone, prev)[c] = prev[c]
BY DEF Merged, Over

(* The merge of a delta into a store that was right up to its watermark.   *)
LEMMA MergeIsRight ==
  ASSUME NEW d, Numbers(d), NEW r, NEW c \in Copies, NEW items, NEW gone, NEW prev,
         NEW known0, NEW lost, NEW P \in Nat, NEW since \in Nat,
         r.pin = P, r.since = since, ~(since <= d.pruned), StampOrder(d, c),
         r.accessible \subseteq known0, lost = known0 \ r.accessible,
         Right(d, prev, since, known0, c),
         c \in DOMAIN items => Right(d, items, P, r.accessible, c),
         Changed(d, r, c) => c \in DOMAIN items,
         Removed(d, r, c) => c \in gone,
         c \in gone => Told(d, r, c)
  PROVE  Right(d, Kept(Merged(items, gone, prev), lost), P, r.accessible, c)
<1> DEFINE H == r.accessible
           merged == Merged(items, gone, prev)
           row == d.rows[c]
           tomb == d.tombs[c]
<1>1. H \cap lost = {}
  OBVIOUS
<1>2. /\ c \in DOMAIN merged <=> c \in DOMAIN items \/ (c \in DOMAIN prev /\ c \notin gone)
      /\ c \in DOMAIN items => merged[c] = items[c]
      /\ c \notin DOMAIN items /\ c \in DOMAIN prev /\ c \notin gone => merged[c] = prev[c]
  BY MergedHas
<1> HIDE DEF merged
<1>4. /\ row # Absent => row.xid \in Nat
      /\ tomb # Absent => tomb.xid \in Nat
      /\ d.pruned \in Nat
  BY DEF Numbers
<1>5. CASE c \in DOMAIN items
  <2>1. Right(d, merged, P, H, c)
    BY <1>2, <1>5, RightAt
  <2> QED
    BY <1>1, <2>1, KeptIsRight DEF merged
<1>6. CASE c \notin DOMAIN items
  <2>1. /\ c \in DOMAIN merged <=> c \in DOMAIN prev /\ c \notin gone
        /\ c \in DOMAIN merged => merged[c] = prev[c]
    BY <1>2, <1>6
  <2>2. ASSUME row # Absent, row.home \in H, ~(P <= row.xid)
        PROVE  c \in DOMAIN merged /\ merged[c] = ToCopy(row)
    <3>1. ~(since <= row.xid)
      BY <1>4, <1>6, <2>2 DEF Changed, Within
    <3>2. c \in DOMAIN prev /\ prev[c] = ToCopy(row)
      BY <2>2, <3>1 DEF Right
    <3>3. c \notin gone
      BY <1>4, <2>2, <3>1 DEF Told, StampOrder
    <3> QED
      BY <2>1, <3>2, <3>3
  <2>3. ASSUME c \in DOMAIN merged, merged[c].home \notin lost
        PROVE  merged[c].home \in H /\ Traced(d, merged[c].home, P, c)
    <3>1. prev[c].home \in known0 /\ Traced(d, prev[c].home, since, c) /\ merged[c] = prev[c]
          /\ c \notin gone
      BY <2>1, <2>3 DEF Right
    <3>2. prev[c].home \in H
      BY <2>3, <3>1
    <3>3. CASE row # Absent /\ row.home = prev[c].home
      BY <3>1, <3>2, <3>3 DEF Traced
    <3>4. CASE tomb # Absent /\ tomb.owner = prev[c].home /\ since <= tomb.xid
      <4>1. P <= tomb.xid
        BY <1>4, <3>1, <3>2, <3>4 DEF Removed, Within
      <4> QED
        BY <3>1, <3>2, <3>4, <4>1 DEF Traced
    <3> QED
      BY <3>1, <3>3, <3>4 DEF Traced
  <2>4. /\ c \in DOMAIN Kept(merged, lost) <=> c \in DOMAIN merged /\ merged[c].home \notin lost
        /\ c \in DOMAIN Kept(merged, lost) => Kept(merged, lost)[c] = merged[c]
    BY KeptHas
  <2>5. ASSUME row # Absent, row.home \in H, ~(P <= row.xid)
        PROVE  c \in DOMAIN Kept(merged, lost) /\ Kept(merged, lost)[c] = ToCopy(row)
    <3>1. merged[c].home \notin lost
      BY <1>1, <2>2, <2>5, CopyHas
    <3> QED
      BY <2>2, <2>4, <2>5, <3>1
  <2>6. Right(d, Kept(merged, lost), P, H, c)
    BY <2>3, <2>4, <2>5 DEF Right
  <2> QED
    BY <2>6 DEF merged
<1> QED
  BY <1>5, <1>6

LEMMA MergeShowsOwn ==
  ASSUME NEW d, NEW r, NEW items, NEW gone, NEW prev, NEW w, w.copy \in Copies,
         ~(r.since <= d.pruned), Stands(d, w, r.accessible),
         ShownIn(prev, d, w), NotUndone(items, d, w), Covers(d, r, w, gone),
         Changed(d, r, w.copy) => w.copy \in DOMAIN items
  PROVE  ShownIn(Merged(items, gone, prev), d, w)
<1> DEFINE c == w.copy
           merged == Merged(items, gone, prev)
<1>2. /\ c \in DOMAIN merged <=> c \in DOMAIN items \/ (c \in DOMAIN prev /\ c \notin gone)
      /\ c \in DOMAIN items => merged[c] = items[c]
      /\ c \notin DOMAIN items /\ c \in DOMAIN prev /\ c \notin gone => merged[c] = prev[c]
  BY MergedHas
<1> HIDE DEF merged
<1>3. ShownIn(merged, d, w)
  <2>1. CASE c \in DOMAIN items
    <3>1. ShownIn(items, d, w)
      BY <2>1 DEF NotUndone
    <3> QED
      BY <1>2, <2>1, <3>1, ShownAt
  <2>2. CASE c \notin DOMAIN items /\ w.op = "dispose"
    BY <1>2, <2>2 DEF ShownIn
  <2>3. CASE c \notin DOMAIN items /\ w.op # "dispose"
    <3>1. ~Within(r, w.xid)
      BY <2>3 DEF Stands, Changed
    <3>2. c \notin gone
      BY <2>3, <3>1 DEF Covers
    <3>3. c \in DOMAIN prev /\ prev[c].home = d.rows[c].home
      BY <2>3 DEF ShownIn
    <3> QED
      BY <1>2, <2>3, <3>2, <3>3 DEF ShownIn
  <2> QED
    BY <2>1, <2>2, <2>3
<1> QED
  BY <1>3 DEF merged

LEMMA DeltaEnds ==
  ASSUME SInv, TakeDeltaPage, read.rows.drained /\ read.gone.drained
  PROVE  SInv'
<1> DEFINE before == IF read.deleted = Unknown THEN {} ELSE read.deleted
           taken == [read EXCEPT !.items = Over(read.rows.items, @),
                                 !.deleted = before \cup Ids(read.gone.page)]
           r == [taken EXCEPT !.xid = read.pin]
           items == ItemsTaken(read)
           gone == GoneTaken(read)
<1>1. /\ read.phase = "delta" /\ read.rows # Unknown /\ read.gone # Unknown
      /\ StillCovered(read.since) /\ FinishRead(r)
      /\ UNCHANGED <<db, lists, quiet, replaced, inverted>>
  BY DEF TakeDeltaPage
<1>2. Shape(read) /\ InFull(read) /\ Underway
  BY <1>1 DEF SInv, ReadShape, Underway
<1>3. DOMAIN read = ReadFields
  BY <1>2 DEF Shape
<1>4. gone # Unknown /\ gone \subseteq Copies
  <2>1. gone \in SUBSET Copies
    BY <1>1, <1>2 DEF Shape, GoneTaken, GoneIds
  <2> QED
    BY <2>1, SyncAssumption
<1>5. /\ r.items = items /\ r.deleted = gone /\ r.xid = read.pin /\ r.since = read.since
      /\ r.accessible = read.accessible /\ r.previous = store
  <2>1. taken.items = items /\ taken.deleted = gone
    BY <1>3 DEF ReadFields, ItemsTaken, GoneTaken, GoneIds
  <2>2. /\ DOMAIN taken = ReadFields /\ taken.since = read.since
        /\ taken.accessible = read.accessible /\ taken.previous = read.previous
    BY <1>3 DEF ReadFields
  <2>3. read.previous = store
    BY <1>2 DEF SInv, ReadFits
  <2> HIDE DEF taken, items, gone
  <2> QED
    BY <2>1, <2>2, <2>3 DEF ReadFields
<1> HIDE DEF r, before, taken
<1>6. read.since # None /\ read.pin # None
  BY <1>1, <1>2 DEF Shape
<1>7. PICK lost : /\ store' = Kept(Merged(items, gone, store), lost)
                  /\ lost = IF known = Unknown \/ read.accessible = Unknown THEN {}
                            ELSE known \ read.accessible
  <2> DEFINE result == MergeDelta(r, r.previous)
             dropped == IF known = Unknown \/ r.accessible = Unknown THEN {}
                        ELSE known \ r.accessible
  <2>1. ~(r.since = None \/ r.deleted = Unknown)
    BY <1>4, <1>5, <1>6
  <2>2. store' = Kept(result, dropped)
    BY <1>1, <2>1 DEF FinishRead, Kept
  <2>3. result = Merged(items, gone, store)
    BY <1>5 DEF MergeDelta, Merged
  <2> HIDE DEF result
  <2> QED
    BY <1>5, <2>2, <2>3
<1>8. /\ overtaken' = overtaken
      /\ "read" \notin blind /\ "store" \notin blind' => blind = {}
  BY <1>1, <1>4, <1>5, <1>6 DEF FinishRead
<1>9. Numbers(Tables) /\ read.since \in Nat /\ read.pin \in Nat /\ ~(read.since <= pruned)
  <2>1. Numbers(Tables) /\ read.since \in Nat /\ read.pin \in Nat /\ pruned \in Nat
    BY <1>2, ReadIsNumbers, TablesAreNumbers DEF SInv, IInv
  <2> QED
    BY <1>1, <2>1 DEF StillCovered, Covered
<1>10. ASSUME "read" \notin blind, read.accessible # Unknown
       PROVE  /\ read.accessible = Reachable(Viewer) /\ known # Unknown
              /\ read.accessible \subseteq known /\ lost = known \ read.accessible
              /\ ItemsRight(Tables, read, items, replaced)
              /\ \A c \in Copies : Changed(Tables, read, c) => c \in DOMAIN items
              /\ \A c \in Copies : Removed(Tables, read, c) => c \in gone
              /\ \A c \in gone : Told(Tables, read, c)
  <2>1. read.accessible = Reachable(Viewer) /\ PagesRight(Tables, read, replaced)
    BY <1>2, <1>10 DEF SInv, ReadRight
  <2>2. known # Unknown /\ read.accessible \subseteq known
    BY <1>2, <1>6, <1>10 DEF SInv, ReadFits
  <2>3. /\ ItemsRight(Tables, read, items, replaced)
        /\ \A c \in Copies : Changed(Tables, read, c) =>
              \/ c \in DOMAIN items
              \/ ~read.rows.drained /\ After(RowKey(Tables, c), NextAt(read.rows.page))
        /\ \A c \in Copies : Removed(Tables, read, c) =>
              \/ c \in gone
              \/ ~read.gone.drained /\ After(TombKey(Tables, c), NextAt(read.gone.page))
        /\ \A c \in gone : Told(Tables, read, c)
    BY <1>1, <1>2, <1>9, <2>1, DeltaTaken
  <2> HIDE DEF items, gone
  <2> QED
    BY <1>7, <1>10, <2>1, <2>2, <2>3
<1> HIDE DEF items, gone
<1>11. ASSUME "read" \notin blind, "store" \notin blind', read.accessible # Unknown,
              NEW c \in Copies \ Excepted'
       PROVE  Right(Tables, store', read.pin, read.accessible, c)
  <2>1. c \notin Excepted
    BY <1>1, <1>8, <1>11 DEF Excepted
  <2>2. Right(Tables, store, synced, known, c)
    BY <1>8, <1>10, <1>11, <2>1 DEF SInv, StoreRight
  <2>3. read.since = synced
    BY <1>2, <1>6 DEF SInv, ReadFits
  <2>4. StampOrder(Tables, c)
    BY <2>1 DEF SInv, StampsInOrder, Excepted
  <2>5. c \in DOMAIN items => Right(Tables, items, read.pin, read.accessible, c)
    BY <1>10, <1>11, <2>1 DEF ItemsRight, Excepted
  <2>6. /\ Changed(Tables, read, c) => c \in DOMAIN items
        /\ Removed(Tables, read, c) => c \in gone
        /\ c \in gone => Told(Tables, read, c)
    BY <1>10, <1>11
  <2>7. ~(read.since <= Tables.pruned)
    BY <1>9 DEF Tables
  <2>8. Right(Tables, store, read.since, known, c)
    BY <2>2, <2>3
  <2>9. Right(Tables, Kept(Merged(items, gone, store), lost), read.pin, read.accessible, c)
    BY <1>9, <1>10, <1>11, <2>4, <2>5, <2>6, <2>7, <2>8, MergeIsRight
  <2> QED
    BY <1>7, <2>9
<1>12. ASSUME "read" \notin blind, "store" \notin blind', own.op \in Ops,
              Stands(Tables, own, Reachable(Viewer))
       PROVE  ShownIn(store', Tables, own)
  <2>1. own.copy \in Copies /\ read.accessible # Unknown /\ OwnPages(Tables, read, own)
    BY <1>2, <1>12 DEF SInv, OwnInv
  <2>2. ShownIn(store, Tables, own)
    BY <1>8, <1>12 DEF SInv, OwnInv
  <2>3. NotUndone(items, Tables, own) /\ Covers(Tables, read, own, gone)
    BY <1>1, <2>1, OwnDeltaTaken DEF items, gone
  <2>4. /\ read.accessible = Reachable(Viewer) /\ lost = known \ read.accessible
        /\ Changed(Tables, read, own.copy) => own.copy \in DOMAIN items
    BY <1>10, <1>12, <2>1
  <2>5. ~(read.since <= Tables.pruned) /\ Stands(Tables, own, read.accessible)
    BY <1>9, <1>12, <2>4 DEF Tables
  <2>6. ShownIn(Merged(items, gone, store), Tables, own)
    BY <2>1, <2>2, <2>3, <2>4, <2>5, MergeShowsOwn
  <2>7. read.accessible \cap lost = {}
    BY <2>4
  <2> QED
    BY <1>7, <2>5, <2>6, <2>7, KeptIsShown
<1>13. quiet => Below(Tables, read.pin)
  BY <1>2, <1>6 DEF SInv, QuietInv
<1>14. ReadStep
  BY DEF ReadStep
<1> QED
  BY <1>1, <1>2, <1>5, <1>6, <1>11, <1>12, <1>13, <1>14, FinishKeepsSInv

-----------------------------------------------------------------------------
(* The client's own write is answered                                      *)

LEMMA StoredHas ==
  ASSUME MineInv, mine.op \in Ops, NEW a
  PROVE  /\ a # mine.copy => /\ a \in DOMAIN Stored <=> a \in DOMAIN store
                             /\ a \in DOMAIN store => Stored[a] = store[a]
         /\ mine.op = "add" =>
              /\ mine.copy \in DOMAIN Stored
              /\ Stored[mine.copy].home = mine.home /\ Stored[mine.copy].reserved = FALSE
              /\ Stored[mine.copy] = [home |-> mine.home, reserved |-> FALSE]
         /\ mine.op = "move" =>
              /\ mine.copy \in DOMAIN Stored <=> mine.copy \in DOMAIN store
              /\ mine.copy \in DOMAIN store =>
                   Stored[mine.copy] = [home |-> mine.home,
                                        reserved |-> store[mine.copy].reserved]
         /\ mine.op = "dispose" => mine.copy \notin DOMAIN Stored
<1>1. CASE mine.op = "add"
  BY <1>1 DEF Stored
<1>2. CASE mine.op = "move"
  BY <1>2 DEF Stored
<1>3. CASE mine.op = "dispose"
  BY <1>3 DEF Stored
<1> QED
  BY <1>1, <1>2, <1>3 DEF Ops

(* The row that the answer puts into the store is that of the database, if *)
(* nobody has changed it since.                                            *)
LEMMA AnswerIsRight ==
  ASSUME TypesInv, MineInv, mine.xid # None, known # Unknown,
         IF mine.op = "dispose" THEN rows[mine.copy] = Absent
         ELSE rows[mine.copy] # Absent /\ rows[mine.copy].xid = mine.xid
              /\ mine.home \in known,
         Right(Tables, store, synced, known, mine.copy)
  PROVE  Right(Tables, Stored, synced, known, mine.copy)
<1> DEFINE c == mine.copy
<1>1. mine.op \in Ops /\ c \in Copies /\ Left(Tables, mine)
  BY DEF MineInv, Ops
<1>2. CASE mine.op = "dispose"
  BY <1>1, <1>2, StoredHas DEF Right, Tables
<1>3. CASE mine.op = "add"
  <2>1. /\ rows[c] # Absent /\ rows[c].home = mine.home /\ ~rows[c].reserved
        /\ rows[c].reserved \in BOOLEAN
    BY <1>1, <1>3, RowsAreRecords DEF Left, Tables
  <2>2. rows[c].reserved = FALSE
    BY <2>1
  <2>3. c \in DOMAIN Stored /\ Stored[c] = ToCopy(rows[c]) /\ Stored[c].home = mine.home
    BY <1>1, <1>3, <2>1, <2>2, StoredHas DEF ToCopy
  <2> QED
    BY <1>3, <2>1, <2>3 DEF Right, Traced, Tables
<1>4. CASE mine.op = "move"
  <2>1. rows[c] # Absent /\ rows[c].home = mine.home
    BY <1>1, <1>4 DEF Left, Tables
  <2>2. CASE c \in DOMAIN store
    <3>1. c \in DOMAIN Stored /\ Stored[c] = [home |-> mine.home, reserved |-> store[c].reserved]
      BY <1>1, <1>4, <2>2, StoredHas
    <3>2. synced <= rows[c].xid \/ store[c] = ToCopy(rows[c])
      BY <1>4, <2>1 DEF Right, Tables
    <3>3. store[c] = ToCopy(rows[c]) => Stored[c] = ToCopy(rows[c])
      BY <2>1, <3>1 DEF ToCopy
    <3>4. Stored[c].home = mine.home
      BY <3>1
    <3> QED
      BY <1>4, <2>1, <3>1, <3>2, <3>3, <3>4 DEF Right, Traced, Tables
  <2>3. CASE c \notin DOMAIN store
    <3>1. c \notin DOMAIN Stored
      BY <1>1, <1>4, <2>3, StoredHas
    <3> QED
      BY <2>3, <3>1 DEF Right
  <2> QED
    BY <2>2, <2>3
<1> QED
  BY <1>1, <1>2, <1>3, <1>4 DEF Ops

LEMMA AnswerShows ==
  ASSUME TypesInv, MineInv, mine.op \in Ops, Left(Tables, mine),
         ~(mine.op = "move" /\ mine.copy \notin DOMAIN store),
         NEW H, Stands(Tables, mine, H)
  PROVE  ShownIn(Stored, Tables, mine)
<1>1. CASE mine.op = "dispose"
  BY <1>1, StoredHas DEF ShownIn
<1>2. CASE mine.op # "dispose"
  <2>1. rows[mine.copy].home = mine.home
    BY <1>2 DEF Left, Stands, Tables
  <2>2. mine.copy \in DOMAIN Stored /\ Stored[mine.copy].home = mine.home
    <3>1. CASE mine.op = "add"
      BY <3>1, StoredHas
    <3>2. CASE mine.op = "move"
      <4>1. mine.copy \in DOMAIN Stored
            /\ Stored[mine.copy] = [home |-> mine.home, reserved |-> store[mine.copy].reserved]
        BY <3>2, StoredHas
      <4> QED
        BY <4>1
    <3> QED
      BY <1>2, <3>1, <3>2 DEF Ops
  <2> QED
    BY <1>2, <2>1, <2>2 DEF ShownIn, Tables
<1> QED
  BY <1>1, <1>2

LEMMA AnswerKeepsSInv ==
  ASSUME SInv, TakeAnswer
  PROVE  SInv'
<1> DEFINE c == mine.copy
           stands == IF mine.op = "dispose" THEN rows[c] = Absent
                     ELSE /\ rows[c] # Absent /\ rows[c].xid = mine.xid
                          /\ known # Unknown /\ mine.home \in known
<1>1. /\ mine.xid # None /\ store' = Stored /\ mine' = NoWrite
      /\ UNCHANGED <<db, lists, known, synced, replaced, inverted>>
      /\ overtaken' = IF stands THEN overtaken ELSE overtaken \cup {c}
      /\ \/ /\ Raced /\ read' = Started(Stored) /\ StartHistory
         \/ ~Raced /\ UNCHANGED <<read, quiet, blind>>
  BY DEF TakeAnswer, Settle
<1>2. own' = NoOwn \/
      /\ ~(mine.op = "move" /\ c \notin DOMAIN store)
      /\ \E s : own' = [op |-> mine.op, copy |-> c, home |-> mine.home, xid |-> mine.xid,
                        settled |-> s]
  BY DEF TakeAnswer
<1> HIDE DEF stands
<1>3. IInv'
  BY OwnWritesAreSafe DEF SInv, OwnWrite
<1>4. /\ Tables' = Tables /\ TypesInv' /\ StampsInOrder' /\ Reachable(Viewer)' = Reachable(Viewer)
      /\ \A y : Stamp(y)' <=> Stamp(y)
  BY <1>1, ClientKeepsTables DEF SInv, IInv, TypesInv
<1>5. MineInv'
  BY <1>1, MineStays DEF SInv, IInv
<1>6. mine.op \in Ops /\ c \in Copies /\ mine.home \in Homes /\ lists # Unknown
      /\ Stamp(mine.xid) /\ Left(Tables, mine)
  BY <1>1 DEF SInv, MineInv, Ops
<1>7. /\ ReadShape' /\ ReadFits' /\ ReadRight' /\ QuietInv'
      /\ "store" \notin blind' => "store" \notin blind
      /\ Underway' => read'.accessible # Unknown /\ \A d, w : OwnPages(d, read', w)
  <2>1. CASE read' = Started(Stored) /\ StartHistory
    <3>1. read' = Started(store')
      BY <1>1, <2>1
    <3>2. /\ ReadShape' /\ ReadFits' /\ ReadRight' /\ QuietInv' /\ Underway'
          /\ read'.accessible = lists /\ \A d, w : OwnPages(d, read', w)
      BY <1>1, <2>1, <3>1, FreshKeeps DEF SInv, IInv
    <3>3. "store" \notin blind' => "store" \notin blind
      BY <2>1 DEF StartHistory
    <3> QED
      BY <1>6, <3>2, <3>3
  <2>2. CASE ~Raced /\ UNCHANGED <<read, quiet, blind>>
    <3>1. ~Underway /\ ~Underway'
      BY <2>2 DEF Raced, Underway
    <3>2. pruned' = pruned /\ active' = active /\ nextXid' = nextXid
      BY <1>1 DEF db
    <3>3. ReadShape'
      BY <2>2, <3>1 DEF SInv, ReadShape, Shape
    <3>4. ReadFits' /\ ReadRight'
      BY <1>1, <2>2, <3>1 DEF SInv, ReadFits, ReadRight
    <3>5. QuietInv'
      BY <1>1, <1>4, <2>2, <3>1, <3>2 DEF SInv, QuietInv
    <3> QED
      BY <2>2, <3>1, <3>3, <3>4, <3>5
  <2> QED
    BY <1>1, <2>1, <2>2
<1>8. StoreRight'
  <2>1. SUFFICES ASSUME known # Unknown, "store" \notin blind', NEW a \in Copies \ Excepted'
                 PROVE  Right(Tables, Stored, synced, known, a)
    BY <1>1, <1>4 DEF StoreRight
  <2>2. a \notin Excepted /\ (a = c => stands)
    BY <1>1, <2>1 DEF Excepted
  <2>3. Right(Tables, store, synced, known, a)
    BY <1>7, <2>1, <2>2 DEF SInv, StoreRight
  <2>4. CASE a # c
    <3>1. /\ a \in DOMAIN store <=> a \in DOMAIN Stored
          /\ a \in DOMAIN store => store[a] = Stored[a]
      BY <1>6, <2>4, StoredHas DEF SInv
    <3> QED
      BY <2>3, <3>1, RightAt
  <2>5. CASE a = c
    BY <1>1, <2>1, <2>2, <2>3, <2>5, AnswerIsRight DEF SInv, stands
  <2> QED
    BY <2>4, <2>5
<1>9. OwnInv'
  <2>1. CASE own' = NoOwn
    BY <2>1 DEF OwnInv, NoOwn, Ops
  <2>2. ASSUME ~(mine.op = "move" /\ c \notin DOMAIN store), NEW s,
               own' = [op |-> mine.op, copy |-> c, home |-> mine.home, xid |-> mine.xid,
                       settled |-> s]
        PROVE  OwnInv'
    <3>1. /\ DOMAIN own' = {"op", "copy", "home", "xid", "settled"} /\ own'.op = mine.op
          /\ own'.copy = c /\ own'.home = mine.home /\ own'.xid = mine.xid
      BY <2>2
    <3>2. Left(Tables, own')
      BY <1>6, <3>1 DEF Left
    <3>3. ASSUME Stands(Tables, own', Reachable(Viewer)) PROVE ShownIn(Stored, Tables, own')
      <4>1. Stands(Tables, mine, Reachable(Viewer))
        BY <3>1, <3>3 DEF Stands
      <4>2. ShownIn(Stored, Tables, mine)
        BY <1>6, <2>2, <4>1, AnswerShows DEF SInv
      <4> QED
        BY <3>1, <4>2 DEF ShownIn
    <3>4. Stamp(own.xid)'
      BY <1>4, <1>6, <3>1
    <3> QED
      BY <1>1, <1>4, <1>6, <1>7, <3>1, <3>2, <3>3, <3>4 DEF OwnInv
  <2> QED
    BY <1>2, <2>1, <2>2
<1> QED
  BY <1>3, <1>4, <1>5, <1>7, <1>8, <1>9 DEF SInv

-----------------------------------------------------------------------------
LEMMA InitIsRight == Init => SInv
<1> SUFFICES ASSUME Init PROVE SInv
  OBVIOUS
<1>1. IInv
  BY InitIsSafe
<1>2. /\ nextXid = 2 /\ active = {} /\ pruned = None
      /\ rows = [c \in Copies |-> IF InitHome[c] = Absent THEN Absent
                                                      ELSE Row(InitHome[c], FALSE, 1)]
      /\ tombs = [c \in Copies |-> Absent]
      /\ members = [g \in Groups |-> Users]
      /\ lists = Unknown /\ known = Unknown /\ synced = None /\ read = NoRead
      /\ mine = NoWrite /\ quiet = FALSE /\ blind = {} /\ own \in {NoOwn, ReadOnly}
  BY DEF Init
<1>3. \A c \in Copies : rows[c] # Absent => rows[c] \in RowSet /\ rows[c].xid = 1
  <2>1. ASSUME NEW c \in Copies, InitHome[c] # Absent
        PROVE  Row(InitHome[c], FALSE, 1) \in RowSet
    <3>1. InitHome[c] \in Homes
      BY <2>1, SyncAssumption
    <3> QED
      BY <3>1 DEF Row, RowSet
  <2> QED
    BY <1>2, <2>1 DEF Row
<1>4. TypesInv
  <2>1. Stamp(1)
    BY <1>2 DEF Stamp
  <2>2. rows \in [Copies -> RowSet \cup {Absent}]
    <3>1. rows = [c \in Copies |-> rows[c]]
      BY <1>2
    <3> QED
      BY <1>3, <3>1
  <2> QED
    BY <1>2, <1>3, <2>1, <2>2 DEF TypesInv
<1>5. StampsInOrder
  BY <1>2 DEF StampsInOrder, StampOrder, Tables
<1>6. ~Underway
  BY <1>2 DEF Underway, NoRead
<1>7. ReadShape
  <2>1. Shape(NoRead)
    BY DEF Shape, NoRead, ReadFields, None
  <2> QED
    BY <1>2, <1>6, <2>1 DEF ReadShape
<1>8. ReadFits /\ StoreRight /\ ReadRight /\ QuietInv
  BY <1>2, <1>6 DEF ReadFits, StoreRight, ReadRight, QuietInv
<1>9. MineInv
  BY <1>2 DEF MineInv, NoWrite, Ops, None
<1>10. OwnInv
  BY <1>2 DEF OwnInv, NoOwn, ReadOnly, Ops
<1> QED
  BY <1>1, <1>4, <1>5, <1>7, <1>8, <1>9, <1>10 DEF SInv

LEMMA NextKeepsSInv == SInv /\ [Next]_vars => SInv'
<1> SUFFICES ASSUME SInv, [Next]_vars PROVE SInv'
  OBVIOUS
<1>1. CASE Server
  BY <1>1, BeginKeepsSInv, WritesKeepSInv DEF Server
<1>2. CASE RefreshLists \/ StartRead \/ AbandonRead
  BY <1>2, RefreshKeepsSInv, StartKeepsSInv, AbandonKeepsSInv
<1>3. CASE ReadStep
  <2>1. CASE CheckWatermark \/ ReadChanged \/ ReadDeletions \/ FallBack
    BY <2>1, CheckKeepsSInv, ChangedKeepsSInv, DeletionsKeepSInv, FallBackKeepsSInv
  <2>2. CASE TakeDeltaPage
    BY <2>2, DeltaGoesOn, DeltaEnds
  <2>3. CASE TakeFullPage
    BY <2>3, FullGoesOn, FullEnds
  <2> QED
    BY <1>3, <2>1, <2>2, <2>3 DEF ReadStep
<1>4. CASE OwnWrite
  BY <1>4, SendKeepsSInv, AnswerKeepsSInv, GiveUpKeepsSInv DEF OwnWrite
<1>5. CASE UNCHANGED vars
  <2>1. IInv'
    BY NextIsSafe DEF SInv
  <2>2. /\ UNCHANGED <<db, lists, known, store, synced, read, mine, quiet, blind, replaced,
                       inverted, overtaken, own>>
        /\ nextXid' = nextXid /\ active' = active /\ pruned' = pruned
    BY <1>5 DEF vars, db, client, history
  <2>3. Tables' = Tables /\ TypesInv' /\ StampsInOrder' /\ Reachable(Viewer)' = Reachable(Viewer)
    BY <2>2, ClientKeepsTables DEF SInv, IInv, TypesInv
  <2>4. Underway' = Underway
    BY <2>2 DEF Underway
  <2>5. ReadShape' /\ ReadFits' /\ StoreRight' /\ ReadRight' /\ QuietInv'
    BY <2>2, <2>3, <2>4 DEF SInv, ReadShape, Shape, InFull, ReadFits, StoreRight, ReadRight,
                            QuietInv, Excepted
  <2>6. MineInv'
    BY <2>2, MineStays DEF SInv, IInv
  <2>7. OwnInv'
    BY <2>2, <2>4, OwnStays DEF SInv, IInv, OwnInv
  <2> QED
    BY <2>1, <2>3, <2>5, <2>6, <2>7 DEF SInv
<1> QED
  BY <1>1, <1>2, <1>3, <1>4, <1>5 DEF Next

(* The store is right up to its watermark, every read in progress up to    *)
(* its keysets, and the client's own writes are in both.                   *)
THEOREM StoreInvariant == Spec => []SInv
  BY InitIsRight, NextKeepsSInv, PTL DEF Spec

(* After a read during which nothing changed the store is exact, but for   *)
(* the copies that StoreCatchesUp excepts.                                 *)
THEOREM StoreDoesCatchUp == Spec => []StoreCatchesUp
<1>1. SInv => StoreCatchesUp
  <2> SUFFICES ASSUME SInv, Caught
               PROVE  Agree(Copies \ (replaced \cup inverted \cup overtaken))
    BY DEF StoreCatchesUp
  <2>1. known = Reachable(Viewer) /\ known # Unknown /\ Below(Tables, synced)
    BY AccessIsHomes DEF SInv, Caught, QuietInv, Underway, TypesInv
  <2>2. ASSUME NEW c \in Copies \ Excepted
        PROVE  /\ c \in DOMAIN store <=> c \in VisibleRows
               /\ c \in VisibleRows => store[c] = ToCopy(rows[c])
    <3>1. Right(Tables, store, synced, known, c)
      BY <2>1, <2>2 DEF SInv, StoreRight, Caught
    <3>2. /\ synced \in Nat /\ Numbers(Tables)
      BY TablesAreNumbers DEF SInv, IInv, Safe
    <3>3. /\ rows[c] # Absent => ~(synced <= rows[c].xid)
          /\ tombs[c] # Absent => ~(synced <= tombs[c].xid)
          /\ ~(synced <= pruned)
      BY <2>1, <2>2, <3>2 DEF Below, Numbers, Tables
    <3>4. ASSUME c \in VisibleRows PROVE c \in DOMAIN store /\ store[c] = ToCopy(rows[c])
      BY <2>1, <3>1, <3>3, <3>4 DEF Right, Tables, VisibleRows, Existing
    <3>5. ASSUME c \in DOMAIN store PROVE c \in VisibleRows
      BY <2>1, <2>2, <3>1, <3>3, <3>5 DEF Right, Traced, Tables, VisibleRows, Existing
    <3> QED
      BY <3>4, <3>5
  <2>3. DOMAIN Wanted = VisibleRows /\ \A c \in VisibleRows : Wanted[c] = ToCopy(rows[c])
    BY DEF Wanted
  <2> QED
    BY <2>2, <2>3 DEF Agree, Excepted
<1> QED
  BY <1>1, StoreInvariant, PTL

(* The client's confirmed write stays in its store until somebody changes  *)
(* the copy again.                                                         *)
THEOREM OwnWritesDoStay == Spec => []OwnWritesStay
<1>1. SInv => OwnWritesStay
  <2> SUFFICES ASSUME SInv, own.op \in OwnOps, blind = {}
               PROVE  IF own.op = "dispose"
                      THEN rows[own.copy] = Absent
                           /\ tombs[own.copy] = [owner |-> own.home, xid |-> own.xid]
                           => own.copy \notin DOMAIN store
                      ELSE rows[own.copy] # Absent /\ rows[own.copy].xid = own.xid
                           /\ own.copy \in VisibleRows
                           => own.copy \in DOMAIN store
                              /\ store[own.copy].home = rows[own.copy].home
    BY DEF OwnWritesStay
  <2>1. own.op \in Ops
    BY SyncAssumption DEF Ops
  <2>2. Stands(Tables, own, Reachable(Viewer)) => ShownIn(store, Tables, own)
    BY <2>1 DEF SInv, OwnInv
  <2> QED
    BY <2>2 DEF Stands, ShownIn, Tables, VisibleRows, Existing
<1> QED
  BY <1>1, StoreInvariant, PTL

-----------------------------------------------------------------------------
(* How long a read takes.  A channel of a delta goes round: after its last *)
(* page it reads an empty one, which leaves no keyset, and starts over.    *)
(* The pages of a round, for n rows, with the empty one.                   *)
IsRound(a, n) ==
  a \in Nat \ {0} /\ n <= (a - 1) * PageLimit /\ (a = 1 \/ (a - 2) * PageLimit < n)
Round(n) == CHOOSE a \in 1..n + 1 : IsRound(a, n)

(* What a delta has to read, as long as nothing is committed beside it.    *)
RowKeys ==
  {[id |-> c, xid |-> rows[c].xid] : c \in {d \in VisibleRows : read.since <= rows[d].xid}}
GoneKeys ==
  {[id |-> c, xid |-> tombs[c].xid] :
     c \in {d \in Copies : /\ tombs[d] # Absent /\ tombs[d].owner \in Reachable(Viewer)
                           /\ read.since <= tombs[d].xid}}

(* After n pages a channel is at page i of its round.                      *)
Rest(n, i) == IF i * PageLimit <= n THEN n - i * PageLimit ELSE 0
AtPage(keys, at, n) ==
  LET a == Round(Cardinality(keys))
  IN  \E q \in 0..n, i \in 0..a - 1 :
        /\ n = q * a + i
        /\ Cardinality(Found(keys, at)) = Rest(Cardinality(keys), i)
        /\ i = 0 => at = Start
        /\ at \in KeySet
Rounds == Round(Cardinality(RowKeys)) * Round(Cardinality(GoneKeys))

(* The requests a read is allowed besides those of a full list.            *)
Spare    == read.most - Cardinality(Copies) - 1
UpTo(k)  == {c \in Copies : c <= k}
Done     == IF read.phase = "delta" THEN read.requests - 1 ELSE read.requests

InRounds ==
  read.requests > 0 /\ read.cursor = None /\ read.phase # "full" /\ Covered(read.since) =>
    /\ Rounds <= Spare /\ Done < Rounds
    /\ AtPage(RowKeys, read.rowAt, Done) /\ AtPage(GoneKeys, read.goneAt, Done)
    /\ read.phase = "delta" /\ read.gone # Unknown =>
         LET found == Found(GoneKeys, read.goneAt)
         IN  read.gone.page = Page(found) /\ read.gone.drained = Drained(found)
RowsInRounds ==
  read.phase = "delta" /\ read.rows # Unknown =>
    LET found == Found(RowKeys, read.rowAt)
    IN  read.rows.page = Page(found) /\ read.rows.drained = Drained(found)
InBudget ==
  /\ read.requests = 0 => read.phase = "check" /\ read.cursor = None /\ read.pin = None
  /\ read.requests > 0 =>
       /\ Spare \in Nat
       /\ read.cursor = None => read.requests <= Spare
       /\ read.cursor = None /\ read.phase = "check" => read.requests < Spare
       /\ read.cursor # None =>
            read.requests <= Spare + Cardinality(UpTo(read.cursor))
                               + (IF read.phase = "full" THEN 1 ELSE 0)
PaceInv ==
  /\ read.requests \in Nat /\ read.most \in Nat
  /\ ~Underway => read.requests = 0
  /\ quiet /\ Underway => InBudget /\ InRounds /\ RowsInRounds

(* The beginning of some keys has as many as one asks for.                 *)
First(found, m) == {k \in found : Cardinality({j \in found : After(k, j)}) < m}

LEMMA FirstHas ==
  ASSUME NEW found, IsFiniteSet(found), found \subseteq KeySet,
         NEW m \in Nat, m <= Cardinality(found)
  PROVE  Cardinality(First(found, m)) = m
<1> DEFINE ahead(k) == {j \in found : After(k, j)}
           T == {n \in Nat : n <= Cardinality(found) /\ Cardinality(First(found, n)) # n}
<1>1. SUFFICES ASSUME m \in T PROVE FALSE
  OBVIOUS
<1>2. PICK n \in T : \A o \in T : n <= o
  BY <1>1, LeastNumber
<1>3. Cardinality(found) \in Nat
  BY FS_CardinalityType
<1>4. \A k : IsFiniteSet(ahead(k)) /\ Cardinality(ahead(k)) \in Nat
  <2> SUFFICES ASSUME NEW k PROVE IsFiniteSet(ahead(k)) /\ Cardinality(ahead(k)) \in Nat
    OBVIOUS
  <2>1. ahead(k) \subseteq found
    OBVIOUS
  <2> QED
    BY <2>1, FS_Subset, FS_CardinalityType
<1>5. \A o : First(found, o) = {k \in found : Cardinality(ahead(k)) < o}
  BY DEF First
<1> HIDE DEF ahead
<1>6. n # 0
  <2>1. First(found, 0) = {}
    BY <1>4, <1>5
  <2> QED
    BY <1>2, <2>1, FS_EmptySet
<1> DEFINE p == n - 1
           firsts == First(found, p)
           rest == found \ firsts
           ranks == {Cardinality(ahead(k)) : k \in rest}
<1>7. p \in Nat /\ p < n /\ p \notin T /\ n = p + 1 /\ n <= Cardinality(found)
  BY <1>2, <1>6
<1>8. Cardinality(firsts) = p
  BY <1>3, <1>7
<1>9. rest # {}
  <2>1. firsts \subseteq found
    BY <1>5
  <2>2. SUFFICES ASSUME rest = {} PROVE FALSE
    OBVIOUS
  <2>3. firsts = found
    BY <2>1, <2>2
  <2> HIDE DEF firsts, p
  <2> QED
    BY <1>3, <1>7, <1>8, <2>3
<1>10. PICK k \in rest : \A j \in rest : Cardinality(ahead(k)) <= Cardinality(ahead(j))
  <2>1. ranks \in SUBSET Nat /\ ranks # {}
    BY <1>4, <1>9
  <2>2. PICK r \in ranks : \A o \in ranks : r <= o
    BY <2>1, LeastNumber
  <2> QED
    BY <2>2
<1>11. k \in found /\ ~(Cardinality(ahead(k)) < p)
  BY <1>5, <1>10
<1>12. ahead(k) \subseteq firsts
  <2> SUFFICES ASSUME NEW j \in ahead(k), j \notin firsts PROVE FALSE
    OBVIOUS
  <2>1. j \in found /\ After(k, j) /\ j \in rest
    BY DEF ahead
  <2>2. ahead(j) \subseteq ahead(k) \ {j}
    BY <1>11, <2>1, KeysAreOrdered DEF ahead
  <2>3. Cardinality(ahead(k) \ {j}) = Cardinality(ahead(k)) - 1 /\ IsFiniteSet(ahead(k) \ {j})
    BY <1>4, FS_RemoveElement
  <2>4. Cardinality(ahead(j)) <= Cardinality(ahead(k) \ {j})
    BY <2>2, <2>3, FS_Subset
  <2>5. Cardinality(ahead(k)) <= Cardinality(ahead(j))
    BY <1>10, <2>1
  <2>6. Cardinality(ahead(k)) \in Nat /\ Cardinality(ahead(j)) \in Nat
    BY <1>4
  <2> HIDE DEF rest, firsts
  <2> QED
    BY <2>3, <2>4, <2>5, <2>6
<1>13. IsFiniteSet(firsts) /\ firsts \subseteq found
  <2>1. firsts \subseteq found
    BY <1>5
  <2> QED
    BY <2>1, FS_Subset
<1>14. Cardinality(ahead(k)) = p
  <2>1. Cardinality(ahead(k)) <= Cardinality(firsts)
    BY <1>12, <1>13, FS_Subset
  <2>2. Cardinality(ahead(k)) \in Nat
    BY <1>4
  <2> HIDE DEF firsts, p, rest
  <2> QED
    BY <1>7, <1>8, <1>11, <2>1, <2>2
<1>15. ASSUME NEW j \in rest, j # k PROVE ~(Cardinality(ahead(j)) < n)
  <2>1. j \in found /\ j \notin firsts
    BY <1>15
  <2>2. ~After(k, j)
    BY <1>12, <2>1 DEF ahead
  <2>3. After(j, k)
    BY <1>11, <1>15, <2>1, <2>2, KeysAreOrdered
  <2>4. ahead(k) \cup {k} \subseteq ahead(j) /\ k \notin ahead(k)
    BY <1>11, <2>1, <2>3, KeysAreOrdered DEF ahead
  <2>5. Cardinality(ahead(k) \cup {k}) = Cardinality(ahead(k)) + 1
    BY <1>4, <2>4, FS_AddElement
  <2>6. Cardinality(ahead(k) \cup {k}) <= Cardinality(ahead(j))
    BY <1>4, <2>4, FS_Subset
  <2>7. Cardinality(ahead(j)) \in Nat
    BY <1>4
  <2> HIDE DEF rest, firsts, p
  <2> QED
    BY <1>7, <1>14, <2>5, <2>6, <2>7
<1>16. First(found, n) = firsts \cup {k}
  <2>1. ASSUME NEW j \in First(found, n), j \notin firsts PROVE j = k
    <3>1. j \in rest /\ Cardinality(ahead(j)) < n
      BY <1>5, <2>1
    <3> QED
      BY <1>15, <3>1
  <2>2. ASSUME NEW j \in firsts PROVE j \in First(found, n)
    <3>1. j \in found /\ Cardinality(ahead(j)) < p
      BY <1>5
    <3>2. Cardinality(ahead(j)) \in Nat
      BY <1>4
    <3>3. Cardinality(ahead(j)) < n
      <4> HIDE DEF p
      <4> QED
        BY <1>7, <3>1, <3>2
    <3> QED
      BY <1>5, <3>1, <3>3
  <2>3. k \in First(found, n)
    <3> HIDE DEF p
    <3> QED
      BY <1>5, <1>7, <1>11, <1>14
  <2> HIDE DEF firsts, rest
  <2> QED
    BY <2>1, <2>2, <2>3
<1>17. Cardinality(First(found, n)) = n
  <2>1. k \notin firsts
    BY <1>10
  <2>2. Cardinality(firsts \cup {k}) = Cardinality(firsts) + 1
    BY <1>13, <2>1, FS_AddElement
  <2> HIDE DEF firsts, p
  <2> QED
    BY <1>7, <1>8, <1>16, <2>2
<1> QED
  BY <1>2, <1>17

(* A page is full unless it drains what is found.                          *)
LEMMA PageSize ==
  ASSUME NEW found, IsFiniteSet(found), found \subseteq KeySet
  PROVE  /\ IsFiniteSet(Page(found)) /\ Page(found) \subseteq found
         /\ Cardinality(Page(found)) = IF Drained(found) THEN Cardinality(found) ELSE PageLimit
<1>1. Page(found) \subseteq found /\ (Drained(found) => Page(found) = found)
  BY PageIsFirst
<1>2. IsFiniteSet(Page(found))
  BY <1>1, FS_Subset
<1>3. ASSUME ~Drained(found) PROVE Cardinality(Page(found)) = PageLimit
  <2>1. PageLimit \in Nat /\ Cardinality(found) \in Nat
    BY CopiesAreNumbers, FS_CardinalityType
  <2>2. PageLimit <= Cardinality(found)
    BY <1>3, <2>1 DEF Drained
  <2>3. Page(found) = First(found, PageLimit)
    BY DEF Page, First
  <2> QED
    BY <2>1, <2>2, <2>3, FirstHas
<1> QED
  BY <1>1, <1>2, <1>3

(* What is past the keyset of the next page is what this one leaves; an    *)
(* empty page starts over.                                                 *)
LEMMA NextFound ==
  ASSUME NEW keys, IsFiniteSet(keys), keys \subseteq KeySet,
         \A k \in keys : After(k, Start), NEW at \in KeySet
  PROVE  LET found == Found(keys, at)
             page  == Page(found)
         IN  /\ NextAt(page) \in KeySet /\ IsFiniteSet(found) /\ found \subseteq keys
             /\ Found(keys, NextAt(page)) = IF found = {} THEN keys ELSE found \ page
             /\ found = {} => NextAt(page) = Start
             /\ Cardinality(found \ page) =
                  IF Drained(found) THEN 0 ELSE Cardinality(found) - PageLimit
<1> DEFINE found == Found(keys, at)
           page  == Page(found)
<1>1. found \subseteq keys /\ \A k \in keys : k \in found <=> After(k, at)
  BY DEF Found
<1>2. IsFiniteSet(found) /\ found \subseteq KeySet
  BY <1>1, FS_Subset
<1> HIDE DEF found
<1>3. /\ IsFiniteSet(page) /\ page \subseteq found
      /\ Cardinality(page) = IF Drained(found) THEN Cardinality(found) ELSE PageLimit
  BY <1>2, PageSize
<1>4. /\ Drained(found) => page = found
      /\ \A k \in found \ page : \A p \in page : After(k, p)
  BY <1>2, PageIsFirst
<1>5. found # {} => page # {}
  BY <1>2, <1>4, PagesHaveRows
<1> HIDE DEF page
<1>6. CASE found = {}
  <2>1. page = {} /\ NextAt(page) = Start
    BY <1>3, <1>6 DEF NextAt
  <2>2. Start \in KeySet /\ Found(keys, Start) = keys
    BY DEF Start, KeySet, None, Found
  <2>3. Cardinality(found) = 0 /\ Drained(found) /\ Cardinality(found \ page) = 0
    BY <1>6, FS_EmptySet, CopiesAreNumbers DEF Drained
  <2> QED
    BY <1>1, <1>2, <1>6, <2>1, <2>2, <2>3 DEF found, page
<1>7. CASE found # {}
  <2>1. NextAt(page) = LastOf(page)
    BY <1>5, <1>7 DEF NextAt
  <2>2. NextAt(page) \in page /\ \A j \in page : ~After(j, NextAt(page))
    BY <1>2, <1>3, <1>5, <1>7, <2>1, LastIsLast
  <2>3. NextAt(page) \in KeySet /\ After(NextAt(page), at)
    BY <1>1, <1>2, <1>3, <2>2
  <2>4. ASSUME NEW k \in keys PROVE After(k, NextAt(page)) <=> k \in found \ page
    BY <1>1, <1>3, <1>4, <2>2, <2>3, <2>4, KeysAreOrdered
  <2>5. Found(keys, NextAt(page)) = found \ page
    BY <1>1, <2>4 DEF Found
  <2>6. Cardinality(found \ page) = Cardinality(found) - Cardinality(page)
    <3>1. found \cap page = page
      BY <1>3
    <3> QED
      BY <1>2, <3>1, FS_Difference
  <2>7. Cardinality(found) \in Nat
    BY <1>2, FS_CardinalityType
  <2>8. Cardinality(found \ page) = IF Drained(found) THEN 0 ELSE Cardinality(found) - PageLimit
    BY <1>3, <2>6, <2>7
  <2> QED
    BY <1>1, <1>2, <1>7, <2>3, <2>5, <2>8 DEF found, page
<1> QED
  BY <1>6, <1>7

LEMMA RoundIs ==
  ASSUME NEW n \in Nat
  PROVE  IsRound(Round(n), n) /\ Round(n) \in 1..n + 1
<1> DEFINE T == {a \in Nat \ {0} : n <= (a - 1) * PageLimit}
<1>1. PageLimit \in Nat /\ PageLimit >= 1
  BY CopiesAreNumbers
<1>2. n + 1 \in T
  <2>1. n <= n * PageLimit
    <3>1. PICK l \in Nat : PageLimit = l + 1
      <4>1. PageLimit - 1 \in Nat
        BY <1>1
      <4> QED
        BY <1>1, <4>1
    <3>2. n * PageLimit = n * l + n /\ n * l \in Nat
      BY <3>1
    <3> QED
      BY <3>2
  <2> QED
    BY <2>1
<1>3. PICK a \in T : \A b \in T : a <= b
  <2>1. T \in SUBSET Nat /\ T # {}
    BY <1>2
  <2> HIDE DEF T
  <2> QED
    BY <2>1, LeastNumber
<1>4. a \in 1..n + 1
  BY <1>2, <1>3
<1>5. a = 1 \/ (a - 2) * PageLimit < n
  <2> SUFFICES ASSUME a # 1 PROVE (a - 2) * PageLimit < n
    OBVIOUS
  <2>1. a - 1 \in Nat \ {0} /\ a - 1 \notin T
    BY <1>3
  <2>2. ~(n <= (a - 1 - 1) * PageLimit)
    BY <2>1
  <2>3. a - 1 - 1 = a - 2 /\ a - 2 \in Nat
    BY <2>1
  <2>4. (a - 2) * PageLimit \in Nat
    BY <1>1, <2>3
  <2> QED
    BY <2>2, <2>3, <2>4
<1>6. IsRound(a, n)
  BY <1>3, <1>5 DEF IsRound
<1> QED
  BY <1>4, <1>6 DEF Round

Keys(keys) ==
  IsFiniteSet(keys) /\ keys \subseteq KeySet /\ \A k \in keys : After(k, Start)

(* Multiples of a page.                                                    *)
LEMMA PageSteps ==
  ASSUME NEW i \in Nat, NEW j \in Nat
  PROVE  /\ i * PageLimit \in Nat /\ 0 * PageLimit = 0
         /\ (i + 1) * PageLimit = i * PageLimit + PageLimit
         /\ i <= j => i * PageLimit <= j * PageLimit
<1>1. PageLimit \in Nat
  BY CopiesAreNumbers
<1>2. i * PageLimit \in Nat /\ (i + 1) * PageLimit = i * PageLimit + PageLimit
  BY <1>1
<1>3. ASSUME i <= j PROVE i * PageLimit <= j * PageLimit
  <2>1. PICK d \in Nat : j = i + d
    <3>1. j - i \in Nat /\ j = i + (j - i)
      BY <1>3
    <3> QED
      BY <3>1
  <2>2. j * PageLimit = i * PageLimit + d * PageLimit /\ d * PageLimit \in Nat
    BY <1>1, <2>1
  <2> QED
    BY <1>2, <2>2
<1> QED
  BY <1>1, <1>2, <1>3

(* Nothing is left on the last page of a round, and on no other.           *)
LEMMA LastPage ==
  ASSUME NEW n \in Nat, NEW i \in 0..Round(n) - 1
  PROVE  /\ Round(n) \in Nat \ {0}
         /\ Rest(n, i) = 0 <=> i = Round(n) - 1
         /\ Rest(n, i) \in Nat /\ Rest(n, 0) = n
<1> DEFINE a == Round(n)
<1>1. a \in Nat \ {0} /\ n <= (a - 1) * PageLimit /\ (a = 1 \/ (a - 2) * PageLimit < n)
  BY RoundIs DEF IsRound
<1> HIDE DEF a
<1>2. i \in Nat /\ i <= a - 1 /\ a - 1 \in Nat
  BY <1>1 DEF a
<1>3. i * PageLimit \in Nat /\ 0 * PageLimit = 0
  BY <1>2, PageSteps
<1>4. ASSUME i # a - 1 PROVE Rest(n, i) # 0
  <2>1. i <= a - 2 /\ a - 2 \in Nat /\ a # 1
    BY <1>1, <1>2, <1>4
  <2>2. i * PageLimit <= (a - 2) * PageLimit /\ (a - 2) * PageLimit \in Nat
    BY <1>2, <2>1, PageSteps
  <2>3. i * PageLimit < n
    BY <1>1, <1>3, <2>1, <2>2
  <2> QED
    BY <1>3, <2>3 DEF Rest
<1>5. ASSUME i = a - 1 PROVE Rest(n, i) = 0
  BY <1>1, <1>3, <1>5 DEF Rest
<1>6. Rest(n, i) \in Nat /\ Rest(n, 0) = n
  BY <1>3 DEF Rest
<1> QED
  BY <1>1, <1>4, <1>5, <1>6 DEF a

(* A channel goes from page to page of its round.                          *)
LEMMA PageTurns ==
  ASSUME NEW keys, Keys(keys), NEW at, NEW n \in Nat, AtPage(keys, at, n)
  PROVE  AtPage(keys, NextAt(Page(Found(keys, at))), n + 1)
<1> DEFINE found == Found(keys, at)
           page == Page(found)
           next == NextAt(page)
           size == Cardinality(keys)
           a == Round(size)
<1>1. PICK q \in 0..n, i \in 0..a - 1 :
        n = q * a + i /\ Cardinality(found) = Rest(size, i) /\ at \in KeySet
  BY DEF AtPage
<1>2. size \in Nat
  BY FS_CardinalityType DEF Keys
<1>3. /\ next \in KeySet /\ IsFiniteSet(found)
      /\ Found(keys, next) = IF found = {} THEN keys ELSE found \ page
      /\ found = {} => next = Start
      /\ Cardinality(found \ page) = IF Drained(found) THEN 0 ELSE Cardinality(found) - PageLimit
  BY <1>1, NextFound DEF Keys
<1>4. found = {} <=> Cardinality(found) = 0
  BY <1>3, FS_EmptySet
<1> HIDE DEF next, page, size
<1> HIDE DEF found
<1>5. /\ a \in Nat \ {0} /\ (Rest(size, i) = 0 <=> i = a - 1) /\ Rest(size, 0) = size
  BY <1>1, <1>2, LastPage
<1> HIDE DEF a
<1>6. q \in Nat /\ i \in Nat /\ q <= n /\ i <= a - 1
  BY <1>1, <1>5
<1>7. CASE found = {}
  <2>1. i = a - 1
    BY <1>1, <1>4, <1>5, <1>7
  <2>2. n + 1 = (q + 1) * a + 0
    BY <1>1, <1>5, <1>6, <2>1
  <2>3. q + 1 \in 0..n + 1 /\ 0 \in 0..a - 1
    BY <1>5, <1>6
  <2>4. Cardinality(Found(keys, next)) = Rest(size, 0) /\ next = Start /\ next \in KeySet
    BY <1>3, <1>5, <1>7 DEF size
  <2> QED
    BY <2>2, <2>3, <2>4 DEF AtPage, a, size, next, page, found
<1>8. CASE found # {}
  <2>1. i + 1 \in 0..a - 1 /\ q \in 0..n + 1
    BY <1>1, <1>4, <1>5, <1>6, <1>8
  <2>2. n + 1 = q * a + (i + 1)
    BY <1>1, <1>5, <1>6
  <2>3. /\ i * PageLimit \in Nat /\ (i + 1) * PageLimit = i * PageLimit + PageLimit
        /\ (i + 1) * PageLimit \in Nat /\ PageLimit \in Nat
    BY <1>6, PageSteps, CopiesAreNumbers
  <2>4. Cardinality(found) = size - i * PageLimit /\ i * PageLimit < size
    BY <1>1, <1>2, <1>4, <1>8, <2>3 DEF Rest
  <2>5. Drained(found) <=> size <= (i + 1) * PageLimit
    BY <1>2, <2>3, <2>4 DEF Drained
  <2>6. Cardinality(found \ page) = Rest(size, i + 1)
    BY <1>2, <1>3, <2>3, <2>4, <2>5 DEF Rest
  <2>7. Cardinality(Found(keys, next)) = Rest(size, i + 1) /\ i + 1 # 0 /\ next \in KeySet
    BY <1>3, <1>6, <1>8, <2>6
  <2> QED
    BY <2>1, <2>2, <2>7 DEF AtPage, a, size, next, page, found
<1> QED
  BY <1>7, <1>8

(* Where two rounds end together, both channels are drained.               *)
LEMMA MeetAtTheEnd ==
  ASSUME NEW a \in Nat \ {0}, NEW b \in Nat \ {0}, NEW q \in Nat, NEW i \in 0..a - 1,
         q * a + i + 1 = b * a
  PROVE  i = a - 1
<1>1. q < b
  <2> SUFFICES ASSUME b <= q PROVE FALSE
    OBVIOUS
  <2>1. PICK d \in Nat : q = b + d
    <3>1. q - b \in Nat /\ q = b + (q - b)
      OBVIOUS
    <3> QED
      BY <3>1
  <2>2. q * a = b * a + d * a /\ d * a \in Nat /\ b * a \in Nat
    BY <2>1
  <2> QED
    BY <2>2
<1>2. PICK d \in Nat : b = q + 1 + d
  <2>1. b - q - 1 \in Nat /\ b = q + 1 + (b - q - 1)
    BY <1>1
  <2> QED
    BY <2>1
<1>3. b * a = q * a + a + d * a /\ d * a \in Nat /\ q * a \in Nat
  BY <1>2
<1> QED
  BY <1>3

LEMMA DrainedTogether ==
  ASSUME NEW keys, Keys(keys), NEW at, NEW others, Keys(others), NEW otherAt, NEW n \in Nat,
         AtPage(keys, at, n), AtPage(others, otherAt, n),
         n < Round(Cardinality(keys)) * Round(Cardinality(others))
  PROVE  \/ n + 1 < Round(Cardinality(keys)) * Round(Cardinality(others))
         \/ Drained(Found(keys, at)) /\ Drained(Found(others, otherAt))
<1> DEFINE a == Round(Cardinality(keys))
           b == Round(Cardinality(others))
<1>1. Cardinality(keys) \in Nat /\ Cardinality(others) \in Nat
  BY FS_CardinalityType DEF Keys
<1>2. PICK q \in 0..n, i \in 0..a - 1 :
        n = q * a + i /\ Cardinality(Found(keys, at)) = Rest(Cardinality(keys), i)
  BY DEF AtPage
<1>3. PICK r \in 0..n, j \in 0..b - 1 :
        n = r * b + j /\ Cardinality(Found(others, otherAt)) = Rest(Cardinality(others), j)
  BY DEF AtPage
<1>4. a \in Nat \ {0} /\ (i = a - 1 => Rest(Cardinality(keys), i) = 0)
  BY <1>1, <1>2, LastPage
<1>5. b \in Nat \ {0} /\ (j = b - 1 => Rest(Cardinality(others), j) = 0)
  BY <1>1, <1>3, LastPage
<1> HIDE DEF a, b
<1>6. ASSUME ~(n + 1 < a * b)
      PROVE  Drained(Found(keys, at)) /\ Drained(Found(others, otherAt))
  <2>1. a * b \in Nat /\ a * b = b * a /\ n < a * b
    BY <1>4, <1>5 DEF a, b
  <2>2. q * a + i + 1 = b * a /\ r * b + j + 1 = a * b
    BY <1>2, <1>3, <1>6, <2>1
  <2>3. q \in Nat /\ r \in Nat
    BY <1>2, <1>3
  <2>4. i = a - 1 /\ j = b - 1
    BY <1>4, <1>5, <2>2, <2>3, MeetAtTheEnd
  <2> QED
    BY <1>2, <1>3, <1>4, <1>5, <2>4, CopiesAreNumbers DEF Drained
<1> QED
  BY <1>6 DEF a, b

-----------------------------------------------------------------------------
(* What a delta has to read. *)

ChangedSince(since) == {c \in Existing : rows[c].xid >= since}
GoneSince(since)    == {c \in Copies : tombs[c] # Absent /\ tombs[c].xid >= since}

LEMMA KeysOfRead ==
  ASSUME TypesInv, XidsInv, read.since \in Nat
  PROVE  /\ Keys(RowKeys) /\ Keys(GoneKeys)
         /\ Cardinality(RowKeys) <= Cardinality(ChangedSince(read.since))
         /\ Cardinality(GoneKeys) <= Cardinality(GoneSince(read.since))
         /\ Cardinality(ChangedSince(read.since)) \in Nat
         /\ Cardinality(GoneSince(read.since)) \in Nat
<1> DEFINE C == {c \in VisibleRows : read.since <= rows[c].xid}
           D == {c \in Copies : /\ tombs[c] # Absent /\ tombs[c].owner \in Reachable(Viewer)
                                /\ read.since <= tombs[c].xid}
           changed == ChangedSince(read.since)
           gone == GoneSince(read.since)
           f == [c \in C |-> [id |-> c, xid |-> rows[c].xid]]
           g == [c \in D |-> [id |-> c, xid |-> tombs[c].xid]]
<1>1. Numbers(Tables)
  BY TablesAreNumbers
<1>2. /\ \A c \in Copies : rows[c] # Absent => rows[c].xid \in Nat
      /\ \A c \in Copies : tombs[c] # Absent => tombs[c].xid \in Nat
  BY <1>1 DEF Numbers, Tables
<1>3. C \subseteq changed /\ changed \subseteq Copies /\ \A c \in C : rows[c] # Absent
  BY <1>2 DEF VisibleRows, Existing, ChangedSince
<1>4. D \subseteq gone /\ gone \subseteq Copies /\ \A c \in D : tombs[c] # Absent
  BY <1>2 DEF GoneSince
<1>5. /\ IsFiniteSet(changed) /\ Cardinality(changed) \in Nat
      /\ IsFiniteSet(C) /\ Cardinality(C) <= Cardinality(changed) /\ Cardinality(C) \in Nat
  BY <1>3, CopiesAreNumbers, FS_Subset, FS_CardinalityType
<1>6. /\ IsFiniteSet(gone) /\ Cardinality(gone) \in Nat
      /\ IsFiniteSet(D) /\ Cardinality(D) <= Cardinality(gone) /\ Cardinality(D) \in Nat
  BY <1>4, CopiesAreNumbers, FS_Subset, FS_CardinalityType
<1>7. RowKeys = {[id |-> c, xid |-> rows[c].xid] : c \in C}
      /\ GoneKeys = {[id |-> c, xid |-> tombs[c].xid] : c \in D}
  BY DEF RowKeys, GoneKeys
<1>8. {f[c] : c \in C} = RowKeys /\ {g[c] : c \in D} = GoneKeys
  BY <1>7
<1>9. /\ IsFiniteSet(RowKeys) /\ RowKeys \subseteq KeySet
      /\ IsFiniteSet(GoneKeys) /\ GoneKeys \subseteq KeySet
  BY <1>3, <1>4, <1>7, KeysAreFinite
<1>10. /\ \A k \in RowKeys : After(k, Start)
       /\ \A k \in GoneKeys : After(k, Start)
  <2>1. \A c \in Copies : /\ rows[c] # Absent => After(RowKey(Tables, c), Start)
                          /\ tombs[c] # Absent => After(TombKey(Tables, c), Start)
    BY <1>1, EveryKeyIsAfterStart
  <2> QED
    BY <1>3, <1>4, <1>7, <2>1 DEF RowKey, TombKey, Tables
<1> HIDE DEF C, D, f, g, changed, gone
<1>11. Cardinality(RowKeys) <= Cardinality(C) /\ Cardinality(GoneKeys) <= Cardinality(D)
  BY <1>5, <1>6, <1>8, NamesOf
<1>12. Cardinality(RowKeys) \in Nat /\ Cardinality(GoneKeys) \in Nat
  BY <1>9, FS_CardinalityType
<1>13. /\ Cardinality(RowKeys) <= Cardinality(changed)
       /\ Cardinality(GoneKeys) <= Cardinality(gone)
  BY <1>5, <1>6, <1>11, <1>12
<1> QED
  BY <1>5, <1>6, <1>9, <1>10, <1>13 DEF Keys, changed, gone

LEMMA ProductsGrow ==
  ASSUME NEW a \in Nat, NEW b \in Nat, NEW m \in Nat, NEW n \in Nat, a <= m, b <= n
  PROVE  a * b <= m * n
<1>1. PICK d \in Nat : m = a + d
  <2>1. m - a \in Nat /\ m = a + (m - a)
    OBVIOUS
  <2> QED
    BY <2>1
<1>2. PICK e \in Nat : n = b + e
  <2>1. n - b \in Nat /\ n = b + (n - b)
    OBVIOUS
  <2> QED
    BY <2>1
<1>3. m * n = a * b + a * e + d * b + d * e
  BY <1>1, <1>2
<1>4. a * b \in Nat /\ a * e \in Nat /\ d * b \in Nat /\ d * e \in Nat
  BY <1>1, <1>2
<1> QED
  BY <1>3, <1>4

(* The bound leaves the delta its rounds.                                  *)
LEMMA RoundsFit ==
  ASSUME TypesInv, XidsInv, read.since \in Nat
  PROVE  /\ Rounds \in Nat \ {0} /\ Most(read.since) \in Nat
         /\ Rounds <= Most(read.since) - Cardinality(Copies) - 1
<1> DEFINE k == Cardinality(RowKeys)
           g == Cardinality(GoneKeys)
           m == Cardinality(ChangedSince(read.since))
           n == Cardinality(GoneSince(read.since))
<1>1. k \in Nat /\ g \in Nat /\ m \in Nat /\ n \in Nat /\ k <= m /\ g <= n
  BY KeysOfRead, FS_CardinalityType DEF Keys
<1>2. Most(read.since) = (m + 1) * (n + 1) + Cardinality(Copies) + 1
  BY DEF Most, ChangedSince, GoneSince
<1>3. Cardinality(Copies) \in Nat
  BY CopiesAreNumbers, FS_CardinalityType
<1> HIDE DEF k, g, m, n
<1>4. Round(k) \in 1..k + 1 /\ Round(g) \in 1..g + 1
  BY <1>1, RoundIs
<1> DEFINE a == Round(k)
           b == Round(g)
<1>5. a \in Nat \ {0} /\ b \in Nat \ {0} /\ a <= m + 1 /\ b <= n + 1
  BY <1>1, <1>4
<1>6. Rounds = a * b
  BY DEF Rounds, k, g
<1> HIDE DEF a, b
<1>7. a * b <= (m + 1) * (n + 1) /\ (m + 1) * (n + 1) \in Nat
  BY <1>1, <1>5, ProductsGrow
<1>8. a * b \in Nat \ {0}
  <2>1. 1 * 1 <= a * b
    BY <1>5, ProductsGrow
  <2> QED
    BY <1>5, <2>1
<1> QED
  BY <1>2, <1>3, <1>6, <1>7, <1>8

LEMMA SameKeys ==
  ASSUME UNCHANGED db, read'.since = read.since
  PROVE  /\ RowKeys' = RowKeys /\ GoneKeys' = GoneKeys /\ Rounds' = Rounds
         /\ Covered(read.since)' = Covered(read.since)
<1>1. UNCHANGED <<rows, tombs, pruned, members>>
  BY DEF db
<1>2. VisibleRows' = VisibleRows /\ Reachable(Viewer)' = Reachable(Viewer)
  BY <1>1 DEF VisibleRows, Existing, Reachable
<1>3. RowKeys' = RowKeys
  BY <1>1, <1>2 DEF RowKeys
<1>4. GoneKeys' = GoneKeys
  BY <1>1, <1>2 DEF GoneKeys
<1> QED
  BY <1>1, <1>3, <1>4 DEF Rounds, Covered

-----------------------------------------------------------------------------
(* The pace is kept. *)

(* A step beside the read: while nothing is committed, only tombstones go, *)
(* and those of the window not without putting an end to the delta.        *)
LEMMA PaceStays ==
  ASSUME TypesInv, XidsInv, PaceInv, read' = read, Underway => read.since \in Nat,
         quiet' => /\ quiet /\ rows' = rows /\ Reachable(Viewer)' = Reachable(Viewer)
                   /\ pruned <= pruned' /\ pruned' \in Nat
                   /\ \A c \in Copies :
                        \/ tombs'[c] = tombs[c]
                        \/ tombs[c] # Absent /\ tombs'[c] = Absent /\ tombs[c].xid <= pruned'
  PROVE  PaceInv'
<1>1. SUFFICES ASSUME quiet', Underway PROVE InBudget' /\ InRounds' /\ RowsInRounds'
  BY DEF PaceInv, Underway
<1>2. InBudget /\ InRounds /\ RowsInRounds /\ Spare' = Spare /\ read.since \in Nat
  BY <1>1 DEF PaceInv, Spare
<1>3. InBudget'
  BY <1>2 DEF InBudget, UpTo, Spare
<1>4. VisibleRows' = VisibleRows
  BY <1>1 DEF VisibleRows, Existing
<1>5. RowKeys' = RowKeys
  BY <1>1, <1>4 DEF RowKeys
<1>6. RowsInRounds'
  BY <1>2, <1>5 DEF RowsInRounds
<1>7. ASSUME Covered(read.since)' PROVE Covered(read.since) /\ GoneKeys' = GoneKeys
  <2>1. pruned \in Nat /\ pruned' \in Nat /\ pruned' < read.since
    BY <1>1, <1>2, <1>7, TablesAreNumbers DEF Covered
  <2>2. \A c \in Copies : tombs[c] # Absent => tombs[c].xid \in Nat
    BY TablesAreNumbers DEF Numbers, Tables
  <2> DEFINE D == {c \in Copies : /\ tombs[c] # Absent /\ tombs[c].owner \in Reachable(Viewer)
                                  /\ read.since <= tombs[c].xid}
  <2>3. \A c \in D : tombs'[c] = tombs[c]
    BY <1>1, <1>2, <2>1, <2>2
  <2>4. D' = D
    BY <1>1, <2>3
  <2>5. GoneKeys = {[id |-> c, xid |-> tombs[c].xid] : c \in D}
    BY DEF GoneKeys
  <2>6. GoneKeys' = {[id |-> c, xid |-> tombs'[c].xid] : c \in D'}
    BY DEF GoneKeys
  <2> HIDE DEF D
  <2>7. GoneKeys' = GoneKeys
    BY <2>3, <2>4, <2>5, <2>6
  <2> QED
    BY <1>1, <1>2, <2>1, <2>7 DEF Covered
<1>8. InRounds'
  BY <1>2, <1>5, <1>7 DEF InRounds, Rounds, Spare, Done
<1> QED
  BY <1>3, <1>6, <1>8

LEMMA FreshPace ==
  ASSUME NEW cached
  PROVE  /\ read' = Started(cached) => PaceInv'
         /\ read' = NoRead => PaceInv'
<1>1. ASSUME read' = Started(cached) PROVE PaceInv'
  <2>1. /\ read'.phase = "check" /\ read'.cursor = None /\ read'.pin = None
        /\ read'.requests = 0 /\ read'.most = 0
    BY <1>1 DEF Started, NoRead
  <2> QED
    BY <2>1 DEF PaceInv, Underway, InBudget, InRounds, RowsInRounds
<1>2. ASSUME read' = NoRead PROVE PaceInv'
  <2>1. read'.phase = "idle" /\ read'.requests = 0 /\ read'.most = 0
    BY <1>2 DEF NoRead
  <2> QED
    BY <2>1 DEF PaceInv, Underway
<1> QED
  BY <1>1, <1>2

(* The first page of both rounds.                                          *)
LEMMA RoundsBegin ==
  ASSUME NEW keys, Keys(keys)
  PROVE  AtPage(keys, Start, 0)
<1> DEFINE size == Cardinality(keys)
           a == Round(size)
<1>1. size \in Nat
  BY FS_CardinalityType DEF Keys
<1>2. a \in Nat \ {0}
  BY <1>1, RoundIs DEF IsRound
<1>3. Found(keys, Start) = keys /\ Start \in KeySet
  BY DEF Found, Keys, Start, None, KeySet
<1>4. Rest(size, 0) = size
  BY <1>1, PageSteps DEF Rest
<1> HIDE DEF a, size
<1>5. 0 \in 0..0 /\ 0 \in 0..a - 1 /\ 0 = 0 * a + 0
  BY <1>2
<1> QED
  BY <1>3, <1>4, <1>5 DEF AtPage, a, size

LEMMA CheckKeepsPace ==
  ASSUME SInv, PaceInv, CheckWatermark
  PROVE  PaceInv'
<1> DEFINE delta == read.since # None /\ read.since <= SafeXid /\ Covered(read.since)
           most == IF read.requests = 0 THEN Most(read.since) ELSE read.most
           pin == PinWatermark(read.pin)
<1>1. /\ read.phase = "check" /\ UNCHANGED <<db, lists, known, store, synced, mine, history>>
      /\ read' = [read EXCEPT !.phase = IF delta THEN "delta" ELSE "full",
                              !.safe = SafeXid, !.pin = pin,
                              !.rows = Unknown, !.gone = Unknown,
                              !.requests = @ + 1, !.most = most]
  BY DEF CheckWatermark
<1>2. Shape(read) /\ InFull(read) /\ Underway
  BY <1>1 DEF SInv, ReadShape, Underway
<1>3. /\ read'.phase = (IF delta THEN "delta" ELSE "full")
      /\ read'.rows = Unknown /\ read'.gone = Unknown
      /\ read'.since = read.since /\ read'.cursor = read.cursor
      /\ read'.rowAt = read.rowAt /\ read'.goneAt = read.goneAt
      /\ read'.requests = read.requests + 1 /\ read'.most = most
  BY <1>1, <1>2 DEF Shape, ReadFields
<1> HIDE DEF delta, most, pin
<1>4. Underway' /\ quiet' = quiet /\ UNCHANGED db
  BY <1>1, <1>3 DEF Underway, history
<1>5. Shape(read')
  BY CheckKeepsSInv DEF SInv, ReadShape
<1>6. read.since \in Nat
  BY <1>2, ReadIsNumbers DEF SInv, IInv
<1>7. /\ Rounds \in Nat \ {0} /\ Most(read.since) \in Nat
      /\ Rounds <= Most(read.since) - Cardinality(Copies) - 1
      /\ Keys(RowKeys) /\ Keys(GoneKeys)
  BY <1>6, RoundsFit, KeysOfRead DEF SInv, IInv
<1>8. /\ RowKeys' = RowKeys /\ GoneKeys' = GoneKeys /\ Rounds' = Rounds
      /\ Covered(read.since)' = Covered(read.since)
  BY <1>3, <1>4, SameKeys
<1>9. read.requests \in Nat /\ read'.requests \in Nat /\ read'.requests > 0 /\ read'.most \in Nat
  BY <1>3, <1>7 DEF PaceInv, most
<1>10. SUFFICES ASSUME quiet PROVE InBudget' /\ InRounds' /\ RowsInRounds'
  BY <1>4, <1>9 DEF PaceInv
<1>11. InBudget /\ InRounds
  BY <1>2, <1>10 DEF PaceInv
<1>12. RowsInRounds'
  BY <1>3 DEF RowsInRounds
<1>13. Cardinality(Copies) \in Nat
  BY CopiesAreNumbers, FS_CardinalityType
<1>14. CASE read.requests = 0
  <2>1. read.cursor = None /\ read.rowAt = Start /\ read.goneAt = Start
    BY <1>2, <1>11, <1>14 DEF InBudget, Shape
  <2>2. Spare' = Most(read.since) - Cardinality(Copies) - 1 /\ Spare' \in Nat /\ Rounds <= Spare'
    BY <1>3, <1>7, <1>13, <1>14 DEF Spare, most
  <2>3. read'.requests = 1
    BY <1>3, <1>14
  <2>4. InBudget'
    BY <1>3, <1>7, <2>1, <2>2, <2>3 DEF InBudget
  <2>5. read'.phase # "full" => Done' = 0
    BY <1>3, <2>3 DEF Done
  <2>6. AtPage(RowKeys, Start, 0) /\ AtPage(GoneKeys, Start, 0)
    BY <1>7, RoundsBegin
  <2>7. 0 < Rounds
    BY <1>7
  <2>8. InRounds'
    BY <1>3, <1>8, <2>1, <2>2, <2>5, <2>6, <2>7 DEF InRounds
  <2> QED
    BY <1>12, <2>4, <2>8
<1>15. CASE read.requests > 0
  <2>1. Spare' = Spare
    BY <1>3, <1>15 DEF Spare, most
  <2>2. read'.cursor # None => read'.phase = "full"
    BY <1>3, <1>5 DEF Shape
  <2>3. Cardinality(UpTo(read.cursor)) \in Nat
    BY CopiesAreNumbers, FS_Subset, FS_CardinalityType DEF UpTo
  <2>4. UpTo(read.cursor)' = UpTo(read.cursor)
    BY <1>3 DEF UpTo
  <2>5. InBudget'
    BY <1>1, <1>3, <1>9, <1>11, <1>15, <2>1, <2>2, <2>3, <2>4 DEF InBudget
  <2>6. read'.phase # "full" => Done' = Done
    BY <1>1, <1>3, <1>9 DEF Done
  <2>7. InRounds'
    BY <1>1, <1>3, <1>8, <1>11, <1>15, <2>1, <2>6 DEF InRounds
  <2> QED
    BY <1>12, <2>5, <2>7
<1> QED
  BY <1>9, <1>14, <1>15

(* Below the watermark of a quiet read is everything.                      *)
LEMMA WindowIsOpen ==
  ASSUME SInv, quiet, Underway, read.phase = "delta"
  PROVE  /\ {[id |-> c, xid |-> rows[c].xid] :
                c \in {d \in VisibleRows : InWindow(rows[d].xid)}} = RowKeys
         /\ LET visible == {c \in Copies : /\ tombs[c] # Absent
                                           /\ tombs[c].owner \in Reachable(Viewer)}
            IN  {[id |-> c, xid |-> tombs[c].xid] :
                   c \in {d \in visible : InWindow(tombs[d].xid)}} = GoneKeys
<1>1. read.pin # None
  BY DEF SInv, ReadShape, Shape
<1>2. Below(Tables, read.pin)
  BY <1>1 DEF SInv, QuietInv
<1>3. \A c \in Copies : /\ rows[c] # Absent => rows[c].xid < read.pin
                        /\ tombs[c] # Absent => tombs[c].xid < read.pin
  BY <1>2 DEF Below, Tables
<1>4. {d \in VisibleRows : InWindow(rows[d].xid)} = {d \in VisibleRows : read.since <= rows[d].xid}
  BY <1>3 DEF VisibleRows, Existing, InWindow
<1> DEFINE visible == {c \in Copies : tombs[c] # Absent /\ tombs[c].owner \in Reachable(Viewer)}
           C == {d \in visible : InWindow(tombs[d].xid)}
           D == {d \in Copies : /\ tombs[d] # Absent /\ tombs[d].owner \in Reachable(Viewer)
                                /\ read.since <= tombs[d].xid}
<1>5. C = D
  BY <1>3 DEF InWindow
<1>6. GoneKeys = {[id |-> c, xid |-> tombs[c].xid] : c \in D}
  BY DEF GoneKeys
<1>7. {[id |-> c, xid |-> tombs[c].xid] : c \in C} = GoneKeys
  <2> HIDE DEF C, D
  <2> QED
    BY <1>5, <1>6
<1> QED
  BY <1>4, <1>7 DEF RowKeys

LEMMA PageKeepsPace ==
  ASSUME SInv, PaceInv, ReadChanged \/ ReadDeletions
  PROVE  PaceInv'
<1> DEFINE rowKeys == {[id |-> c, xid |-> rows[c].xid] :
                         c \in {d \in VisibleRows : InWindow(rows[d].xid)}}
           visible == {c \in Copies : tombs[c] # Absent /\ tombs[c].owner \in Reachable(Viewer)}
           goneKeys == {[id |-> c, xid |-> tombs[c].xid] :
                          c \in {d \in visible : InWindow(tombs[d].xid)}}
           got == Found(rowKeys, read.rowAt)
           gone == Found(goneKeys, read.goneAt)
           rowPage == [page |-> Page(got), drained |-> Drained(got), items |-> AsItems(Page(got))]
           gonePage == [page |-> Page(gone), drained |-> Drained(gone)]
<1>1. /\ read.phase = "delta" /\ UNCHANGED <<db, lists, known, store, synced, mine, history>>
      /\ \/ read' = [read EXCEPT !.rows = rowPage]
         \/ read' = [read EXCEPT !.gone = gonePage]
  BY DEF ReadChanged, ReadDeletions
<1>2. Shape(read) /\ Underway
  BY <1>1 DEF SInv, ReadShape, Underway
<1>3. /\ rowPage.page = Page(got) /\ rowPage.drained = Drained(got)
      /\ gonePage.page = Page(gone) /\ gonePage.drained = Drained(gone)
  OBVIOUS
<1>4. quiet => rowKeys = RowKeys /\ goneKeys = GoneKeys
  BY <1>1, <1>2, WindowIsOpen
<1>5. quiet => got = Found(RowKeys, read.rowAt) /\ gone = Found(GoneKeys, read.goneAt)
  <2> HIDE DEF rowKeys, goneKeys
  <2> QED
    BY <1>4
<1> HIDE DEF rowPage, gonePage, got, gone, rowKeys, goneKeys
<1>6. /\ read'.phase = read.phase /\ read'.since = read.since /\ read'.cursor = read.cursor
      /\ read'.rowAt = read.rowAt /\ read'.goneAt = read.goneAt
      /\ read'.requests = read.requests /\ read'.most = read.most
      /\ \/ read'.rows = rowPage /\ read'.gone = read.gone
         \/ read'.gone = gonePage /\ read'.rows = read.rows
  BY <1>1, <1>2 DEF Shape, ReadFields
<1>7. Underway' /\ quiet' = quiet /\ UNCHANGED db
  BY <1>1, <1>6 DEF Underway, history
<1>8. SUFFICES ASSUME quiet PROVE InBudget' /\ InRounds' /\ RowsInRounds'
  BY <1>6, <1>7 DEF PaceInv
<1>9. InBudget /\ InRounds /\ RowsInRounds
  BY <1>2, <1>8 DEF PaceInv
<1>10. /\ RowKeys' = RowKeys /\ GoneKeys' = GoneKeys /\ Rounds' = Rounds
       /\ Covered(read.since)' = Covered(read.since)
  BY <1>6, <1>7, SameKeys
<1>11. Spare' = Spare /\ Done' = Done
  BY <1>6 DEF Spare, Done
<1>12. InBudget'
  BY <1>1, <1>6, <1>9, <1>11 DEF InBudget, UpTo
<1>13. RowsInRounds'
  BY <1>3, <1>5, <1>6, <1>8, <1>9, <1>10 DEF RowsInRounds
<1>14. InRounds'
  BY <1>3, <1>5, <1>6, <1>8, <1>9, <1>10, <1>11 DEF InRounds
<1> QED
  BY <1>12, <1>13, <1>14

LEMMA FallBackKeepsPace ==
  ASSUME SInv, PaceInv, FallBack
  PROVE  PaceInv'
<1>1. /\ read.phase = "delta" /\ read' = [read EXCEPT !.phase = "full"]
      /\ UNCHANGED <<db, history>>
  BY DEF FallBack
<1>2. Shape(read) /\ Underway
  BY <1>1 DEF SInv, ReadShape, Underway
<1>3. /\ read'.phase = "full" /\ read'.cursor = read.cursor /\ read.cursor = None
      /\ read'.requests = read.requests /\ read'.most = read.most
  BY <1>1, <1>2 DEF Shape, ReadFields
<1>4. Underway' /\ quiet' = quiet /\ Spare' = Spare
  BY <1>1, <1>3 DEF Underway, history, Spare
<1> QED
  BY <1>1, <1>2, <1>3, <1>4 DEF PaceInv, InBudget, InRounds, RowsInRounds

LEMMA DeltaKeepsPace ==
  ASSUME SInv, PaceInv, TakeDeltaPage
  PROVE  PaceInv'
<1>1. CASE read.rows.drained /\ read.gone.drained
  BY <1>1, FreshPace DEF TakeDeltaPage, FinishRead
<1>2. CASE ~(read.rows.drained /\ read.gone.drained)
  <2>1. /\ read.phase = "delta" /\ read.rows # Unknown /\ read.gone # Unknown
        /\ Covered(read.since) /\ UNCHANGED db /\ quiet' = quiet
        /\ \E items, deleted :
             read' = [read EXCEPT !.items = items, !.deleted = deleted, !.phase = "check",
                                  !.rowAt = NextAt(read.rows.page),
                                  !.goneAt = NextAt(read.gone.page)]
    BY <1>2 DEF TakeDeltaPage, StillCovered
  <2>2. Shape(read) /\ Underway
    BY <2>1 DEF SInv, ReadShape, Underway
  <2>3. /\ read'.phase = "check" /\ read'.since = read.since
        /\ read'.cursor = read.cursor /\ read.cursor = None
        /\ read'.rowAt = NextAt(read.rows.page) /\ read'.goneAt = NextAt(read.gone.page)
        /\ read'.requests = read.requests /\ read'.most = read.most
    BY <2>1, <2>2 DEF Shape, ReadFields
  <2>4. Underway' /\ Spare' = Spare
    BY <2>3 DEF Underway, Spare
  <2>5. SUFFICES ASSUME quiet PROVE InBudget' /\ InRounds' /\ RowsInRounds'
    BY <2>1, <2>3, <2>4 DEF PaceInv
  <2>6. InBudget /\ InRounds /\ RowsInRounds /\ read.requests \in Nat /\ read.requests > 0
    BY <2>1, <2>2, <2>5 DEF PaceInv, InBudget
  <2>7. RowsInRounds'
    BY <2>3 DEF RowsInRounds
  <2> DEFINE n == read.requests - 1
             got == Found(RowKeys, read.rowAt)
             gone == Found(GoneKeys, read.goneAt)
  <2>8. /\ Rounds <= Spare /\ n < Rounds /\ n \in Nat /\ n + 1 = read.requests
        /\ AtPage(RowKeys, read.rowAt, n) /\ AtPage(GoneKeys, read.goneAt, n)
        /\ read.rows.page = Page(got) /\ read.rows.drained = Drained(got)
        /\ read.gone.page = Page(gone) /\ read.gone.drained = Drained(gone)
    BY <2>1, <2>3, <2>6 DEF InRounds, RowsInRounds, Done
  <2>9. read.since \in Nat
    BY <2>2, ReadIsNumbers DEF SInv, IInv
  <2>10. Keys(RowKeys) /\ Keys(GoneKeys) /\ Rounds \in Nat
    BY <2>9, KeysOfRead, RoundsFit DEF SInv, IInv
  <2> HIDE DEF n
  <2>11. n + 1 < Rounds
    BY <1>2, <2>8, <2>10, DrainedTogether DEF Rounds
  <2>12. /\ AtPage(RowKeys, NextAt(read.rows.page), n + 1)
         /\ AtPage(GoneKeys, NextAt(read.gone.page), n + 1)
    BY <2>8, <2>10, PageTurns
  <2> HIDE DEF got, gone
  <2>13. Spare \in Nat
    BY <2>6 DEF InBudget
  <2>14. InBudget'
    BY <2>3, <2>4, <2>6, <2>8, <2>10, <2>11, <2>13 DEF InBudget
  <2>15. /\ RowKeys' = RowKeys /\ GoneKeys' = GoneKeys /\ Rounds' = Rounds
         /\ Done' = read.requests
    BY <2>1, <2>3, SameKeys DEF Done
  <2>16. InRounds'
    BY <2>3, <2>4, <2>8, <2>11, <2>12, <2>15 DEF InRounds
  <2> QED
    BY <2>7, <2>14, <2>16
<1> QED
  BY <1>1, <1>2

(* Each full page brings the cursor past at least one copy.                *)
LEMMA FullKeepsPace ==
  ASSUME SInv, PaceInv, TakeFullPage
  PROVE  PaceInv'
<1>0. FullFound = Found({[id |-> c, xid |-> None] : c \in VisibleRows},
                        [xid |-> None, id |-> read.cursor])
      /\ FullPage = Page(FullFound)
  BY DEF FullFound, FullKeys, FullPage
<1>1. CASE Drained(FullFound)
  BY <1>0, <1>1, FreshPace DEF TakeFullPage, FinishRead
<1>2. CASE ~Drained(FullFound)
  <2>1. /\ read.phase = "full" /\ UNCHANGED db /\ quiet' = quiet
    BY DEF TakeFullPage
  <2>2. Shape(read) /\ Underway
    BY <2>1 DEF SInv, ReadShape, Underway
  <2> DEFINE clean == IF read.deleted = Unknown THEN read
                      ELSE [read EXCEPT !.items = <<>>, !.deleted = Unknown, !.xid = None]
             taken == [clean EXCEPT !.items = Over(AsItems(FullPage), @),
                                    !.xid = IF @ = None THEN read.safe ELSE @]
  <2>3. read' = [taken EXCEPT !.phase = "check", !.pin = None,
                              !.cursor = LastOf(FullPage).id,
                              !.rowAt = Start, !.goneAt = Start]
    BY <1>0, <1>2 DEF TakeFullPage
  <2>4. /\ read'.phase = "check" /\ read'.cursor = LastOf(FullPage).id
        /\ read'.requests = read.requests /\ read'.most = read.most
    <3>1. /\ DOMAIN clean = ReadFields
          /\ clean.requests = read.requests /\ clean.most = read.most
      BY <2>2 DEF Shape, ReadFields
    <3> HIDE DEF clean
    <3>2. /\ DOMAIN taken = ReadFields
          /\ taken.requests = read.requests /\ taken.most = read.most
      BY <3>1 DEF ReadFields
    <3> HIDE DEF taken
    <3> QED
      BY <2>3, <3>2 DEF ReadFields
  <2> DEFINE last == LastOf(FullPage).id
  <2>5. /\ last \in Copies /\ last \in Nat /\ last > read.cursor /\ read.cursor \in Nat
        /\ last # None
    <3>1. VisibleRows \subseteq Copies
      BY DEF VisibleRows, Existing
    <3>2. read.cursor \in Nat
      BY <2>2 DEF Shape
    <3>3. last \in VisibleRows /\ last \in Nat /\ last > read.cursor
      BY <1>2, <2>2, FullPageIs
    <3> HIDE DEF last
    <3> QED
      BY <3>1, <3>2, <3>3 DEF None
  <2> HIDE DEF last
  <2>6. Underway' /\ Spare' = Spare /\ read'.cursor = last /\ UpTo(read.cursor)' = UpTo(last)
    BY <2>4 DEF Underway, Spare, last, UpTo
  <2>7. SUFFICES ASSUME quiet PROVE InBudget' /\ InRounds' /\ RowsInRounds'
    BY <2>1, <2>4, <2>6 DEF PaceInv
  <2>8. InBudget /\ read.requests \in Nat /\ read.requests > 0 /\ Spare \in Nat
    BY <2>1, <2>2, <2>7 DEF PaceInv, InBudget
  <2>9. /\ Cardinality(UpTo(last)) \in Nat /\ Cardinality(UpTo(read.cursor)) \in Nat
        /\ Cardinality(UpTo(read.cursor)) + 1 <= Cardinality(UpTo(last))
    <3>1. IsFiniteSet(UpTo(last)) /\ IsFiniteSet(UpTo(read.cursor))
      BY CopiesAreNumbers, FS_Subset DEF UpTo
    <3>2. UpTo(read.cursor) \cup {last} \subseteq UpTo(last) /\ last \notin UpTo(read.cursor)
      <4>1. \A c \in Copies : c \in Nat /\ (c <= read.cursor => c <= last)
        BY <2>5, CopiesAreNumbers
      <4>2. last <= last /\ ~(last <= read.cursor)
        BY <2>5
      <4> QED
        BY <2>5, <4>1, <4>2 DEF UpTo
    <3>3. Cardinality(UpTo(read.cursor) \cup {last}) = Cardinality(UpTo(read.cursor)) + 1
      BY <3>1, <3>2, FS_AddElement
    <3>4. Cardinality(UpTo(read.cursor) \cup {last}) <= Cardinality(UpTo(last))
      BY <3>1, <3>2, FS_Subset
    <3> QED
      BY <3>1, <3>3, <3>4, FS_CardinalityType
  <2>10. InBudget'
    BY <2>1, <2>4, <2>5, <2>6, <2>8, <2>9 DEF InBudget
  <2>11. InRounds' /\ RowsInRounds'
    BY <2>4, <2>5, <2>6 DEF InRounds, RowsInRounds
  <2> QED
    BY <2>10, <2>11
<1> QED
  BY <1>1, <1>2

LEMMA ServerKeepsPace ==
  ASSUME SInv, PaceInv, Server
  PROVE  PaceInv'
<1>1. Underway => read.since \in Nat
  BY ReadIsNumbers DEF SInv, IInv
<1>2. pruned \in Nat
  BY TablesAreNumbers DEF SInv, IInv
<1>3. CASE Begin
  <2>1. UNCHANGED <<rows, tombs, pruned, members, read, quiet>>
    BY <1>3 DEF Begin, client, history
  <2>2. Reachable(Viewer)' = Reachable(Viewer)
    BY <2>1 DEF Reachable
  <2> QED
    BY <1>1, <1>2, <2>1, <2>2, PaceStays DEF SInv, IInv
<1>4. ASSUME NEW x \in active, Write(x) PROVE PaceInv'
  <2>1. Committed(x)
    BY <1>4, WriteCommits DEF SInv, IInv
  <2>2. read' = read /\ pruned <= pruned'
    BY <2>1 DEF Committed, client, DbStep, Tables
  <2>3. pruned' \in Nat
    <3>1. \A c \in Copies : tombs[c] # Absent => tombs[c].xid \in Nat
      BY TablesAreNumbers DEF Numbers, Tables, SInv, IInv
    <3> QED
      BY <1>2, <2>1, <3>1 DEF Committed
  <2>4. ASSUME quiet', NEW c \in Copies, tombs'[c] # tombs[c]
        PROVE  tombs[c] # Absent /\ tombs'[c] = Absent /\ tombs[c].xid <= pruned'
    <3>1. tombs'[c] = Absent
      BY <2>1, <2>4 DEF Committed
    <3>2. CopyStep(Tables, Tables', c, x)
      BY <2>1 DEF Committed, DbStep
    <3> QED
      BY <2>4, <3>1, <3>2 DEF CopyStep, Tables
  <2>5. quiet' => quiet /\ rows' = rows /\ Reachable(Viewer)' = Reachable(Viewer)
    BY <2>1 DEF Committed
  <2> QED
    BY <1>1, <2>2, <2>3, <2>4, <2>5, PaceStays DEF SInv, IInv
<1> QED
  BY <1>3, <1>4 DEF Server

LEMMA NextKeepsPace ==
  ASSUME SInv, PaceInv, [Next]_vars
  PROVE  PaceInv'
<1>1. ASSUME UNCHANGED <<db, read, quiet>> PROVE PaceInv'
  <2>1. UNCHANGED <<rows, tombs, pruned, members, read, quiet>>
    BY <1>1 DEF db
  <2>2. /\ Reachable(Viewer)' = Reachable(Viewer) /\ pruned \in Nat
        /\ Underway => read.since \in Nat
    BY <2>1, TablesAreNumbers, ReadIsNumbers DEF Reachable, SInv, IInv
  <2> QED
    BY <2>1, <2>2, PaceStays DEF SInv, IInv
<1>2. CASE RefreshLists \/ UNCHANGED vars
  <2>1. UNCHANGED <<db, read, quiet>>
    BY <1>2 DEF RefreshLists, vars, client, history
  <2> QED
    BY <1>1, <2>1
<1>3. CASE StartRead \/ AbandonRead
  BY <1>3, FreshPace DEF StartRead, AbandonRead
<1>4. CASE ReadStep
  BY <1>4, CheckKeepsPace, PageKeepsPace, DeltaKeepsPace, FallBackKeepsPace, FullKeepsPace
     DEF ReadStep
<1>5. ASSUME NEW again, NEW cached, Settle(again, cached), UNCHANGED db PROVE PaceInv'
  BY <1>1, <1>5, FreshPace DEF Settle
<1>6. CASE OwnWrite
  <2>1. ASSUME NEW op, NEW c, NEW h, Send(op, c, h) PROVE PaceInv'
    <3>1. UNCHANGED <<db, read, quiet>>
      BY <2>1 DEF Send, client, history
    <3> QED
      BY <1>1, <3>1
  <2>2. CASE TakeAnswer
    BY <1>5, <2>2 DEF TakeAnswer
  <2>3. CASE GiveUp
    BY <1>5, <2>3 DEF GiveUp
  <2> QED
    BY <1>6, <2>1, <2>2, <2>3 DEF OwnWrite
<1> QED
  BY <1>2, <1>3, <1>4, <1>6, ServerKeepsPace DEF Next

(* A read beside which nothing is committed keeps within the bound: the    *)
(* rounds of its two channels end together in time, and its full pages     *)
(* come to an end with the copies.                                         *)
THEOREM ReadsStayBounded == Spec => []ReadsAreBounded
<1>1. Init => PaceInv
  BY DEF Init, PaceInv, Underway, NoRead
<1>2. SInv /\ PaceInv /\ [Next]_vars => PaceInv'
  BY NextKeepsPace
<1>3. PaceInv => ReadsAreBounded
  <2> SUFFICES ASSUME PaceInv, quiet PROVE read.requests <= read.most
    BY DEF ReadsAreBounded
  <2>1. read.requests \in Nat /\ read.most \in Nat
    BY DEF PaceInv
  <2>2. CASE read.requests = 0
    BY <2>1, <2>2
  <2>3. CASE read.requests > 0
    <3>1. InBudget
      BY <2>1, <2>3 DEF PaceInv
    <3>2. IsFiniteSet(Copies) /\ UpTo(read.cursor) \subseteq Copies
      BY CopiesAreNumbers DEF UpTo
    <3>3. Cardinality(UpTo(read.cursor)) <= Cardinality(Copies)
      BY <3>2, FS_Subset
    <3>4. Cardinality(UpTo(read.cursor)) \in Nat /\ Cardinality(Copies) \in Nat
      BY <3>2, FS_Subset, FS_CardinalityType
    <3> QED
      BY <2>1, <2>3, <3>1, <3>3, <3>4 DEF InBudget, Spare
  <2> QED
    BY <2>1, <2>2, <2>3
<1> QED
  BY StoreInvariant, <1>1, <1>2, <1>3, PTL DEF Spec
=============================================================================
