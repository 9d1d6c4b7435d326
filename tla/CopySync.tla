------------------------------ MODULE CopySync ------------------------------
(***************************************************************************)
(* The incremental synchronisation of a user's copies: the transaction ids *)
(* stamped on rows, the tombstones the triggers write, the pages GET       *)
(* /copies answers a watermark with, the merge in the web client, and the  *)
(* client's own writes, which go into its store without a read.            *)
(*                                                                         *)
(* A transaction has its id from its first write or row lock, and its      *)
(* effects show when it commits, in whatever order transactions commit.    *)
(* Every owner - a user or a group - has one collection.  The client under *)
(* study has one write of its own in flight at a time; the other writes    *)
(* come from other devices and other users.                                *)
(***************************************************************************)
EXTENDS Naturals, FiniteSets, FiniteSetsExt

CONSTANTS
  Users, Groups,
  Viewer,        \* whose client is studied
  Copies,        \* copy ids, in the order of the full list
  PageLimit,     \* the rows of a page
  InitHome,      \* where the copies are at the start, Absent for none
  Absent,        \* no copy row, no tombstone
  Unknown,       \* a list or a store the client does not have yet
  Written,       \* bound on the copies that are written
  OwnOps,        \* bound on the writes of the client under study
  MaxXid         \* bound on the transactions that write

Homes == Users \cup Groups
None  == 0       \* no watermark, no keyset

ASSUME SyncAssumption ==
  /\ Viewer \in Users /\ Users \cap Groups = {}
  /\ Copies \subseteq Nat \ {0} /\ IsFiniteSet(Copies)
  /\ PageLimit \in Nat \ {0} /\ MaxXid \in Nat /\ Written \subseteq Copies
  /\ OwnOps \subseteq {"add", "move", "dispose"}
  /\ Absent \notin Homes /\ InitHome \in [Copies -> Homes \cup {Absent}]
  /\ Absent \notin [home : Homes, reserved : BOOLEAN, xid : Nat]
  /\ Absent \notin [owner : Homes, xid : Nat]
  /\ \A S \in (SUBSET Copies) \cup (SUBSET Homes) : S # Unknown

VARIABLES
  nextXid,   \* the next transaction id
  active,    \* ids of transactions that have not ended
  rows,      \* copies
  tombs,     \* copy_deletions: at most one row per copy
  pruned,    \* copy_deletion_sweep.pruned_through_xid
  members    \* friend_group_members

VARIABLES
  lists,     \* the collections the client has cached
  known,     \* syncedCollectionIds
  store,     \* the copies in the client's store
  synced,    \* syncedXid
  read,      \* the copies read in progress, with a count of its requests
  mine       \* the client's write in flight, and what its watcher has seen

VARIABLES    \* history, read by the properties only
  quiet,     \* nothing changed since the last read began
  blind,     \* what overlooked a change of access: the read, the store
  replaced,  \* copies whose tombstone was replaced by another owner's
  inverted,  \* copies stamped below their tombstone
  overtaken, \* copies the client wrote into its store against the database's
  own        \* the client's last write that was confirmed

db      == <<nextXid, active, rows, tombs, pruned, members>>
client  == <<lists, known, store, synced, read>>
history == <<quiet, blind, replaced, inverted, overtaken, own>>
vars    == <<db, client, mine, history>>

Row(h, r, x) == [home |-> h, reserved |-> r, xid |-> x]
Start        == [xid |-> None, id |-> None]

NoRead == [phase |-> "idle", since |-> None, accessible |-> Unknown, cursor |-> None,
           pin |-> None, rowAt |-> Start, goneAt |-> Start, safe |-> None,
           rows |-> Unknown, gone |-> Unknown, items |-> <<>>, deleted |-> Unknown,
           xid |-> None, previous |-> Unknown, requests |-> 0, most |-> 0]
NoWrite == [op |-> "none", copy |-> None, home |-> Absent, xid |-> None,
            fetched |-> FALSE]
NoOwn   == [op |-> "none", copy |-> None, home |-> Absent, xid |-> None, settled |-> TRUE]
ReadOnly == [NoOwn EXCEPT !.op = "off"]   \* bound: a client that never writes

Init ==
  /\ nextXid = 2 /\ active = {}
  /\ rows = [c \in Copies |-> IF InitHome[c] = Absent THEN Absent
                                                     ELSE Row(InitHome[c], FALSE, 1)]
  /\ tombs = [c \in Copies |-> Absent]
  /\ pruned = None
  /\ members = [g \in Groups |-> Users]
  /\ lists = Unknown /\ known = Unknown /\ store = Unknown
  /\ synced = None /\ read = NoRead
  /\ mine = NoWrite
  /\ quiet = FALSE /\ blind = {} /\ replaced = {} /\ inverted = {}
  /\ overtaken = {} /\ own \in {NoOwn, ReadOnly}

-----------------------------------------------------------------------------
(* Writers *)

Reachable(u) == {u} \cup {g \in Groups : u \in members[g]}
Existing     == {c \in Copies : rows[c] # Absent}

(* pg_current_xact_id assigns the id; everything below the safe id ended.  *)
Begin ==
  /\ nextXid <= MaxXid
  /\ nextXid' = nextXid + 1
  /\ active' = active \cup {nextXid}
  /\ UNCHANGED <<rows, tombs, pruned, members, client, mine, history>>

Rollback(x) ==
  /\ x \in active /\ active' = active \ {x}
  /\ UNCHANGED <<nextXid, rows, tombs, pruned, members, client, history>>

(* A committed change of rows and tombstones.                              *)
Ended(x) == x \in active /\ active' = active \ {x}
Commit(x, newRows, newTombs) ==
  /\ Ended(x)
  /\ rows' = newRows
  /\ tombs' = newTombs
  /\ quiet' = FALSE
  /\ replaced' = replaced \cup {c \in Copies : /\ tombs[c] # Absent
                                               /\ newTombs[c] # Absent
                                               /\ newTombs[c].owner # tombs[c].owner}
  /\ inverted' = inverted \cup {c \in Copies : /\ newRows[c] # Absent
                                               /\ newTombs[c] # Absent
                                               /\ newRows[c].xid < newTombs[c].xid}
  /\ UNCHANGED <<nextXid, pruned, client, overtaken>>

(* trg_copies_record_deletion and trg_copies_record_scope_change: the      *)
(* tombstone of a copy is replaced, owner and all.                         *)
Buried(c, x) == [tombs EXCEPT ![c] = [owner |-> rows[c].home, xid |-> x]]

(* The id is a new uuid, so never one that has a tombstone.                *)
AddCopy(x, u, c, h) ==
  /\ c \notin Existing /\ tombs[c] = Absent /\ h \in Reachable(u)
  /\ Commit(x, [rows EXCEPT ![c] = Row(h, FALSE, x)], tombs)
  /\ UNCHANGED <<members, blind, own>>

(* moveCopies to another owner's collection.                               *)
MoveCopy(x, u, c, h) ==
  /\ c \in Existing /\ h # rows[c].home /\ {h, rows[c].home} \subseteq Reachable(u)
  /\ h \in Groups => ~rows[c].reserved
  /\ Commit(x, [rows EXCEPT ![c] = Row(h, @.reserved, x)], Buried(c, x))
  /\ UNCHANGED <<members, blind, own>>

(* A reservation or loan made or ended: trg_touch_pinned_copy stamps the   *)
(* copy.  It stands for every change of a copy that keeps its owner.       *)
TouchCopy(x, c) ==
  /\ c \in Existing /\ rows[c].home \in Users
  /\ Commit(x, [rows EXCEPT ![c] = Row(@.home, ~@.reserved, x)], tombs)
  /\ UNCHANGED <<members, blind, own>>

DisposeCopy(x, u, c) ==
  /\ c \in Existing /\ rows[c].home \in Reachable(u) /\ ~rows[c].reserved
  /\ Commit(x, [rows EXCEPT ![c] = Absent], Buried(c, x))
  /\ UNCHANGED <<members, blind, own>>

OwnForgotten == IF own = ReadOnly THEN own ELSE NoOwn

(* A change of access while a read is in progress.                         *)
Overlooked == IF read.phase = "idle" THEN blind ELSE blind \cup {"read"}

(* Deleting a group cascades to its collection: its trigger writes the     *)
(* tombstones while the owner is still known.                              *)
DeleteGroup(x, g) ==
  LET pooled == {c \in Existing : rows[c].home = g}
  IN  /\ members[g] # {}
      /\ Commit(x, [c \in Copies |-> IF c \in pooled THEN Absent ELSE rows[c]],
                   [c \in Copies |-> IF c \in pooled THEN [owner |-> g, xid |-> x]
                                                     ELSE tombs[c]])
      /\ members' = [members EXCEPT ![g] = {}]
      /\ blind' = IF Viewer \in members[g] THEN Overlooked ELSE blind
      /\ own' = OwnForgotten

(* purgeDeletionsOlderThan, for the tombstones past the retention time.    *)
Purge(x, old) ==
  LET through == Max({tombs[c].xid : c \in old})
  IN  /\ Ended(x) /\ old # {}
      /\ pruned' = IF through > pruned THEN through ELSE pruned
      /\ tombs' = [c \in Copies |-> IF c \in old THEN Absent ELSE tombs[c]]
      /\ UNCHANGED <<nextXid, rows, members, client, history>>

(* Membership changes stamp no copy and write no tombstone.                *)
ChangeMembership(x, g, present) ==
  /\ Ended(x)
  /\ members' = [members EXCEPT ![g] = IF present THEN @ \cup {Viewer}
                                                  ELSE @ \ {Viewer}]
  /\ quiet' = FALSE
  /\ blind' = Overlooked
  /\ own' = OwnForgotten
  /\ UNCHANGED <<nextXid, rows, tombs, pruned, client, replaced, inverted, overtaken>>

LeaveGroup(x, g) ==
  Viewer \in members[g] /\ members[g] # {Viewer} /\ ChangeMembership(x, g, FALSE)
JoinGroup(x, g) ==
  Viewer \notin members[g] /\ members[g] # {} /\ ChangeMembership(x, g, TRUE)

-----------------------------------------------------------------------------
(* The server's answer to one page request *)

(* pg_snapshot_xmin                                                        *)
SafeXid_LastCommitted == nextXid
SafeXid ==
  CHOOSE x \in active \cup {nextXid} : \A y \in active \cup {nextXid} : x <= y

PinWatermark(pin) == IF pin # None /\ pin < SafeXid THEN pin ELSE SafeXid

After(k, at)  == k.xid > at.xid \/ (k.xid = at.xid /\ k.id > at.id)
InWindow(x)   == read.since <= x /\ x < read.pin
(* A keyset page, cut from the rows past the last one, and whether the     *)
(* extra row was missing that tells that another page follows.             *)
Found(keys, at) == {k \in keys : After(k, at)}
Page(found)     == {k \in found : Cardinality({j \in found : After(k, j)}) < PageLimit}
Drained(found)  == Cardinality(found) <= PageLimit
LastOf(page)    == CHOOSE k \in page : \A j \in page : ~After(j, k)
Ids(page)       == {k.id : k \in page}

VisibleRows == {c \in Existing : rows[c].home \in Reachable(Viewer)}
ToCopy(row) == [home |-> row.home, reserved |-> row.reserved]
AsItems(page) == [c \in Ids(page) |-> ToCopy(rows[c])]
Over(top, under) ==
  [c \in DOMAIN top \cup DOMAIN under |-> IF c \in DOMAIN top THEN top[c] ELSE under[c]]

-----------------------------------------------------------------------------
(* The client's read, page by page *)

RefreshLists ==
  /\ lists' = Reachable(Viewer)
  /\ UNCHANGED <<db, known, store, synced, read, mine, history>>

GainedAccess ==
  known # Unknown /\ lists # Unknown /\ \E h \in lists : h \notin known
ReachableUnknown == known = Unknown /\ lists # Unknown

(* The queryFn reads its cached rows when it starts.                       *)
Started(cached) ==
  [NoRead EXCEPT !.phase = "check", !.accessible = lists, !.previous = cached,
                 !.since = IF cached = Unknown \/ GainedAccess \/ ReachableUnknown
                           THEN None ELSE synced]
Outdated == IF lists \in {Unknown, Reachable(Viewer)} THEN {} ELSE {"read"}
StartHistory ==
  /\ quiet' = (active = {} /\ lists = Reachable(Viewer))
  /\ blind' = (blind \ {"read"}) \cup Outdated

(* watchForRefetchRace counts the reads that start or land while the write *)
(* is in flight.                                                           *)
Watched == IF mine.op = "none" THEN mine ELSE [mine EXCEPT !.fetched = TRUE]

StartRead ==
  /\ read.phase = "idle"
  /\ read' = Started(store)
  /\ mine' = Watched
  /\ StartHistory
  /\ UNCHANGED <<db, lists, known, store, synced, replaced, inverted, overtaken, own>>

(* A bound on the requests of a read, from what is to be read: a channel   *)
(* that is drained starts over until the other is drained on the same page. *)
Most(since) ==
  (Cardinality({c \in Existing : rows[c].xid >= since}) + 1)
  * (Cardinality({c \in Copies : tombs[c] # Absent /\ tombs[c].xid >= since}) + 1)
  + Cardinality(Copies) + 1

(* A watermark the tombstones do not reach back to is answered in full.    *)
Covered(since) == since > pruned
CheckWatermark ==
  LET delta == read.since # None /\ read.since <= SafeXid /\ Covered(read.since)
  IN  /\ read.phase = "check"
      /\ read' = [read EXCEPT !.phase = IF delta THEN "delta" ELSE "full",
                              !.safe = SafeXid, !.pin = PinWatermark(read.pin),
                              !.rows = Unknown, !.gone = Unknown,
                              !.requests = @ + 1,
                              !.most = IF read.requests = 0 THEN Most(read.since) ELSE @]
      /\ UNCHANGED <<db, lists, known, store, synced, mine, history>>

(* listChangedForAccessibleCollections and deletionsSince run at once, on  *)
(* connections of their own.                                               *)
ReadChanged ==
  LET keys == {[id |-> c, xid |-> rows[c].xid] :
                 c \in {d \in VisibleRows : InWindow(rows[d].xid)}}
      found == Found(keys, read.rowAt)
  IN  /\ read.phase = "delta" /\ read.rows = Unknown
      /\ read' = [read EXCEPT !.rows = [page |-> Page(found), drained |-> Drained(found),
                                        items |-> AsItems(Page(found))]]
      /\ UNCHANGED <<db, lists, known, store, synced, mine, history>>

ReadDeletions ==
  LET visible == {c \in Copies : tombs[c] # Absent /\ tombs[c].owner \in Reachable(Viewer)}
      keys == {[id |-> c, xid |-> tombs[c].xid] :
                 c \in {d \in visible : InWindow(tombs[d].xid)}}
      found == Found(keys, read.goneAt)
  IN  /\ read.phase = "delta" /\ read.gone = Unknown
      /\ read' = [read EXCEPT !.gone = [page |-> Page(found), drained |-> Drained(found)]]
      /\ UNCHANGED <<db, lists, known, store, synced, mine, history>>

(* The keyset of the next page; a page without rows has no last row and    *)
(* leaves none, so that channel starts over.                               *)
NextAt_Forgotten(page) == Start
NextAt(page) == IF page = {} THEN Start ELSE LastOf(page)

(* mergeCopiesDelta                                                        *)
MergeDelta(r, previous) ==
  Over(r.items, [c \in DOMAIN previous \ r.deleted |-> previous[c]])

(* The queryFn of the store, once its pages are in.                        *)
FinishRead(r) ==
  LET full   == r.since = None \/ r.deleted = Unknown
      result == IF full THEN r.items ELSE MergeDelta(r, r.previous)
      lost   == IF known = Unknown \/ r.accessible = Unknown THEN {}
                ELSE known \ r.accessible
  IN  /\ store'  = [c \in {d \in DOMAIN result : result[d].home \notin lost} |-> result[c]]
      /\ synced' = IF r.xid = None THEN synced ELSE r.xid
      /\ known'  = IF r.accessible = Unknown THEN known ELSE r.accessible
      /\ read'   = NoRead
      /\ mine'   = Watched
      /\ own'    = [own EXCEPT !.settled = TRUE]
      /\ overtaken' = IF full THEN {} ELSE overtaken
      /\ blind'  = IF "read" \in blind \/ (~full /\ blind # {}) THEN {"store"} ELSE {}

(* The tombstones may have been purged while the page was read.            *)
StillCovered_NotAsked(since) == TRUE
StillCovered(since) == Covered(since)
TakeDeltaPage ==
  LET drained == read.rows.drained /\ read.gone.drained
      before  == IF read.deleted = Unknown THEN {} ELSE read.deleted
      taken   == [read EXCEPT !.items = Over(read.rows.items, @),
                              !.deleted = before \cup Ids(read.gone.page)]
  IN  /\ read.phase = "delta" /\ read.rows # Unknown /\ read.gone # Unknown
      /\ StillCovered(read.since)
      /\ IF drained THEN FinishRead([taken EXCEPT !.xid = read.pin])
         ELSE /\ read' = [taken EXCEPT !.phase = "check", !.rowAt = NextAt(read.rows.page),
                                       !.goneAt = NextAt(read.gone.page)]
              /\ UNCHANGED <<store, synced, known, mine, own, overtaken, blind>>
      /\ UNCHANGED <<db, lists, quiet, replaced, inverted>>

FallBack ==
  /\ read.phase = "delta" /\ read.rows # Unknown /\ read.gone # Unknown
  /\ ~StillCovered(read.since)
  /\ read' = [read EXCEPT !.phase = "full"]
  /\ UNCHANGED <<db, lists, known, store, synced, mine, history>>

(* A full page.  Delta pages already taken are not part of the full list;  *)
(* the watermark is that of the first full page.                           *)
TakeFullPage ==
  LET keys  == {[id |-> c, xid |-> None] : c \in VisibleRows}
      found == Found(keys, [xid |-> None, id |-> read.cursor])
      clean == IF read.deleted = Unknown THEN read
               ELSE [read EXCEPT !.items = <<>>, !.deleted = Unknown, !.xid = None]
      taken == [clean EXCEPT !.items = Over(AsItems(Page(found)), @),
                             !.xid = IF @ = None THEN read.safe ELSE @]
  IN  /\ read.phase = "full"
      /\ IF Drained(found) THEN FinishRead(taken)
         ELSE /\ read' = [taken EXCEPT !.phase = "check", !.pin = None,
                            !.cursor = LastOf(Page(found)).id,
                            !.rowAt = Start, !.goneAt = Start]
              /\ UNCHANGED <<store, synced, known, mine, own, overtaken, blind>>
      /\ UNCHANGED <<db, lists, quiet, replaced, inverted>>

(* A lost connection, or a refetch that cancels the one in flight.         *)
AbandonRead ==
  /\ read.phase # "idle"
  /\ read' = NoRead
  /\ quiet' = FALSE
  /\ blind' = blind \ {"read"}
  /\ UNCHANGED <<db, lists, known, store, synced, mine, replaced, inverted, overtaken, own>>

-----------------------------------------------------------------------------
(* The client's own write: sent, served in a transaction, and written into *)
(* the store when the answer arrives.                                      *)

Send(op, c, h) ==
  /\ mine = NoWrite /\ store # Unknown /\ lists # Unknown /\ h \in lists
  /\ op \in OwnOps /\ own # ReadOnly
  /\ CASE op = "add"     -> c \notin Existing \cup DOMAIN store /\ tombs[c] = Absent
       [] op = "move"    -> c \in DOMAIN store /\ store[c].home # h
       [] op = "dispose" -> c \in DOMAIN store /\ store[c].home = h
  /\ mine' = [NoWrite EXCEPT !.op = op, !.copy = c, !.home = h]
  /\ UNCHANGED <<db, client, history>>

Serve(x) ==
  /\ mine.op # "none" /\ mine.xid = None
  /\ \/ mine.op = "add" /\ AddCopy(x, Viewer, mine.copy, mine.home)
     \/ mine.op = "move" /\ MoveCopy(x, Viewer, mine.copy, mine.home)
     \/ mine.op = "dispose" /\ DisposeCopy(x, Viewer, mine.copy)
  /\ mine' = [mine EXCEPT !.xid = x]

(* settleRefetchRace: a read that ran beside the write is started again.   *)
Raced_RunningIgnored == mine.fetched
Raced == mine.fetched \/ read.phase # "idle"
Settle(again, cached) ==
  /\ mine' = NoWrite
  /\ IF again THEN read' = Started(cached) /\ StartHistory
              ELSE UNCHANGED <<read, quiet, blind>>

(* writeUpsert, writeUpdate - which skips a row that is gone - and         *)
(* writeDelete.                                                            *)
Stored ==
  LET c == mine.copy
  IN  CASE mine.op = "add"     -> [d \in DOMAIN store \cup {c} |->
                                     IF d = c THEN [home |-> mine.home, reserved |-> FALSE]
                                              ELSE store[d]]
        [] mine.op = "move"    -> [d \in DOMAIN store |->
                                     IF d = c
                                     THEN [home |-> mine.home, reserved |-> store[d].reserved]
                                     ELSE store[d]]
        [] mine.op = "dispose" -> [d \in DOMAIN store \ {c} |-> store[d]]

(* What the answer says may no longer stand; and a copy put into a         *)
(* collection that the last read did not know is dropped by no later delta *)
(* if access is lost before a read has noticed that it was gained.         *)
TakeAnswer ==
  LET c == mine.copy
      stands == IF mine.op = "dispose" THEN rows[c] = Absent
                ELSE /\ rows[c] # Absent /\ rows[c].xid = mine.xid
                     /\ known # Unknown /\ mine.home \in known
  IN  /\ mine.xid # None
      /\ store' = Stored
      /\ Settle(Raced, Stored)
      /\ overtaken' = IF stands THEN overtaken ELSE overtaken \cup {c}
      /\ own' = IF mine.op = "move" /\ c \notin DOMAIN store THEN NoOwn
                 ELSE [op |-> mine.op, copy |-> c, home |-> mine.home, xid |-> mine.xid,
                       settled |-> ~Raced]
      /\ UNCHANGED <<db, lists, known, synced, replaced, inverted>>

(* A refusal, or an answer that never comes: the row shown meanwhile goes, *)
(* and a failed add reads again.                                           *)
GiveUp ==
  /\ mine.op # "none"
  /\ Settle(Raced \/ mine.op = "add", store)
  /\ UNCHANGED <<db, lists, known, store, synced, replaced, inverted, overtaken, own>>

-----------------------------------------------------------------------------
Write(x) ==
  \/ Serve(x)
  \/ /\ UNCHANGED mine
     /\ \/ Rollback(x)
        \/ \E u \in Users, c \in Written, h \in Homes : AddCopy(x, u, c, h) \/ MoveCopy(x, u, c, h)
        \/ \E c \in Written : TouchCopy(x, c)
        \/ \E u \in Users, c \in Written : DisposeCopy(x, u, c)
        \/ \E old \in SUBSET {c \in Copies : tombs[c] # Absent} : Purge(x, old)
        \/ \E g \in Groups : LeaveGroup(x, g) \/ JoinGroup(x, g) \/ DeleteGroup(x, g)

Server == Begin \/ \E x \in active : Write(x)

ReadStep ==
  CheckWatermark \/ ReadChanged \/ ReadDeletions \/ TakeDeltaPage \/ FallBack \/ TakeFullPage

OwnWrite ==
  \/ \E op \in OwnOps, c \in Written, h \in Homes : Send(op, c, h)
  \/ TakeAnswer \/ GiveUp

Next == Server \/ RefreshLists \/ StartRead \/ ReadStep \/ AbandonRead \/ OwnWrite

Spec == Init /\ [][Next]_vars

-----------------------------------------------------------------------------
(* Properties *)

(* The client never holds a watermark that a transaction still running is  *)
(* below: what that transaction commits would be skipped by every later    *)
(* delta.                                                                  *)
WatermarkIsSafe == \A x \in active : synced <= x

Wanted == [c \in VisibleRows |-> ToCopy(rows[c])]
Agree(S) == /\ S \cap DOMAIN store = S \cap DOMAIN Wanted
            /\ \A c \in S \cap DOMAIN Wanted : store[c] = Wanted[c]
Caught == read.phase = "idle" /\ quiet /\ blind = {}

(* After a read during which nothing changed, the store holds exactly the  *)
(* copies the viewer may see, as they are - whatever was added, moved,     *)
(* pinned, deleted, purged, joined or left before, in whatever order the   *)
(* transactions committed, and however the read was cut into pages.  Not   *)
(* claimed: reads that overlooked a change of access because the cached    *)
(* list of collections was old, copies whose tombstone another owner's     *)
(* replaced (StoreIsExact), copies that a transaction touched with an older *)
(* id than that of the move it waited for, and copies that others changed  *)
(* before the client stored the answer to its own write or that it put     *)
(* into a collection the last read did not know yet.                       *)
StoreCatchesUp == Caught => Agree(Copies \ (replaced \cup inverted \cup overtaken))

(* ADR-051 says that copy_deletions records every removal and that a delta *)
(* carries the ids deleted since the watermark: then a tombstone that      *)
(* replaces another could lose nothing.                                    *)
StoreIsExact == Caught => Agree(Copies \ (inverted \cup overtaken))

(* The client's confirmed write is in its store whenever nothing is in     *)
(* flight, for as long as nobody changes the copy again: no read that ran  *)
(* beside the write puts the row of before back.  Not claimed: reads that  *)
(* overlooked a change of access, and rows a read dropped with the access. *)
OwnWritesStay ==
  LET c == own.copy
  IN  /\ own.op \in OwnOps /\ own.settled
      /\ mine = NoWrite /\ read.phase = "idle" /\ blind = {}
      =>
        IF own.op = "dispose"
        THEN rows[c] = Absent /\ tombs[c] = [owner |-> own.home, xid |-> own.xid]
             => c \notin DOMAIN store
        ELSE rows[c] # Absent /\ rows[c].xid = own.xid /\ c \in VisibleRows
             => c \in DOMAIN store /\ store[c].home = rows[c].home

(* A read beside which nothing is committed ends.  A channel that is       *)
(* drained first starts over and has to be drained again on the page that  *)
(* drains the other, so a delta may take as many requests as the product   *)
(* of the two, not the longer of them; then it may still fall back to the  *)
(* full list.  Not claimed: reads from whose windows a commit takes rows,  *)
(* which may put the two channels out of step for good.                    *)
ReadsAreBounded == quiet => read.requests <= read.most
=============================================================================
