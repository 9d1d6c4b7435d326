------------------------------ MODULE TradeTxn ------------------------------
(***************************************************************************)
(* The database transactions that contend for one giver's copies of one    *)
(* printing, statement by statement: READ COMMITTED, FOR UPDATE row locks, *)
(* advisory locks, unique indexes and the deadlock detector.               *)
(*                                                                         *)
(* CardTrades takes every operation to be atomic; here an operation reads, *)
(* waits for locks and checks again, and other transactions commit in      *)
(* between.  A statement sees what was committed when it ran plus the      *)
(* transaction's own writes, which the others see when it commits.         *)
(***************************************************************************)
EXTENDS Naturals, FiniteSets, SupplyClaims
LOCAL INSTANCE Relation

CONSTANTS
  Txns,          \* transactions that may run at the same time
  Starts,        \* what the transactions are started for, and the copies
                 \* the giver has and offers when they are
  Copies, Groups,
  Trades,        \* trade ids, oldest first
  TradeRows,     \* group, quantity and initiator of every trade
  InitPending,   \* the trades that are pending at the start
  Nobody         \* no lock holder, or no row waited for

Rows == Copies \cup Trades \cup Groups

(* The jobs, and what they are about.                                      *)
Kinds == {"accept", "offer", "cancel", "dispose", "move", "add", "lend", "reset"}
FitJob(j) ==
  /\ j.kind \in Kinds
  /\ j.kind \in {"accept", "offer", "cancel"} => j.trade \in Trades
  /\ j.kind \in {"dispose", "move", "add"}    => j.copies \subseteq Copies

ASSUME TxnAssumption ==
  /\ Trades \subseteq Nat /\ IsFiniteSet(Trades) /\ InitPending \subseteq Trades
  /\ IsFiniteSet(Copies) /\ SupplyOrder \in [Groups -> [Copies -> Nat]]
  /\ \A g \in Groups, c, d \in Copies : SupplyOrder[g][c] = SupplyOrder[g][d] => c = d
  /\ Nobody \notin Txns \cup Rows
  /\ \A t \in Trades : TradeRows[t].group \in Groups /\ TradeRows[t].quantity \in Nat
  /\ \A s \in Starts :
       /\ DOMAIN s.jobs = Txns /\ \A p \in Txns : FitJob(s.jobs[p])
       /\ s.home \subseteq Copies /\ s.offered \in [Groups -> SUBSET Copies]

VARIABLES
  db,       \* the committed rows
  job,      \* what each transaction was started for
  pc,       \* the statement each transaction runs next
  writes,   \* its writes, invisible to the others
  found,    \* the copies it last read
  wants,    \* the rows its current statement still has to lock
  awaits,   \* the row it is blocked on
  holder    \* who holds the lock of a row

vars == <<db, job, pc, writes, found, wants, awaits, holder>>

NoWrites == [pinned |-> {}, released |-> {}, lent |-> {}, deleted |-> {},
             moved |-> {}, added |-> {}, status |-> [t \in {} |-> "none"]]

(* The rows as the writer of w sees them, and as all see them once it has  *)
(* committed.  A deleted copy takes its pins, loan pins and list entries   *)
(* along; a copy moved to a group loses its list entries; an added one is  *)
(* offered at once by a rule of a trade list.                              *)
Applied(w, d) ==
  LET trade == DOMAIN w.status
  IN  [home    |-> (d.home \cup w.added) \ (w.deleted \cup w.moved),
       pooled  |-> (d.pooled \cup w.moved) \ w.deleted,
       offered |-> [g \in Groups |->
                      (d.offered[g] \cup w.added) \ (w.deleted \cup w.moved)],
       pins    |-> [t \in Trades |->
                      ((IF t \in w.released THEN {} ELSE d.pins[t]) \cup
                       {c \in Copies : <<t, c>> \in w.pinned}) \ w.deleted],
       lent    |-> (d.lent \cup w.lent) \ w.deleted,
       status  |-> [t \in Trades |-> IF t \in trade THEN w.status[t] ELSE d.status[t]]]

Seen(p)     == Applied(writes[p], db)
Reserved(d) == UNION {d.pins[t] : t \in Trades}
Existing(d) == d.home \cup d.pooled

(* giverPrintingSupply                                                     *)
Supply(d, g)  == {c \in d.offered[g] \cap Existing(d) :
                    c \notin Reserved(d) \cup d.lent}
HasAny(d, g)  == d.offered[g] \cap Existing(d) # {}
Supplies(d)   == [g \in Groups |-> Supply(d, g)]
(* listPendingForGiverPrinting                                             *)
PendingIn(d)  ==
  {[id |-> t, group |-> TradeRows[t].group, quantity |-> TradeRows[t].quantity,
    initiator |-> TradeRows[t].initiator] : t \in {s \in Trades : d.status[s] = "pending"}}

-----------------------------------------------------------------------------
(* Starting, locking, ending *)

(* The first rows a job locks, and the statement that follows.             *)
FirstRows_Unlocked(j) ==
  CASE j.kind \in {"accept", "cancel"} -> {j.trade}
    [] j.kind \in {"dispose", "move"}  -> j.copies
    [] OTHER                           -> {}
FirstRows(j) ==
  CASE j.kind \in {"accept", "cancel"} -> {j.trade}
    [] j.kind \in {"dispose", "move"}  -> j.copies
    [] j.kind = "offer"                -> {TradeRows[j.trade].group}
    [] OTHER                           -> {}
FirstStep(j) == IF j.kind \in {"accept", "lend", "reset", "offer"} THEN "read" ELSE "write"

StartDb(s) ==
  [home |-> s.home, pooled |-> {}, offered |-> s.offered,
   pins |-> [t \in Trades |-> {}], lent |-> {},
   status |-> [t \in Trades |-> IF t \in InitPending THEN "pending" ELSE "none"]]

Init ==
  /\ \E s \in Starts : job = s.jobs /\ db = StartDb(s)
  /\ pc     = [p \in Txns |-> FirstStep(job[p])]
  /\ wants  = [p \in Txns |-> FirstRows(job[p])]
  /\ writes = [p \in Txns |-> NoWrites]
  /\ found  = [p \in Txns |-> {}]
  /\ awaits = [p \in Txns |-> Nobody]
  /\ holder = [r \in Rows |-> Nobody]

(* FOR UPDATE, a guarded UPDATE or DELETE, pg_advisory_xact_lock: the rows *)
(* of a statement are locked one by one, in the order of the query plan.   *)
Lock(p, r) ==
  /\ r \in wants[p] /\ awaits[p] \in {Nobody, r}
  /\ IF holder[r] \in {Nobody, p}
       THEN /\ holder' = [holder EXCEPT ![r] = p]
            /\ wants'  = [wants EXCEPT ![p] = @ \ {r}]
            /\ awaits' = [awaits EXCEPT ![p] = Nobody]
       ELSE /\ awaits[p] = Nobody
            /\ awaits' = [awaits EXCEPT ![p] = r]
            /\ UNCHANGED <<holder, wants>>
  /\ UNCHANGED <<db, job, pc, writes, found>>

Released_Not(p) == holder
Released(p) == [r \in Rows |-> IF holder[r] = p THEN Nobody ELSE holder[r]]

Fail(p) ==
  /\ pc' = [pc EXCEPT ![p] = "failed"]
  /\ holder' = Released(p)
  /\ awaits' = [awaits EXCEPT ![p] = Nobody]
  /\ wants' = [wants EXCEPT ![p] = {}]
  /\ UNCHANGED <<db, job, writes, found>>

Commit(p, w) ==
  /\ db' = Applied(w, db)
  /\ pc' = [pc EXCEPT ![p] = "committed"]
  /\ holder' = Released(p)
  /\ UNCHANGED <<job, writes, found, wants, awaits>>

(* The statement of p that has all its locks is at step s.                 *)
At(p, s, kind) == pc[p] = s /\ wants[p] = {} /\ job[p].kind = kind

Proceed(p, s, w, copies, rows) ==
  /\ pc' = [pc EXCEPT ![p] = s]
  /\ writes' = [writes EXCEPT ![p] = w]
  /\ found' = [found EXCEPT ![p] = copies]
  /\ wants' = [wants EXCEPT ![p] = rows]
  /\ UNCHANGED <<db, job, awaits, holder>>

(* PostgreSQL aborts one transaction of a cycle of waits; nothing retries. *)
WaitsFor == [p, q \in Txns |-> awaits[p] # Nobody /\ holder[awaits[p]] = q]
InCycle(p) == TransitiveClosure(WaitsFor, Txns)[p, p]
DeadlockAbort(p) == InCycle(p) /\ Fail(p)

-----------------------------------------------------------------------------
(* acceptTrade *)

(* The trade row is locked.  With no offered copy left the trade is closed *)
(* at once; with too few free ones it stays pending.                       *)
AcceptReads(p) ==
  LET t == job[p].trade
      g == TradeRows[t].group
      d == Seen(p)
  IN  /\ At(p, "read", "accept")
      /\ IF d.status[t] # "pending" THEN Fail(p)
         ELSE IF Cardinality(Supply(d, g)) >= TradeRows[t].quantity
           THEN Proceed(p, "write", NoWrites, Supply(d, g), Supply(d, g))
         ELSE IF HasAny(d, g) THEN Fail(p)
           ELSE Proceed(p, "sweep", [NoWrites EXCEPT !.status = [s \in {t} |-> "cancelled"]],
                        {}, {})

(* The copies are locked: those that survived and were not lent meanwhile  *)
(* may be pinned.                                                          *)
Claimable_LoansIgnored(p) == found[p] \cap Existing(db)
Claimable(p) == (found[p] \cap Existing(db)) \ db.lent

(* The unique index refuses a copy that another trade pinned meanwhile.    *)
AcceptPins(p) ==
  LET t == job[p].trade
      n == TradeRows[t].quantity
  IN  /\ At(p, "write", "accept")
      /\ IF Cardinality(Claimable(p)) < n THEN Fail(p)
         ELSE \E P \in SUBSET Claimable(p) :
                /\ Cardinality(P) = n
                /\ IF P \cap Reserved(db) # {} THEN Fail(p)
                   ELSE Proceed(p, "sweep",
                          [NoWrites EXCEPT !.pinned = {t} \X P,
                                           !.status = [s \in {t} |-> "reserved"]], {}, {})

-----------------------------------------------------------------------------
(* disposeCopies, moveCopies into a group, and the sweep they share with   *)
(* acceptTrade                                                             *)

MayDispose_Reserved(p) ==
  job[p].copies \subseteq Existing(db) /\ job[p].copies \cap db.lent = {}
MayDispose(p) ==
  /\ job[p].copies \subseteq Existing(db)
  /\ job[p].copies \cap (Reserved(db) \cup db.lent) = {}
DisposeDeletes(p) ==
  /\ At(p, "write", "dispose")
  /\ IF MayDispose(p)
       THEN Proceed(p, "sweep", [NoWrites EXCEPT !.deleted = job[p].copies], {}, {})
       ELSE Fail(p)

MoveWrites(p) ==
  /\ At(p, "write", "move")
  /\ IF job[p].copies \subseteq Existing(db) /\ job[p].copies \cap Reserved(db) = {}
       THEN Proceed(p, "sweep", [NoWrites EXCEPT !.moved = job[p].copies], {}, {})
       ELSE Fail(p)

(* autoCancelUnfillablePendingTrades reads, then closes the trades it found *)
(* unfillable, each of them unless it has left "pending" in the meantime.  *)
SweepReads_OtherConnection(p) ==
  /\ pc[p] = "sweep"
  /\ Proceed(p, "close", writes[p], {},
             AutoCancelled(PendingIn(db), Supplies(db)) \ DOMAIN writes[p].status)
SweepReads(p) ==
  /\ pc[p] = "sweep"
  /\ Proceed(p, "close", writes[p], {},
             AutoCancelled(PendingIn(Seen(p)), Supplies(Seen(p))))

SweepCloses(p) ==
  LET own    == writes[p].status
      doomed == {t \in Trades : holder[t] = p} \ DOMAIN own
      closed == {t \in doomed : db.status[t] = "pending"}
  IN  /\ pc[p] = "close" /\ wants[p] = {}
      /\ Commit(p, [writes[p] EXCEPT !.status =
                      [t \in closed \cup DOMAIN own |->
                         IF t \in closed THEN "cancelled" ELSE own[t]]])

-----------------------------------------------------------------------------
(* createLoan, resetCollections, cancelTrade, addCopies, createTrade *)

LendReads(p) ==
  LET free == db.home \ (Reserved(db) \cup db.lent)
  IN  /\ At(p, "read", "lend")
      /\ IF Cardinality(free) < job[p].quantity THEN Fail(p)
         ELSE Proceed(p, "write", NoWrites, free, free)

(* The copies survived the lock and no acceptance reserved them meanwhile. *)
Lendable(p) == (found[p] \cap Existing(db)) \ Reserved(db)
LendPins(p) ==
  /\ At(p, "write", "lend")
  /\ IF Cardinality(Lendable(p)) < job[p].quantity THEN Fail(p)
     ELSE \E P \in SUBSET Lendable(p) :
            /\ Cardinality(P) = job[p].quantity
            /\ IF P \cap db.lent # {} THEN Fail(p)
               ELSE Commit(p, [NoWrites EXCEPT !.lent = P])

(* resetCollections lists the personal copies, locks and checks those it   *)
(* listed, and then deletes whatever is in a personal collection by then.  *)
ResetReads(p) ==
  At(p, "read", "reset") /\ Proceed(p, "write", NoWrites, db.home, db.home)
MayReset_Lent(p) == found[p] \cap Reserved(db) = {}
MayReset(p) == found[p] \cap (Reserved(db) \cup db.lent) = {}
ResetChecks(p) ==
  /\ At(p, "write", "reset")
  /\ IF MayReset(p) THEN Proceed(p, "delete", NoWrites, {}, db.home) ELSE Fail(p)
ResetDeletes(p) ==
  /\ At(p, "delete", "reset")
  /\ Commit(p, [NoWrites EXCEPT !.deleted = {c \in db.home : holder[c] = p}])

CancelWrites(p) ==
  LET t == job[p].trade
  IN  /\ At(p, "write", "cancel")
      /\ IF db.status[t] \in {"pending", "reserved"}
           THEN Commit(p, [NoWrites EXCEPT !.status = [s \in {t} |-> "cancelled"],
                                           !.released = {t}])
           ELSE Fail(p)

AddWrites(p) ==
  /\ At(p, "write", "add")
  /\ IF job[p].copies \cap Existing(db) = {}
       THEN Commit(p, [NoWrites EXCEPT !.added = job[p].copies])
       ELSE Fail(p)

(* createTrade by the giver, under the advisory lock of its group: the     *)
(* supply check, then the new row.                                         *)
OfferReads(p) ==
  LET t == job[p].trade
  IN  /\ At(p, "read", "offer")
      /\ IF /\ db.status[t] = "none"
            /\ TradeRows[t].quantity <=
                 AvailableCount(PendingIn(db), Supplies(db), TradeRows[t].group)
           THEN Proceed(p, "write", [NoWrites EXCEPT !.status = [s \in {t} |-> "pending"]], {}, {})
           ELSE Fail(p)
OfferWrites(p) == At(p, "write", "offer") /\ Commit(p, writes[p])

-----------------------------------------------------------------------------
Step(p) ==
  \/ \E r \in Rows : Lock(p, r)
  \/ AcceptReads(p) \/ AcceptPins(p)
  \/ DisposeDeletes(p) \/ MoveWrites(p)
  \/ SweepReads(p) \/ SweepCloses(p)
  \/ LendReads(p) \/ LendPins(p)
  \/ ResetReads(p) \/ ResetChecks(p) \/ ResetDeletes(p)
  \/ CancelWrites(p) \/ AddWrites(p) \/ OfferReads(p) \/ OfferWrites(p)

Next == \E p \in Txns : Step(p) \/ DeadlockAbort(p)

(* The database goes on as long as any transaction has a statement that    *)
(* can run or waits in a cycle; as transactions have an end, which of them *)
(* goes first need not be fair.                                            *)
Spec == Init /\ [][Next]_vars
Fairness == WF_vars(Next)
FairSpec == Spec /\ Fairness

-----------------------------------------------------------------------------
(* Properties *)

Ended == \A p \in Txns : pc[p] \in {"committed", "failed"}

(* A reserved trade keeps exactly the copies it was promised, and no other *)
(* trade has pins: whatever disposals, loans and cancellations commit      *)
(* around an acceptance, none of them takes a promised copy away.          *)
ReservedIsCovered ==
  \A t \in Trades :
    /\ db.status[t] = "reserved" => Cardinality(db.pins[t]) = TradeRows[t].quantity
    /\ db.status[t] # "reserved" => db.pins[t] = {}

(* acceptTrade and createLoan check different tables; each checks the      *)
(* other's again under the row locks, so that no copy is both promised and *)
(* lent, and the unique indexes keep a copy out of two trades.             *)
PromisedToOne ==
  /\ Reserved(db) \cap db.lent = {}
  /\ \A s, t \in Trades : s # t => db.pins[s] \cap db.pins[t] = {}

(* A copy that is out on a loan is not deleted and not forgotten.          *)
LoansKept == [][db.lent \subseteq db'.lent]_vars

(* ADR-019 says of moveCopies that the rows are locked before the check so *)
(* that a concurrent accept serializes against the move: a promised copy   *)
(* is never in a group's collection.                                       *)
PromisedAtHome == Reserved(db) \cap db.pooled = {}

Ran(kinds) == \A p \in Txns : job[p].kind \in kinds
DisposalsMeet ==
  \A p, q \in Txns : job[p].kind = "dispose" /\ job[q].kind = "dispose" =>
                       job[p].copies \cap job[q].copies # {}

NothingReleased ==
  \A p, q \in Txns : job[p].kind = "accept" /\ job[q].kind = "cancel" =>
                       job[p].trade # job[q].trade
OffersApart == \A g, h \in Groups : g # h => db.offered[g] \cap db.offered[h] = {}

(* Acceptances, cancellations and disposals that meet on a copy leave no   *)
(* trade pending that the giver's supply cannot fill: each ends with the   *)
(* sweep, and the one that commits last has seen what the others did.      *)
(* That is so if none was at the start, every group is offered the same    *)
(* copies and nobody cancels what another accepts: disposals of different  *)
(* copies, or acceptances in groups that are offered different ones, do    *)
(* not meet, and what a cancellation frees may tip the balance of others.  *)
Fillable(d) == AutoCancelled(PendingIn(d), Supplies(d)) = {}
StartsFillable ==
  \A s \in Starts : /\ Fillable(StartDb(s))
                    /\ \A g, h \in Groups : s.offered[g] = s.offered[h]
SweepsLeaveFillable ==
  Ran({"accept", "cancel", "dispose"}) /\ DisposalsMeet /\ NothingReleased => Fillable(db)

(* An offer commits supply: the offers createTrade has accepted can all be *)
(* honoured together, as long as nothing takes supply away between its     *)
(* check and its commit, and no copy is offered to two groups: their locks *)
(* do not meet.                                                            *)
Fits(d) == Unfillable(ClaimCopiesForOffers(Offers(PendingIn(d)), Supplies(d))) = {}
StartsFit == \A s \in Starts : Fits(StartDb(s))
OffersFit == Ran({"offer", "cancel", "add"}) /\ OffersApart => Fits(db)

(* No transaction waits for ever, although accept locks a trade before its *)
(* copies and the sweep locks them the other way round.                    *)
EveryTransactionEnds == <>Ended
=============================================================================
