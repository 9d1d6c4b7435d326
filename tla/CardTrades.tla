----------------------------- MODULE CardTrades -----------------------------
(***************************************************************************)
(* Friend-group card trades of one printing: the trade rows, the copies    *)
(* they reserve, partial settlement, and every other operation of the API  *)
(* that can take a copy, a member or a supply away underneath a trade.     *)
(*                                                                         *)
(* One action is one committed database transaction (the interleaving of   *)
(* transactions is the subject of module TradeTxn).  A request the API     *)
(* answers with an error changes nothing and is not an action.             *)
(*                                                                         *)
(* Trades of different printings share no copies and no rows, so a single  *)
(* printing is modelled.  A user's personal collections are one place, and *)
(* so are the collections of a group: the code tells them apart only by    *)
(* who may write to them.  A copy id that no longer exists may be used for *)
(* a new copy: nothing refers to it any more.                              *)
(***************************************************************************)
EXTENDS Naturals, Sequences, FiniteSets, SupplyClaims

CONSTANTS
  Users, Groups, Copies,
  Nowhere,       \* the place of a copy row that does not exist
  Gone,          \* a nulled group or user id on a trade row
  MaxTrades,     \* bound on the number of trade rows, splits included
  MaxAgreed,     \* bound on the number of trades created, splits left out
  MaxQuantity,   \* bound on the quantity asked of one trade
  Requests,      \* client request ids of settlements; {} when none is sent
  NoRequest,     \* a settlement sent without a request id
  InitPlace, InitOffered, InitWish,
  Collectors,    \* the users this instance lets change their collections
  Scope          \* the neighbouring components this instance lets act

TradeIds == 1..MaxTrades
Roles    == {"giver", "receiver"}
Closed   == {"completed", "declined", "cancelled", "expired"}
Statuses == {"none", "pending", "reserved"} \cup Closed
Places   == Users \cup Groups \cup {Nowhere}
Terms    == [group : Groups \cup {Gone}, giver : Users \cup {Gone},
             receiver : Users \cup {Gone}, initiator : Roles]
NoTerms  == [group |-> Gone, giver |-> Gone, receiver |-> Gone,
             initiator |-> "giver"]

ASSUME ConstantsAssumption ==
  /\ MaxTrades \in Nat /\ MaxAgreed \in Nat /\ MaxQuantity \in Nat
  /\ Users \cap Groups = {} /\ Nowhere \notin Users \cup Groups
  /\ Gone \notin Users \cup Groups \cup {Nowhere} /\ NoRequest \notin Requests
  /\ IsFiniteSet(Copies) /\ Collectors \subseteq Users
  /\ InitPlace \in [Copies -> Places]
  /\ InitOffered \in [Groups -> SUBSET Copies]
  /\ InitWish \in [Users -> Nat]
ASSUME OrderAssumption ==
  /\ SupplyOrder \in [Groups -> [Copies -> Nat]]
  /\ \A g \in Groups, c, d \in Copies : SupplyOrder[g][c] = SupplyOrder[g][d] => c = d

VARIABLES
  created,    \* the number of trade rows inserted so far
  status,     \* card_trades.status, "none" before the row exists
  terms,      \* group, parties and initiator of a trade row
  quantity,   \* card_trades.quantity
  settled,    \* the sides whose *_sync_applied_at is set
  pins,       \* card_trade_copies: the copies reserved by a trade
  requested,  \* card_trade_requested_copies
  ledger,     \* card_trade_settlement_requests
  place,      \* the owner of the collection a copy is in
  offered,    \* per group, the copies on trade lists shared with it
  lent,       \* loan_copies, per lender
  wish,       \* the quantity of a user's wish entry, 0 when it is gone
  members,    \* friend_group_members
  accounts    \* users

VARIABLES     \* history, read by the properties only
  root,       \* the trade that was agreed, for a row split off it
  agreed,     \* the quantity the trade was agreed for
  moved,      \* copies a side's settlements deleted or added, per root
  bereft,     \* pending trades one of whose named copies was deleted
  effects     \* per settlement request, the settlements it carried out

rows    == <<created, status, terms, quantity, settled, requested, ledger>>
history == <<root, agreed, moved, bereft, effects>>
groupVars == <<members, accounts>>
vars == <<rows, pins, place, offered, lent, wish, groupVars, history>>

Init ==
  /\ created   = 0
  /\ status    = [t \in TradeIds |-> "none"]
  /\ terms     = [t \in TradeIds |-> NoTerms]
  /\ quantity  = [t \in TradeIds |-> 0]
  /\ settled   = [t \in TradeIds |-> {}]
  /\ pins      = [t \in TradeIds |-> {}]
  /\ requested = [t \in TradeIds |-> {}]
  /\ ledger    = {}
  /\ place     = InitPlace
  /\ offered   = InitOffered
  /\ lent      = [u \in Users |-> {}]
  /\ wish      = InitWish
  /\ members   = [g \in Groups |-> Users]
  /\ accounts  = Users
  /\ root      = [t \in TradeIds |-> t]
  /\ agreed    = [t \in TradeIds |-> 0]
  /\ moved     = [t \in TradeIds |-> [r \in Roles |-> 0]]
  /\ bereft    = {}
  /\ effects   = [r \in Requests |-> <<>>]

-----------------------------------------------------------------------------
(* Supply and demand *)

Pinned == UNION {pins[t] : t \in TradeIds}
Lent   == UNION {lent[u] : u \in Users}

(* giverPrintingSupply: the giver's copies the group can see and that no   *)
(* reservation and no loan holds; hasAny ignores both.                     *)
Supply(g, u) == {c \in offered[g] : place[c] = u /\ c \notin Pinned \cup Lent}
HasAny(g, u) == \E c \in offered[g] : place[c] = u
SupplyByGroup == [u \in Users |-> [g \in Groups |-> Supply(g, u)]]

(* listFreePersonalMetadataForPrinting and listUnclaimedCopyIds.           *)
FreePersonal_PinsIgnored(u) == {c \in Copies : place[c] = u /\ c \notin Lent}
FreePersonal(u) == {c \in Copies : place[c] = u /\ c \notin Pinned \cup Lent}

(* listPendingForGiverPrinting: oldest first, which is the order of ids.   *)
PendingOf(u, st) ==
  {[id |-> t, group |-> terms[t].group, quantity |-> quantity[t],
    initiator |-> terms[t].initiator] :
     t \in {s \in TradeIds : st[s] = "pending" /\ terms[s].giver = u}}

(* assertSupplyAvailable; resized is the trade left out of its own claim.  *)
AssertSupplyAvailable_OffersIgnored(g, u, n, resized) ==
  n <= Cardinality(Supply(g, u))
AssertSupplyAvailable(g, u, n, resized) ==
  n <= AvailableCount({p \in PendingOf(u, status) : p.id # resized}, SupplyByGroup[u], g)

(* autoCancelUnfillablePendingTrades, run at the end of a transaction that *)
(* leaves the trade statuses st and the primed copy state.  Each           *)
(* cancellation is guarded on the row still being pending.                 *)
SweptStatus_BeforeTheChange(u, st) ==
  LET doomed == AutoCancelled(PendingOf(u, st), SupplyByGroup[u])
  IN  [t \in TradeIds |-> IF t \in doomed /\ st[t] = "pending" THEN "cancelled"
                                                              ELSE st[t]]
SweptStatus(u, st) ==
  LET doomed == AutoCancelled(PendingOf(u, st), SupplyByGroup'[u])
  IN  [t \in TradeIds |-> IF t \in doomed /\ st[t] = "pending" THEN "cancelled"
                                                              ELSE st[t]]

(* What a set of trades adds up to: its copies, counted one by one.        *)
Units(f, S) == UNION {{t} \X (1..f[t]) : t \in S}
Sum(f, S)   == Cardinality(Units(f, S))

(* The wish entry nets what firm trades already promise to its owner       *)
(* (loadPromisedIncoming, netDemandAgainstPromises).                       *)
Promised(u) == Sum(quantity, {t \in TradeIds :
                 /\ status[t] = "reserved" /\ terms[t].receiver = u
                 /\ "receiver" \notin settled[t]})
Demand(u) == IF wish[u] > Promised(u) THEN wish[u] - Promised(u) ELSE 0

(* uq_card_trades_live: the rows the partial unique index covers.          *)
HoldsLiveSlot(t) ==
  \/ status[t] = "pending"
  \/ status[t] = "reserved" /\ settled[t] = {}

Other(role) == IF role = "giver" THEN "receiver" ELSE "giver"
Party(t, role) == IF role = "giver" THEN terms[t].giver ELSE terms[t].receiver

(* requireLiveTrade: a row that lost its group or a party is finished.     *)
RequireLive(t) == Gone \notin {terms[t].group, terms[t].giver, terms[t].receiver}

(* Row ids grow with created_at, and no row is ever deleted.               *)
NextId == created + 1

-----------------------------------------------------------------------------
(* Requests, offers and their answers *)

(* createTrade: a match must exist, the live slot must be free, the giver's *)
(* supply net of live offers must suffice.  A request may exceed the       *)
(* receiver's demand and then raises the wish entry to its quantity.       *)
CreateTrade(g, giver, receiver, initiator, n, names) ==
  /\ giver # receiver /\ {giver, receiver} \subseteq members[g]
  /\ Supply(g, giver) # {} /\ Demand(receiver) > 0
  /\ \A t \in TradeIds : HoldsLiveSlot(t) =>
       <<g, giver, receiver>> # <<terms[t].group, terms[t].giver, terms[t].receiver>>
  /\ AssertSupplyAvailable(g, giver, n, 0)
  /\ initiator = "giver" => n <= Demand(receiver)
  /\ names # {} => /\ initiator = "receiver" /\ Cardinality(names) = n
                   /\ names \subseteq Supply(g, giver)
  /\ created < MaxTrades
  /\ Cardinality({t \in TradeIds : agreed[t] > 0}) < MaxAgreed
  /\ LET t == NextId
     IN  /\ status' = [status EXCEPT ![t] = "pending"]
         /\ terms' = [terms EXCEPT ![t] =
              [group |-> g, giver |-> giver, receiver |-> receiver,
               initiator |-> initiator]]
         /\ quantity' = [quantity EXCEPT ![t] = n]
         /\ requested' = [requested EXCEPT ![t] = names]
         /\ agreed' = [agreed EXCEPT ![t] = n]
  /\ created' = NextId
  /\ wish' = [wish EXCEPT ![receiver] =
                IF n > Demand(receiver) /\ n > @ THEN n ELSE @]
  /\ UNCHANGED <<settled, pins, ledger, place, offered, lent, groupVars,
                 root, moved, bereft, effects>>

(* acceptTrade, pinning P.  Named copies bind the choice; otherwise the    *)
(* giver's pick or the plainest-first default takes any copies of the      *)
(* supply.  The pins may make other pending trades of the giver unfillable. *)
AcceptTrade(t, P) ==
  LET g == terms[t].group
      u == terms[t].giver
  IN  /\ status[t] = "pending" /\ RequireLive(t)
      /\ Cardinality(Supply(g, u)) >= quantity[t]
      /\ requested[t] \subseteq Supply(g, u)
      /\ P = requested[t] \/ requested[t] = {}
      /\ requested[t] = {} =>
           P \subseteq Supply(g, u) /\ Cardinality(P) = quantity[t]
      /\ pins' = [pins EXCEPT ![t] = P]
      /\ UNCHANGED <<place, offered, lent>>
      /\ status' = SweptStatus(u, [status EXCEPT ![t] = "reserved"])
      /\ UNCHANGED <<created, terms, quantity, settled, requested, ledger, wish,
                     groupVars, history>>

(* acceptTrade when nothing is offered to the group any more: the trade is *)
(* cancelled and the giver's other pending trades are swept.               *)
AcceptVanished(t) ==
  LET g == terms[t].group
      u == terms[t].giver
  IN  /\ status[t] = "pending" /\ RequireLive(t)
      /\ Cardinality(Supply(g, u)) < quantity[t] /\ ~HasAny(g, u)
      /\ pins' = [pins EXCEPT ![t] = {}]
      /\ UNCHANGED <<place, offered, lent>>
      /\ status' = SweptStatus(u, [status EXCEPT ![t] = "cancelled"])
      /\ UNCHANGED <<created, terms, quantity, settled, requested, ledger, wish,
                     groupVars, history>>

(* acceptTrade when a named copy left the supply: cancelled, no sweep.     *)
AcceptNamedGone(t) ==
  LET available == Supply(terms[t].group, terms[t].giver)
  IN  /\ status[t] = "pending" /\ RequireLive(t)
      /\ Cardinality(available) >= quantity[t]
      /\ ~(requested[t] \subseteq available)
      /\ status' = [status EXCEPT ![t] = "cancelled"]
      /\ UNCHANGED <<created, terms, quantity, settled, pins, requested, ledger, place,
                     offered, lent, wish, groupVars, history>>

(* declineTrade, by the recipient.                                         *)
DeclineTrade(t) ==
  /\ status[t] = "pending" /\ RequireLive(t)
  /\ status' = [status EXCEPT ![t] = "declined"]
  /\ UNCHANGED <<created, terms, quantity, settled, pins, requested, ledger, place,
                 offered, lent, wish, groupVars, history>>

(* cancelTrade: the initiator while pending, either party while reserved   *)
(* and neither side has settled.                                           *)
CancelTrade(t) ==
  /\ RequireLive(t) /\ HoldsLiveSlot(t)
  /\ status' = [status EXCEPT ![t] = "cancelled"]
  /\ pins' = [pins EXCEPT ![t] = {}]
  /\ UNCHANGED <<created, terms, quantity, settled, requested, ledger, place, offered,
                 lent, wish, groupVars, history>>

(* setTradeQuantity, by the initiator: re-runs the supply check without    *)
(* the trade's own claim and drops named copies when the count changes.    *)
SetTradeQuantity(t, n) ==
  /\ status[t] = "pending" /\ RequireLive(t)
  /\ AssertSupplyAvailable(terms[t].group, terms[t].giver, n, t)
  /\ wish' = [wish EXCEPT ![terms[t].receiver] = IF 0 < @ /\ @ < n THEN n ELSE @]
  /\ quantity' = [quantity EXCEPT ![t] = n]
  /\ agreed' = [agreed EXCEPT ![t] = n]
  /\ IF n = quantity[t]
       THEN UNCHANGED <<requested, bereft>>
       ELSE /\ requested' = [requested EXCEPT ![t] = {}]
            /\ bereft' = bereft \ {t}
  /\ UNCHANGED <<created, status, terms, settled, pins, ledger, place, offered, lent,
                 groupVars, root, moved, effects>>

(* expirePending: the cron job closes whichever requests are past due.     *)
ExpirePending_NotReserved(S) ==
  /\ \A t \in S : status[t] \notin {"none", "reserved"}
  /\ status' = [t \in TradeIds |-> IF t \in S THEN "expired" ELSE status[t]]
  /\ UNCHANGED <<created, terms, quantity, settled, pins, requested, ledger, place,
                 offered, lent, wish, groupVars, history>>
ExpirePending(S) ==
  /\ \A t \in S : status[t] = "pending"
  /\ status' = [t \in TradeIds |-> IF t \in S THEN "expired" ELSE status[t]]
  /\ UNCHANGED <<created, terms, quantity, settled, pins, requested, ledger, place,
                 offered, lent, wish, groupVars, history>>

-----------------------------------------------------------------------------
(* Deleting copy rows: the foreign keys of pins, loan pins, list entries    *)
(* and named copies all cascade.  kept, shared and loans are the pins, the *)
(* offers and the loan pins that the rest of the transaction leaves.       *)
CascadeCopies(S, kept, shared, loans) ==
  /\ place' = [c \in Copies |-> IF c \in S THEN Nowhere ELSE place[c]]
  /\ offered' = [g \in Groups |-> shared[g] \ S]
  /\ lent' = [u \in Users |-> loans[u] \ S]
  /\ pins' = [t \in TradeIds |-> kept[t] \ S]
  /\ requested' = [t \in TradeIds |-> requested[t] \ S]
  /\ bereft' = bereft \cup {t \in TradeIds :
                  status[t] = "pending" /\ requested[t] \cap S # {}}
DeleteCopies(S, kept) == CascadeCopies(S, kept, offered, lent)

-----------------------------------------------------------------------------
(* Settlement.  A side settles its whole trade, or n of it: then a new row *)
(* is split off which is born settled on that side.                        *)

SettleTarget(t, n) == IF n = quantity[t] THEN t ELSE NextId

(* selectSplitPins: the pins that leave with n settled copies; those that  *)
(* are about to be deleted are always among them.                          *)
SplitPins_AnyPins(t, n, disposing) ==
  {M \in SUBSET pins[t] :
     Cardinality(M) = IF n < Cardinality(pins[t]) THEN n ELSE Cardinality(pins[t])}
SplitPins(t, n, disposing) ==
  {M \in SUBSET pins[t] :
     /\ Cardinality(M) = IF n < Cardinality(pins[t]) THEN n
                                                     ELSE Cardinality(pins[t])
     /\ disposing \cap pins[t] \subseteq M}

PinsAfterSplit(t, n, M) ==
  [pins EXCEPT ![t] = @ \ M, ![SettleTarget(t, n)] = M]

(* deleteCopiesForTrade of the settled part, once its giver has settled.   *)
GiverPins_Kept(t, n, M) == PinsAfterSplit(t, n, M)
GiverPins(t, n, M) == [PinsAfterSplit(t, n, M) EXCEPT ![SettleTarget(t, n)] = {}]

(* reserveQuantityForSplit and the quantity of the split-off row.          *)
QuantityAfter_Undiminished(t, n) == [quantity EXCEPT ![SettleTarget(t, n)] = n]
QuantityAfter_Swapped(t, n) ==
  [quantity EXCEPT ![t] = n - @, ![SettleTarget(t, n)] = n]
QuantityAfter(t, n) ==
  [quantity EXCEPT ![t] = @ - n, ![SettleTarget(t, n)] = n]

(* The sides of the target once role has settled; a split row is born with *)
(* the settled side (createSettledSplit).                                  *)
SidesAfter_BornUnsettled(t, role, n) ==
  IF n < quantity[t] THEN settled[t] ELSE settled[t] \cup {role}
SidesAfter(t, role, n) == settled[t] \cup {role}

(* loadTradeForParty, replaySettlement, assertSettleable and the guards of *)
(* the claim.  A request the ledger knows is answered from it.             *)
MaySettle(t, role, n, kind, r) ==
  /\ status[t] = "reserved" /\ RequireLive(t) /\ role \notin settled[t]
  /\ n \in 1..quantity[t]
  /\ n < quantity[t] => created < MaxTrades
  /\ r \in Requests =>
       /\ \A e \in ledger : <<e.trade, e.user, e.request>> # <<t, Party(t, role), r>>
       \* a client sends a request id again only with the same content
       /\ \A i \in 1..Len(effects[r]) :
            effects[r][i] = [trade |-> t, role |-> role, kind |-> kind, n |-> n]

(* recordSettlement: filed under the trade the client named.               *)
LedgerEntry_UnderTarget(t, role, n, r) ==
  [trade |-> SettleTarget(t, n), user |-> Party(t, role), request |-> r,
   settledTrade |-> SettleTarget(t, n)]
LedgerEntry(t, role, n, r) ==
  [trade |-> t, user |-> Party(t, role), request |-> r,
   settledTrade |-> SettleTarget(t, n)]

(* markCompletedWhenBothSettled, on the row the settlement claimed.        *)
SettledStatus(t, role, n) ==
  [status EXCEPT ![SettleTarget(t, n)] =
     IF SidesAfter(t, role, n) = Roles THEN "completed" ELSE "reserved"]

ClaimSettleTarget(t, role, n, kind, r) ==
  LET s == SettleTarget(t, n)
  IN  /\ MaySettle(t, role, n, kind, r)
      /\ terms' = [terms EXCEPT ![s] = terms[t]]
      /\ quantity' = QuantityAfter(t, n)
      /\ settled' = [settled EXCEPT ![s] = SidesAfter(t, role, n)]
      /\ ledger' = IF r \in Requests
                     THEN ledger \cup {LedgerEntry(t, role, n, r)} ELSE ledger
      /\ created' = IF n < quantity[t] THEN NextId ELSE created
      /\ root' = [root EXCEPT ![s] = root[t]]
      /\ effects' = IF r \in Requests
           THEN [effects EXCEPT ![r] =
                   Append(@, [trade |-> t, role |-> role, kind |-> kind, n |-> n])]
           ELSE effects
      /\ UNCHANGED <<agreed, groupVars>>

Moved(t, role, n) == [moved EXCEPT ![root[t]][role] = @ + n]

(* What the giver may name instead of the pins: copies that are free too.  *)
Deliverable(t) == pins[t] \cup FreePersonal(terms[t].giver)

(* applyTradeSync of the giver: the pins of the settled part are released  *)
(* and the copies deleted are those pins, or the chosen ones when the      *)
(* giver chose (any n copies among the pins and their free copies).        *)
ApplyGiver(t, n, chosen, r) ==
  LET u == terms[t].giver
  IN  /\ ClaimSettleTarget(t, "giver", n, "apply", r)
      /\ chosen # {} => /\ Cardinality(chosen) = n
                        /\ chosen \subseteq Deliverable(t)
      /\ \E M \in SplitPins(t, n, chosen) :
           LET disposed == IF chosen = {} THEN M ELSE chosen
           IN  /\ DeleteCopies(disposed, GiverPins(t, n, M))
               /\ moved' = Moved(t, "giver", Cardinality(disposed))
               /\ status' = IF disposed = {} THEN SettledStatus(t, "giver", n)
                            ELSE SweptStatus(u, SettledStatus(t, "giver", n))
      /\ UNCHANGED wish

(* applyTradeSync of the receiver: new copies in a collection the receiver *)
(* may write to, and the wish entry reduced by what arrived.               *)
ApplyReceiver(t, n, fresh, dest, r) ==
  LET u == terms[t].receiver
  IN  /\ ClaimSettleTarget(t, "receiver", n, "apply", r)
      /\ Cardinality(fresh) = n /\ \A c \in fresh : place[c] = Nowhere
      /\ dest = u \/ (dest \in Groups /\ u \in members[dest])
      /\ place' = [c \in Copies |-> IF c \in fresh THEN dest ELSE place[c]]
      /\ wish' = [wish EXCEPT ![u] = IF @ > n THEN @ - n ELSE 0]
      /\ moved' = Moved(t, "receiver", n)
      /\ \E M \in SplitPins(t, n, {}) : pins' = PinsAfterSplit(t, n, M)
      /\ status' = SettledStatus(t, "receiver", n)
      /\ UNCHANGED <<offered, lent, requested, bereft>>

(* skipTradeSync: settles a side without touching copies or wishes; the    *)
(* giver's pins of the settled part are released.                          *)
SkipSync(t, role, n, r) ==
  /\ ClaimSettleTarget(t, role, n, "skip", r)
  /\ \E M \in SplitPins(t, n, {}) :
       pins' = IF role = "giver" THEN GiverPins(t, n, M)
                                 ELSE PinsAfterSplit(t, n, M)
  /\ status' = SettledStatus(t, role, n)
  /\ UNCHANGED <<requested, place, offered, lent, wish, moved, bereft>>

-----------------------------------------------------------------------------
(* Collections and copies *)

Writable(u) == {u} \cup {g \in Groups : u \in members[g]}

AddCopy(u, c, dest) ==
  /\ u \in accounts /\ place[c] = Nowhere /\ dest \in Writable(u)
  /\ place' = [place EXCEPT ![c] = dest]
  /\ UNCHANGED <<rows, pins, offered, lent, wish, groupVars, history>>

MayMoveToGroup_Reserved(u, c, g) == place[c] \in Writable(u) /\ u \in members[g]
MayMoveToGroup(u, c, g) ==
  place[c] \in Writable(u) /\ u \in members[g] /\ c \notin Pinned

(* deleteTradeEntriesForCopies: the mover's own list entries for the copy. *)
WithoutEntries(u, c) ==
  IF place[c] = u THEN [g \in Groups |-> offered[g] \ {c}] ELSE offered

(* moveCopies into a group collection: refused for a reserved copy, the    *)
(* mover's list entries for it go, the mover's pending trades are swept.   *)
MoveToGroup(u, c, g) ==
  /\ MayMoveToGroup(u, c, g)
  /\ place' = [place EXCEPT ![c] = g]
  /\ offered' = WithoutEntries(u, c)
  /\ UNCHANGED <<pins, lent>>
  /\ status' = SweptStatus(u, status)
  /\ UNCHANGED <<created, terms, quantity, settled, requested, ledger, wish, groupVars,
                 history>>

(* moveCopies into a personal collection, for any copy the user may write. *)
MoveToPersonal(u, c) ==
  /\ place[c] \in Writable(u)
  /\ place' = [place EXCEPT ![c] = u]
  /\ UNCHANGED <<pins, offered, lent>>
  /\ status' = SweptStatus(u, status)
  /\ UNCHANGED <<created, terms, quantity, settled, requested, ledger, wish, groupVars,
                 history>>

(* The reservation and loan guards of every voluntary deletion.            *)
Disposable_Promised(S) == S # {} /\ S \cap Lent = {}
Disposable(S) == S # {} /\ S \cap (Pinned \cup Lent) = {}

(* What every deletion of copies leaves alone.                             *)
OnlyCopiesDeleted ==
  UNCHANGED <<created, terms, quantity, settled, ledger, wish, groupVars, root, agreed,
              moved, effects>>

(* disposeCopies, and clearCollection, which passes it the free copies of  *)
(* one collection.                                                         *)
DisposeCopies(u, S) ==
  /\ u \in accounts /\ Disposable(S)
  /\ \A c \in S : place[c] \in Writable(u)
  /\ DeleteCopies(S, pins)
  /\ status' = SweptStatus(u, status)
  /\ OnlyCopiesDeleted

(* resetCollections: all personal copies or none, and no sweep.            *)
ResetCollections(u) ==
  LET S == {c \in Copies : place[c] = u}
  IN  /\ Disposable(S)
      /\ DeleteCopies(S, pins)
      /\ UNCHANGED status
      /\ OnlyCopiesDeleted

-----------------------------------------------------------------------------
(* Loans, as far as they hold copies *)

(* createLoan takes free personal copies, offered or not, without a sweep. *)
LendCopies(u, S) ==
  /\ S # {} /\ S \subseteq FreePersonal(u)
  /\ lent' = [lent EXCEPT ![u] = @ \cup S]
  /\ UNCHANGED <<rows, pins, place, offered, wish, groupVars, history>>

(* returnLoanCopies, and a write-off that keeps the copies.                *)
ReturnCopies(u, S) ==
  /\ S # {} /\ S \subseteq lent[u]
  /\ lent' = [lent EXCEPT ![u] = @ \ S]
  /\ UNCHANGED <<rows, pins, place, offered, wish, groupVars, history>>

(* writeOffLoan with removeCopies: releases the loan's pins and disposes.  *)
(* The lender must still be allowed to write where the copies are.         *)
WriteOffLoan(u, S) ==
  /\ S # {} /\ S \subseteq lent[u] /\ \A c \in S : place[c] \in Writable(u)
  /\ DeleteCopies(S, pins)
  /\ status' = SweptStatus(u, status)
  /\ OnlyCopiesDeleted

-----------------------------------------------------------------------------
(* Lists and shares *)

(* A trade list holds copies of the user's own collections (personalOnly). *)
OfferCopy(u, c, g) ==
  /\ place[c] = u /\ u \in members[g] /\ c \notin offered[g]
  /\ offered' = [offered EXCEPT ![g] = @ \cup {c}]
  /\ UNCHANGED <<rows, pins, place, lent, wish, groupVars, history>>

(* Removing an entry from a list does not sweep.                           *)
UnlistCopy(u, c) ==
  /\ place[c] = u /\ \E g \in Groups : c \in offered[g]
  /\ offered' = [g \in Groups |-> offered[g] \ {c}]
  /\ UNCHANGED <<rows, pins, place, lent, wish, groupVars, history>>

OffersOf(g, u) == {c \in offered[g] : place[c] = u}

(* unshareList of a trade list.                                            *)
UnshareList(u, g) ==
  /\ OffersOf(g, u) # {}
  /\ offered' = [offered EXCEPT ![g] = @ \ OffersOf(g, u)]
  /\ UNCHANGED <<pins, place, lent>>
  /\ status' = IF \E t \in TradeIds :
                    status[t] = "pending" /\ terms[t].giver = u /\ terms[t].group = g
                 THEN SweptStatus(u, status) ELSE status
  /\ UNCHANGED <<created, terms, quantity, settled, requested, ledger, wish, groupVars,
                 history>>

EditWish(u, n) ==
  /\ wish[u] > 0 /\ n # wish[u]
  /\ wish' = [wish EXCEPT ![u] = n]
  /\ UNCHANGED <<rows, pins, place, offered, lent, groupVars, history>>

-----------------------------------------------------------------------------
(* Members, groups and accounts *)

Cancelled(S) == [t \in TradeIds |-> IF t \in S THEN "cancelled" ELSE status[t]]
Released(S)  == [t \in TradeIds |-> IF t \in S THEN {} ELSE pins[t]]

(* cancelForDepartingMember: a trade one side has settled stays open.      *)
Departing_AsGiver(g, u) ==
  {t \in TradeIds : terms[t].group = g /\ u = terms[t].giver /\ HoldsLiveSlot(t)}
Departing_HalfSettled(g, u) ==
  {t \in TradeIds : /\ terms[t].group = g /\ u \in {terms[t].giver, terms[t].receiver}
                    /\ status[t] \in {"pending", "reserved"}}
Departing(g, u) ==
  {t \in TradeIds : /\ terms[t].group = g /\ u \in {terms[t].giver, terms[t].receiver}
                    /\ HoldsLiveSlot(t)}

(* leave and kickMember; the shares of the member go with the membership.  *)
LeaveGroup(g, u) ==
  /\ u \in members[g] /\ members[g] # {u}
  /\ status' = Cancelled(Departing(g, u))
  /\ pins' = Released(Departing(g, u))
  /\ members' = [members EXCEPT ![g] = @ \ {u}]
  /\ offered' = [offered EXCEPT ![g] = @ \ OffersOf(g, u)]
  /\ UNCHANGED <<created, terms, quantity, settled, requested, ledger, place, lent, wish,
                 accounts, history>>

JoinGroup(g, u) ==
  /\ u \in accounts /\ u \notin members[g] /\ members[g] # {}
  /\ members' = [members EXCEPT ![g] = @ \cup {u}]
  /\ UNCHANGED <<rows, pins, place, offered, lent, wish, accounts, history>>

LiveIn(S) == {t \in S : status[t] \in {"pending", "reserved"}}

(* Deleting a group, through its owner or with its last member: the        *)
(* trigger closes its live trades, settled on one side or not.             *)
DeleteGroup(g) ==
  LET closing == LiveIn({t \in TradeIds : terms[t].group = g})
  IN  /\ members[g] # {}
      /\ CascadeCopies({c \in Copies : place[c] = g}, Released(closing),
                       [offered EXCEPT ![g] = {}], lent)
      /\ status' = Cancelled(closing)
      /\ terms' = [t \in TradeIds |->
           IF terms[t].group = g THEN [terms[t] EXCEPT !.group = Gone] ELSE terms[t]]
      /\ members' = [members EXCEPT ![g] = {}]
      /\ UNCHANGED <<created, quantity, settled, ledger, wish, accounts, root, agreed,
                     moved, effects>>

(* Deleting an account: its personal copies, lists, loans and ledger rows  *)
(* cascade, a trigger closes its live trades, groups it leaves empty go.   *)
DeleteUser(u) ==
  LET orphaned  == {g \in Groups : members[g] = {u}}
      partyTo   == {t \in TradeIds : u \in {terms[t].giver, terms[t].receiver}}
      closing   == LiveIn(partyTo \cup {t \in TradeIds : terms[t].group \in orphaned})
      nulled(x) == IF x = u \/ x \in orphaned THEN Gone ELSE x
      deleted   == {c \in Copies : place[c] \in {u} \cup orphaned}
  IN  /\ u \in accounts
      /\ CascadeCopies(deleted, Released(closing), offered, [lent EXCEPT ![u] = {}])
      /\ status' = Cancelled(closing)
      /\ terms' = [t \in TradeIds |-> [terms[t] EXCEPT !.group = nulled(@),
                                         !.giver = nulled(@), !.receiver = nulled(@)]]
      /\ ledger' = {e \in ledger : e.user # u}
      /\ wish' = [wish EXCEPT ![u] = 0]
      /\ members' = [g \in Groups |-> members[g] \ {u}]
      /\ accounts' = accounts \ {u}
      /\ UNCHANGED <<created, quantity, settled, root, agreed, moved, effects>>

-----------------------------------------------------------------------------
Quantities == 1..MaxQuantity
NamedSets  == IF "names" \in Scope THEN SUBSET Copies ELSE {{}}
Answers    == Requests \cup {NoRequest}
Reserved   == {t \in TradeIds : status[t] = "reserved"}

(* New copy ids are the database's choice; which ones does not matter.     *)
FreshCopies(n) ==
  LET free == {S \in SUBSET {c \in Copies : place[c] = Nowhere} : Cardinality(S) = n}
  IN  IF free = {} THEN {} ELSE {CHOOSE S \in free : TRUE}

Asking ==
  \/ \E g \in Groups, giver, receiver \in Users, initiator \in Roles,
        n \in Quantities, names \in NamedSets :
          CreateTrade(g, giver, receiver, initiator, n, names)
  \/ \E t \in TradeIds, n \in Quantities : SetTradeQuantity(t, n)
  \/ \E t \in TradeIds : CancelTrade(t)

Answering ==
  \/ \E t \in TradeIds, P \in SUBSET Copies : AcceptTrade(t, P)
  \/ \E t \in TradeIds :
       AcceptVanished(t) \/ AcceptNamedGone(t) \/ DeclineTrade(t)
  \/ \E S \in SUBSET TradeIds : ExpirePending(S)

Settling ==
  \E t \in Reserved, n \in Quantities, r \in Answers :
    \/ \E chosen \in SUBSET Deliverable(t) : ApplyGiver(t, n, chosen, r)
    \/ \E fresh \in FreshCopies(n), dest \in Users \cup Groups :
         ApplyReceiver(t, n, fresh, dest, r)
    \/ \E role \in Roles : SkipSync(t, role, n, r)

Collecting ==
  \E u \in Collectors :
    \/ \E c \in Copies, g \in Groups : MoveToGroup(u, c, g)
    \/ \E c \in Copies : MoveToPersonal(u, c)
    \/ \E S \in SUBSET Copies : DisposeCopies(u, S)
    \/ ResetCollections(u)

Adding ==
  \E u \in Collectors, c \in Copies, dest \in Users \cup Groups : AddCopy(u, c, dest)

Lending ==
  \E u \in Collectors, S \in SUBSET Copies :
    LendCopies(u, S) \/ ReturnCopies(u, S) \/ WriteOffLoan(u, S)

Listing ==
  \E u \in Collectors :
    \/ \E c \in Copies, g \in Groups : OfferCopy(u, c, g)
    \/ \E c \in Copies : UnlistCopy(u, c)
    \/ \E g \in Groups : UnshareList(u, g)
    \/ \E n \in 0..MaxQuantity : EditWish(u, n)

Membership ==
  \/ \E g \in Groups, u \in Users : LeaveGroup(g, u) \/ JoinGroup(g, u)
  \/ \E g \in Groups : DeleteGroup(g)
  \/ \E u \in Users : DeleteUser(u)

Next ==
  \/ Asking
  \/ Answering
  \/ "settling" \in Scope /\ Settling
  \/ "copies"   \in Scope /\ Collecting
  \/ "adding"   \in Scope /\ Adding
  \/ "loans"    \in Scope /\ Lending
  \/ "lists"    \in Scope /\ Listing
  \/ "members"  \in Scope /\ Membership

Spec == Init /\ [][Next]_vars

-----------------------------------------------------------------------------
(* Type invariant *)

LedgerEntries == [trade : TradeIds, user : Users, request : Requests,
                  settledTrade : TradeIds]
Settlements   == [trade : TradeIds, role : Roles, kind : {"apply", "skip"},
                  n : Nat]

TypeOK ==
  /\ created   \in 0..MaxTrades
  /\ status    \in [TradeIds -> Statuses]
  /\ terms     \in [TradeIds -> Terms]
  /\ quantity  \in [TradeIds -> Nat]
  /\ settled   \in [TradeIds -> SUBSET Roles]
  /\ pins      \in [TradeIds -> SUBSET Copies]
  /\ requested \in [TradeIds -> SUBSET Copies]
  /\ ledger    \subseteq LedgerEntries
  /\ place     \in [Copies -> Places]
  /\ offered   \in [Groups -> SUBSET Copies]
  /\ lent      \in [Users -> SUBSET Copies]
  /\ wish      \in [Users -> Nat]
  /\ members   \in [Groups -> SUBSET Users]
  /\ accounts  \subseteq Users
  /\ root      \in [TradeIds -> TradeIds]
  /\ agreed    \in [TradeIds -> Nat]
  /\ moved     \in [TradeIds -> [Roles -> Nat]]
  /\ bereft    \subseteq TradeIds
  /\ effects   \in [Requests -> Seq(Settlements)]

-----------------------------------------------------------------------------
(* Reservations *)

OwesCopies(t) == status[t] = "reserved" /\ "giver" \notin settled[t]

(* A copy is held back only while its giver still owes it: no closed trade *)
(* and no trade whose giver has settled keeps a pin that would hide the    *)
(* copy from the group and block its owner from disposing of it.           *)
PinsAreOwed == \A t \in TradeIds : pins[t] # {} => OwesCopies(t)

(* No copy is promised twice: not to two trades, not to a trade and a      *)
(* borrower (listFreePersonalMetadataForPrinting, listUnclaimedCopyIds).   *)
PromisedOnce ==
  /\ \A s, t \in TradeIds : s # t => pins[s] \cap pins[t] = {}
  /\ Pinned \cap Lent = {}
  /\ \A u, v \in Users : u # v => lent[u] \cap lent[v] = {}

(* A promised copy sits in a personal collection of its giver, so the      *)
(* giver can dispose of it and no group can take it away (rule of          *)
(* moveCopies and of the pin filter of acceptTrade).                       *)
PromisedCopyAtHome ==
  \A t \in TradeIds : \A c \in pins[t] : place[c] = terms[t].giver

(* A reservation holds as many copies as the giver still owes, through     *)
(* every split (selectSplitPins), unless a named copy was deleted under    *)
(* the request: that case is RequestKeepsItsCopies below.                  *)
PinsCoverQuantity ==
  \A t \in TradeIds : OwesCopies(t) /\ root[t] \notin bereft =>
    Cardinality(pins[t]) = quantity[t]

(* What acceptTrade's comments and ADR-019 say of named copies: a request  *)
(* that lost one is cancelled at accept, never reserved with other copies  *)
(* or with fewer.                                                          *)
RequestKeepsItsCopies == \A t \in bereft : status[t] # "reserved"

(* At most one live trade per group, giver and receiver; a split must not  *)
(* produce a second one (createSettledSplit, uq_card_trades_live).         *)
OneLiveTrade ==
  \A s, t \in TradeIds : s # t /\ HoldsLiveSlot(s) /\ HoldsLiveSlot(t) =>
    <<terms[s].group, terms[s].giver, terms[s].receiver>>
      # <<terms[t].group, terms[t].giver, terms[t].receiver>>

-----------------------------------------------------------------------------
(* Settlement *)

(* A trade completes when, and only when, both sides have settled it,      *)
(* whichever settles last and however it was split.                        *)
CompletedWhenBothSettled ==
  /\ \A t \in TradeIds : status[t] = "completed" => settled[t] = Roles
  /\ \A t \in TradeIds : status[t] = "reserved" => settled[t] # Roles
  /\ \A t \in TradeIds : status[t] \in {"none", "pending"} => settled[t] = {}

Family(t) == {s \in TradeIds : status[s] # "none" /\ root[s] = t}

(* Splits neither create nor lose copies: the rows of one trade add up to  *)
(* what was agreed, and a side never deletes or receives more copies than  *)
(* the rows it has settled stand for.                                      *)
SplitsConserveQuantity ==
  \A t \in TradeIds :
    /\ Sum(quantity, Family(t)) = agreed[t]
    /\ \A role \in Roles :
         moved[t][role] <= Sum(quantity, {s \in Family(t) : role \in settled[s]})
    /\ \A s \in Family(t) : quantity[s] > 0

(* A settlement request that is sent again, after a timeout or a lost      *)
(* answer, does not settle twice (card_trade_settlement_requests).         *)
RetriesSettleOnce == \A r \in Requests : Len(effects[r]) <= 1

(* Once one side has settled, the other cannot cancel or leave its way out *)
(* of the trade: only the end of the group or of an account closes it.     *)
SettledTradeStaysOpen ==
  [][\A t \in TradeIds :
       status[t] = "reserved" /\ settled[t] # {} /\ status'[t] = "cancelled"
         => terms'[t] # terms[t]]_vars

(* A promised copy leaves its place only when its giver settles the trade  *)
(* that promised it, or when the giver's account is deleted.               *)
PromisedCopyKept ==
  [][\A t \in TradeIds : \A c \in pins[t] : place'[c] # place[c] =>
       \/ \E s \in TradeIds :
            root'[s] = root[t] /\ "giver" \in settled'[s] \ settled[s]
       \/ terms[t].giver \notin accounts']_vars

-----------------------------------------------------------------------------
(* Supply *)

AllFillable(u) ==
  JointlyFillable(PendingOf(u, status), SupplyByGroup[u])

SweepingStep(u) ==
  \/ \E S \in SUBSET Copies : DisposeCopies(u, S) \/ WriteOffLoan(u, S)
  \/ \E c \in Copies :
       MoveToPersonal(u, c) \/ \E g \in Groups : MoveToGroup(u, c, g)
  \/ \E t \in TradeIds, P \in SUBSET Copies : terms[t].giver = u /\ AcceptTrade(t, P)
  \/ \E t \in TradeIds : terms[t].giver = u /\ AcceptVanished(t)

(* After each operation that ends with the sweep, the user's remaining     *)
(* pending trades can all be honoured: the offers side by side, out of     *)
(* disjoint copies, and each request from what they leave.                 *)
SweepLeavesFillable ==
  [][\A u \in Users : AllFillable(u)' \/ ~SweepingStep(u)]_vars

(* createTrade must agree with the sweep: a trade whose supply check passed *)
(* would survive the next sweep, and costs no earlier offer its copies.    *)
(* (setTradeQuantity does not agree: it judges the resized offer last, the *)
(* sweep judges it by its age.)                                            *)
SweepCancels(u) == AutoCancelled(PendingOf(u, status), SupplyByGroup[u])
SweepCancelsOffers(u) == {t \in SweepCancels(u) : terms[t].initiator = "giver"}
CreationAgreesWithSweep ==
  [][\A t \in TradeIds : status[t] = "none" /\ status'[t] = "pending" =>
       \A u \in Users : /\ t \notin SweepCancels(u)'
                        /\ SweepCancelsOffers(u)' \subseteq SweepCancelsOffers(u)]_vars

(* Both parties of a live, unsettled trade are members of its group: who   *)
(* leaves, is kicked or deletes the account takes those trades along, from *)
(* either side of the trade.                                               *)
LiveTradesAreBetweenMembers ==
  \A t \in TradeIds : HoldsLiveSlot(t) =>
    /\ terms[t].group \in Groups
    /\ {terms[t].giver, terms[t].receiver} \subseteq members[terms[t].group]
=============================================================================
